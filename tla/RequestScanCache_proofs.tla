----------------------- MODULE RequestScanCache_proofs -----------------------
(***************************************************************************)
(* Proofs about RequestScanCache, for any number of callers, requests and  *)
(* contexts, any TTL and any capacity.                                     *)
(*                                                                         *)
(* The list operations are reduced to two relations between the cache      *)
(* before and after: Shrinks (entries were dropped) and Rebinds (one       *)
(* request got an entry at the front and others may have been dropped).    *)
(* Every locked section is one of the two, and the invariants and the      *)
(* refinement are proved from the relations alone.                         *)
(***************************************************************************)
EXTENDS RequestScanCache, FiniteSetTheorems, SequenceTheorems, TLAPS

-----------------------------------------------------------------------------
(* The cache as a data structure *)

Entry == [state : Nat, last : Nat]

\* The list names every key of the map once.
WellFormed(c) ==
    /\ c.lru \in Seq(RequestIDs)
    /\ c.entries \in [Listed(c) -> Entry]
    /\ \A i, j \in DOMAIN c.lru : c.lru[i] = c.lru[j] => i = j

\* d is c without some of its entries.
Shrinks(c, d) ==
    /\ WellFormed(d)
    /\ Len(d.lru) <= Len(c.lru)
    /\ DOMAIN d.entries \subseteq DOMAIN c.entries
    /\ \A q \in DOMAIN d.entries : d.entries[q] = c.entries[q]

\* d binds r to the entry e; of the other entries of c it may have lost some.
Rebinds(c, d, r, e) ==
    /\ WellFormed(d)
    /\ Len(d.lru) <= MaxEntries
    /\ DOMAIN d.entries \subseteq DOMAIN c.entries \cup {r}
    /\ r \in DOMAIN d.entries /\ d.entries[r] = e
    /\ \A q \in DOMAIN d.entries \ {r} : d.entries[q] = c.entries[q]

LEMMA WellFormedFacts ==
  ASSUME NEW c, WellFormed(c)
  PROVE  /\ Len(c.lru) \in Nat
         /\ DOMAIN c.lru = 1..Len(c.lru)
         /\ DOMAIN c.entries = Listed(c)
         /\ DOMAIN c.entries \subseteq RequestIDs
         /\ \A i \in 1..Len(c.lru) : c.lru[i] \in RequestIDs /\ c.lru[i] \in DOMAIN c.entries
         /\ \A r \in DOMAIN c.entries : \E i \in 1..Len(c.lru) : c.lru[i] = r
  BY LenProperties DEF WellFormed, Listed

LEMMA ShrinksReflexive ==
  ASSUME NEW c, WellFormed(c) PROVE Shrinks(c, c)
  BY WellFormedFacts DEF Shrinks

LEMMA ShrinksTransitive ==
  ASSUME NEW c, NEW d, NEW e, WellFormed(c), Shrinks(c, d), Shrinks(d, e)
  PROVE  Shrinks(c, e)
<1>1. Len(c.lru) \in Nat /\ Len(d.lru) \in Nat /\ Len(e.lru) \in Nat
  BY WellFormedFacts DEF Shrinks
<1>2. QED
  BY <1>1 DEF Shrinks

LEMMA EmptyShrinks ==
  ASSUME NEW c, WellFormed(c) PROVE Shrinks(c, EmptyCache)
<1>1. EmptyCache.lru = <<>> /\ Listed(EmptyCache) = {} /\ DOMAIN EmptyCache.entries = {}
  BY DEF EmptyCache, Listed
<1>2. WellFormed(EmptyCache)
  BY <1>1 DEF WellFormed, EmptyCache
<1>3. QED
  BY <1>1, <1>2, WellFormedFacts DEF Shrinks

\* A suffix of the list goes, and with it exactly its entries.
LEMMA KeepPrefixShrinks ==
  ASSUME NEW c, WellFormed(c), NEW k \in 0..Len(c.lru)
  PROVE  /\ Shrinks(c, KeepPrefix(c, k))
         /\ Len(KeepPrefix(c, k).lru) = k
         /\ k > 0 => c.lru[1] \in DOMAIN KeepPrefix(c, k).entries
<1> DEFINE d == KeepPrefix(c, k)
           kept == SubSeq(c.lru, 1, k)
<1>1. /\ Len(c.lru) \in Nat
      /\ \A i \in 1..Len(c.lru) : c.lru[i] \in RequestIDs /\ c.lru[i] \in DOMAIN c.entries
  BY WellFormedFacts
<1>2. kept \in Seq(RequestIDs) /\ Len(kept) = k /\ \A i \in 1..k : kept[i] = c.lru[i]
  <2>1. \A i \in 1..k : c.lru[i] \in RequestIDs
    BY <1>1
  <2>2. /\ SubSeq(c.lru, 1, k) \in Seq(RequestIDs)
        /\ Len(SubSeq(c.lru, 1, k)) = IF 1 <= k THEN k - 1 + 1 ELSE 0
        /\ \A i \in 1..(k - 1 + 1) : SubSeq(c.lru, 1, k)[i] = c.lru[1 + i - 1]
    BY <1>1, <2>1, SubSeqProperties
  <2>3. QED
    BY <1>1, <2>2
<1>3. d.lru = kept /\ d.entries = [r \in {kept[i] : i \in 1..k} |-> c.entries[r]]
  BY DEF KeepPrefix
<1> HIDE DEF d, kept
<1>4. DOMAIN kept = 1..k
  BY <1>2, LenProperties
<1>5. Listed(d) = {kept[i] : i \in 1..k}
  BY <1>3, <1>4 DEF Listed
<1>6. \A r \in Listed(d) : r \in DOMAIN c.entries
  BY <1>1, <1>2, <1>5
<1>7. d.entries \in [Listed(d) -> Entry]
  BY <1>3, <1>5, <1>6 DEF WellFormed
<1>8. WellFormed(d)
  <2>1. \A i, j \in 1..k : kept[i] = kept[j] => i = j
    BY <1>1, <1>2 DEF WellFormed
  <2>2. QED
    BY <1>2, <1>3, <1>4, <1>7, <2>1 DEF WellFormed
<1>9. Shrinks(c, d)
  BY <1>1, <1>2, <1>3, <1>5, <1>6, <1>8 DEF Shrinks
<1>10. k > 0 => c.lru[1] \in DOMAIN d.entries
  BY <1>2, <1>3
<1>11. QED
  BY <1>2, <1>3, <1>9, <1>10 DEF d

\* removeLocked drops one entry from the map and the list.
LEMMA RemoveShrinks ==
  ASSUME NEW c, WellFormed(c), NEW r \in DOMAIN c.entries
  PROVE  /\ Shrinks(c, RemoveLocked(c, r))
         /\ Len(RemoveLocked(c, r).lru) = Len(c.lru) - 1
         /\ DOMAIN RemoveLocked(c, r).entries = DOMAIN c.entries \ {r}
<1> DEFINE d == RemoveLocked(c, r)
           n == Len(c.lru)
           p == Position(c.lru, r)
<1>1. /\ n \in Nat /\ DOMAIN c.lru = 1..n
      /\ DOMAIN c.entries = Listed(c)
      /\ \A i \in 1..n : c.lru[i] \in RequestIDs /\ c.lru[i] \in DOMAIN c.entries
      /\ \A q \in DOMAIN c.entries : \E i \in 1..n : c.lru[i] = q
  BY WellFormedFacts
<1>2. p \in 1..n /\ c.lru[p] = r
  BY <1>1 DEF Position
<1>3. /\ d.lru = [j \in 1..(n - 1) |-> IF j < p THEN c.lru[j] ELSE c.lru[j + 1]]
      /\ d.entries = [q \in DOMAIN c.entries \ {r} |-> c.entries[q]]
  BY DEF RemoveLocked, Without
<1> HIDE DEF d, n, p
<1>4. \A i, j \in 1..n : c.lru[i] = c.lru[j] => i = j
  BY <1>1 DEF WellFormed
<1>5. d.lru \in [1..(n - 1) -> RequestIDs]
  BY <1>1, <1>2, <1>3
<1>6. d.lru \in Seq(RequestIDs) /\ Len(d.lru) = n - 1 /\ DOMAIN d.lru = 1..(n - 1)
  <2>1. n - 1 \in Nat
    BY <1>1, <1>2
  <2>2. QED
    BY <1>5, <2>1
<1>7. Listed(d) = DOMAIN c.entries \ {r}
  <2>1. \A j \in 1..(n - 1) : d.lru[j] \in DOMAIN c.entries \ {r}
    BY <1>1, <1>2, <1>3, <1>4
  <2>2. ASSUME NEW q \in DOMAIN c.entries \ {r} PROVE q \in Listed(d)
    <3>1. PICK i \in 1..n : c.lru[i] = q
      BY <1>1
    <3>2. CASE i < p
      <4>1. i \in 1..(n - 1) /\ d.lru[i] = q
        BY <1>1, <1>2, <1>3, <3>1, <3>2
      <4>2. QED
        BY <4>1, <1>6 DEF Listed
    <3>3. CASE i > p
      <4>1. i - 1 \in 1..(n - 1) /\ d.lru[i - 1] = q
        BY <1>1, <1>2, <1>3, <3>1, <3>3
      <4>2. QED
        BY <4>1, <1>6 DEF Listed
    <3>4. QED
      BY <1>1, <1>2, <3>1, <3>2, <3>3
  <2>3. QED
    BY <2>1, <2>2, <1>6 DEF Listed
<1>8. \A i, j \in 1..(n - 1) : d.lru[i] = d.lru[j] => i = j
  BY <1>1, <1>2, <1>3, <1>4
<1>9. d.entries \in [Listed(d) -> Entry]
  BY <1>3, <1>7, <1>1 DEF WellFormed
<1>10. WellFormed(d)
  BY <1>6, <1>8, <1>9 DEF WellFormed
<1>11. Len(d.lru) <= Len(c.lru)
  BY <1>1, <1>6 DEF n
<1>12. Shrinks(c, d)
  BY <1>3, <1>10, <1>11 DEF Shrinks
<1>13. QED
  BY <1>3, <1>6, <1>12 DEF d, n

LEMMA ForgetShrinks ==
  ASSUME NEW c, WellFormed(c), NEW r
  PROVE  /\ Shrinks(c, Forget(c, r))
         /\ r \notin DOMAIN Forget(c, r).entries
<1>1. CASE r \in DOMAIN c.entries
  BY <1>1, RemoveShrinks DEF Forget
<1>2. CASE r \notin DOMAIN c.entries
  BY <1>2, ShrinksReflexive DEF Forget
<1>3. QED
  BY <1>1, <1>2

LEMMA PushFrontBinds ==
  ASSUME NEW c, WellFormed(c), NEW r \in RequestIDs, r \notin DOMAIN c.entries, NEW e \in Entry
  PROVE  LET d == PushFront(c, r, e)
         IN  /\ WellFormed(d)
             /\ Len(d.lru) = Len(c.lru) + 1 /\ d.lru[1] = r
             /\ DOMAIN d.entries = DOMAIN c.entries \cup {r}
             /\ d.entries[r] = e
             /\ \A q \in DOMAIN c.entries : d.entries[q] = c.entries[q]
<1> DEFINE d == PushFront(c, r, e)
           n == Len(c.lru)
<1>1. /\ n \in Nat /\ DOMAIN c.lru = 1..n
      /\ DOMAIN c.entries = Listed(c)
      /\ \A i \in 1..n : c.lru[i] \in RequestIDs /\ c.lru[i] \in DOMAIN c.entries
  BY WellFormedFacts
<1>2. /\ d.lru = <<r>> \o c.lru
      /\ d.entries = [q \in DOMAIN c.entries \cup {r} |-> IF q = r THEN e ELSE c.entries[q]]
  BY DEF PushFront
<1> HIDE DEF d
<1>3. /\ d.lru \in Seq(RequestIDs) /\ Len(d.lru) = n + 1
      /\ d.lru[1] = r /\ \A i \in 2..(n + 1) : d.lru[i] = c.lru[i - 1]
  <2>1. c.lru \in Seq(RequestIDs) /\ <<r>> \in Seq(RequestIDs) /\ Len(<<r>>) = 1 /\ <<r>>[1] = r
    BY DEF WellFormed
  <2> DEFINE one == <<r>>
  <2> HIDE DEF one
  <2>2. /\ one \o c.lru \in Seq(RequestIDs)
        /\ Len(one \o c.lru) = 1 + n
        /\ \A i \in 1..(1 + n) : (one \o c.lru)[i] = IF i <= 1 THEN one[i] ELSE c.lru[i - 1]
    <3>1. one \in Seq(RequestIDs) /\ Len(one) = 1
      BY <2>1 DEF one
    <3>2. QED
      BY <2>1, <3>1, ConcatProperties
  <2>3. one[1] = r
    BY <2>1 DEF one
  <2>4. QED
    BY <1>1, <1>2, <2>2, <2>3 DEF one
<1> HIDE DEF n
<1>4. DOMAIN d.lru = 1..(n + 1)
  BY <1>3, LenProperties
<1>5. Listed(d) = DOMAIN c.entries \cup {r}
  <2>1. \A i \in 1..(n + 1) : d.lru[i] \in DOMAIN c.entries \cup {r}
    BY <1>1, <1>3
  <2>2. ASSUME NEW q \in DOMAIN c.entries PROVE q \in Listed(d)
    <3>1. PICK i \in 1..n : c.lru[i] = q
      BY <1>1 DEF Listed
    <3>2. i + 1 \in 1..(n + 1) /\ d.lru[i + 1] = q
      BY <1>1, <1>3, <3>1
    <3>3. QED
      BY <3>2, <1>4 DEF Listed
  <2>3. r \in Listed(d)
    BY <1>1, <1>3, <1>4 DEF Listed
  <2>4. QED
    BY <2>1, <2>2, <2>3, <1>4 DEF Listed
<1>6. \A i, j \in 1..(n + 1) : d.lru[i] = d.lru[j] => i = j
  <2>1. \A i, j \in 1..n : c.lru[i] = c.lru[j] => i = j
    BY <1>1 DEF WellFormed
  <2>2. \A i \in 2..(n + 1) : d.lru[i] # r
    BY <1>1, <1>3
  <2>3. ASSUME NEW i \in 1..(n + 1), NEW j \in 1..(n + 1), d.lru[i] = d.lru[j] PROVE i = j
    <3>1. CASE i = 1 \/ j = 1
      BY <1>1, <1>3, <2>2, <2>3, <3>1
    <3>2. CASE i # 1 /\ j # 1
      <4>1. i - 1 \in 1..n /\ j - 1 \in 1..n /\ i \in 2..(n + 1) /\ j \in 2..(n + 1)
        BY <1>1, <3>2
      <4>2. c.lru[i - 1] = c.lru[j - 1]
        BY <4>1, <1>3, <2>3
      <4>3. i - 1 = j - 1
        BY <4>1, <4>2, <2>1
      <4>4. QED
        BY <1>1, <4>3
    <3>3. QED
      BY <3>1, <3>2
  <2>4. QED
    BY <2>3
<1>7. d.entries \in [Listed(d) -> Entry]
  BY <1>1, <1>2, <1>5 DEF WellFormed
<1>8. WellFormed(d)
  BY <1>3, <1>4, <1>6, <1>7 DEF WellFormed
<1>9. /\ DOMAIN d.entries = DOMAIN c.entries \cup {r}
      /\ d.entries[r] = e
      /\ \A q \in DOMAIN c.entries : d.entries[q] = c.entries[q]
  BY <1>2
<1>10. QED
  BY <1>3, <1>8, <1>9 DEF d, n

\* Handing out a live entry refreshes it and loses nothing.
LEMMA PromoteRebinds ==
  ASSUME NEW c, WellFormed(c), Len(c.lru) <= MaxEntries,
         NEW r \in DOMAIN c.entries, NEW now \in Nat
  PROVE  Rebinds(c, Promote(c, r, now), r, [c.entries[r] EXCEPT !.last = now])
<1> DEFINE m == RemoveLocked(c, r)
           e == [c.entries[r] EXCEPT !.last = now]
           d == PushFront(m, r, e)
<1>1. c.entries[r] \in Entry /\ r \in RequestIDs /\ Len(c.lru) \in Nat
  BY WellFormedFacts DEF WellFormed
<1>2. e \in Entry
  BY <1>1 DEF Entry
<1>3. /\ Shrinks(c, m) /\ Len(m.lru) = Len(c.lru) - 1
      /\ DOMAIN m.entries = DOMAIN c.entries \ {r}
  BY RemoveShrinks
<1> HIDE DEF m, e
<1>4. /\ WellFormed(d)
      /\ Len(d.lru) = Len(m.lru) + 1
      /\ DOMAIN d.entries = DOMAIN m.entries \cup {r}
      /\ d.entries[r] = e
      /\ \A q \in DOMAIN m.entries : d.entries[q] = m.entries[q]
  BY <1>1, <1>2, <1>3, PushFrontBinds DEF Shrinks
<1> HIDE DEF d
<1>5. Rebinds(c, d, r, e)
  BY <1>1, <1>3, <1>4 DEF Rebinds, Shrinks
<1>6. QED
  BY <1>5 DEF d, m, e, Promote

\* A fresh entry replaces the old one; eviction spares it, for it is in front.
LEMMA InsertRebinds ==
  ASSUME NEW c, WellFormed(c), NEW r \in RequestIDs, NEW e \in Entry, MaxEntries > 0
  PROVE  Rebinds(c, EvictLocked(PushFront(Forget(c, r), r, e)), r, e)
<1> DEFINE f == Forget(c, r)
           d == PushFront(f, r, e)
           k == IF Len(d.lru) > MaxEntries THEN MaxEntries ELSE Len(d.lru)
           k0 == KeepPrefix(d, k)
<1>1. Shrinks(c, f) /\ r \notin DOMAIN f.entries
  BY ForgetShrinks
<1> HIDE DEF f
<1>2. /\ WellFormed(d) /\ d.lru[1] = r
      /\ Len(d.lru) = Len(f.lru) + 1
      /\ DOMAIN d.entries = DOMAIN f.entries \cup {r}
      /\ d.entries[r] = e
      /\ \A q \in DOMAIN f.entries : d.entries[q] = f.entries[q]
  BY <1>1, PushFrontBinds DEF Shrinks
<1> HIDE DEF d
<1>3. k \in 0..Len(d.lru) /\ k > 0 /\ k <= MaxEntries
  <2>1. Len(f.lru) \in Nat
    BY <1>1, WellFormedFacts DEF Shrinks
  <2>2. QED
    BY <1>2, <2>1, CacheConstants
<1> HIDE DEF k
<1>4. /\ Shrinks(d, k0) /\ Len(k0.lru) = k /\ r \in DOMAIN k0.entries
  BY <1>2, <1>3, KeepPrefixShrinks
<1> HIDE DEF k0
<1>5. Rebinds(c, k0, r, e)
  BY <1>1, <1>2, <1>3, <1>4 DEF Rebinds, Shrinks
<1>6. QED
  BY <1>5 DEF k0, k, d, f, EvictLocked

\* The map has as many keys as the list has elements.
LEMMA CountedByList ==
  ASSUME NEW c, WellFormed(c)
  PROVE  IsFiniteSet(DOMAIN c.entries) /\ Cardinality(DOMAIN c.entries) <= Len(c.lru)
<1> DEFINE n == Len(c.lru)
<1>1. n \in Nat /\ DOMAIN c.lru = 1..n /\ DOMAIN c.entries = Listed(c)
  BY WellFormedFacts
<1>2. c.lru \in Surjection(1..n, DOMAIN c.entries)
  <2>1. c.lru \in [1..n -> DOMAIN c.entries]
    BY <1>1, LenProperties DEF WellFormed, Listed
  <2>2. QED
    BY <1>1, <2>1 DEF Surjection, Listed
<1>3. IsFiniteSet(1..n) /\ Cardinality(1..n) = n
  BY <1>1, FS_Interval
<1>4. QED
  BY <1>1, <1>2, <1>3, FS_Surjection

-----------------------------------------------------------------------------
(* The inductive invariant *)

Call == [pc : {"idle", "acquire", "holding", "prune"},
         rid : RequestIDs \cup {NoRequestID}, context : Contexts \cup {NoContext},
         now : Nat, state : Nat]

\* Where a caller stands says what it carries; no reading of the clock is in the
\* future.
CallFits(c) ==
    /\ c.now <= clock
    /\ c.pc = "acquire" => c.rid \in RequestIDs /\ c.context \in Contexts /\ MaxEntries > 0
    /\ c.pc = "holding" => c.state \in 1..Len(states) /\ c.context \in Contexts

CallsOK == call \in [Threads -> Call] /\ \A t \in Threads : CallFits(call[t])

CacheOK ==
    /\ WellFormed(cache)
    /\ Len(cache.lru) <= MaxEntries
    /\ \A r \in DOMAIN cache.entries :
          cache.entries[r].state \in 1..Len(states) /\ cache.entries[r].last <= clock

\* Two entries never hold the same state: without it, the state of one request
\* could be handed out for another.
EntriesApart ==
    \A q, r \in DOMAIN cache.entries : cache.entries[q].state = cache.entries[r].state => q = r

IInv ==
    /\ clock \in Nat /\ states \in Seq(Contexts)
    /\ CallsOK /\ CacheOK /\ EntriesApart /\ StateBelongsToOneRequest

LEMMA StatesLen ==
  ASSUME IInv PROVE Len(states) \in Nat /\ DOMAIN states = 1..Len(states)
  BY LenProperties DEF IInv

LEMMA InitInvariant == Init => IInv
<1> SUFFICES ASSUME Init PROVE IInv
  OBVIOUS
<1>1. states = <<>> /\ clock = 0 /\ cache = EmptyCache /\ call = [t \in Threads |-> Idle]
  BY DEF Init
<1>2. Idle \in Call /\ CallFits(Idle)
  BY <1>1 DEF Idle, Call, CallFits
<1>3. CallsOK
  BY <1>1, <1>2 DEF CallsOK
<1>4. DOMAIN cache.entries = {} /\ cache.lru = <<>> /\ Listed(cache) = {}
  BY <1>1 DEF EmptyCache, Listed
<1>5. WellFormed(cache)
  BY <1>1, <1>4 DEF WellFormed, EmptyCache
<1>6. CacheOK /\ EntriesApart
  BY <1>4, <1>5, CacheConstants DEF CacheOK, EntriesApart
<1>7. \A t \in Threads : ~Holding(t)
  BY <1>1 DEF Holding, Idle
<1>8. QED
  BY <1>1, <1>3, <1>6, <1>7 DEF IInv, StateBelongsToOneRequest

\* A step that only drops entries, and hands nothing out.
LEMMA DropPreserves ==
  ASSUME IInv, Shrinks(cache, cache'), UNCHANGED <<clock, states>>, CallsOK',
         \A u \in Threads : Holding(u)' => Holding(u) /\ call'[u] = call[u]
  PROVE  IInv'
<1>1. /\ WellFormed(cache') /\ DOMAIN cache'.entries \subseteq DOMAIN cache.entries
      /\ \A q \in DOMAIN cache'.entries : cache'.entries[q] = cache.entries[q]
      /\ Len(cache'.lru) <= Len(cache.lru)
  BY DEF Shrinks
<1>2. Len(cache.lru) \in Nat /\ Len(cache'.lru) \in Nat
  BY <1>1, WellFormedFacts DEF IInv, CacheOK
<1>3. CacheOK'
  BY <1>1, <1>2, CacheConstants DEF IInv, CacheOK
<1>4. EntriesApart'
  BY <1>1 DEF IInv, EntriesApart
<1>5. StateBelongsToOneRequest'
  BY <1>1 DEF IInv, StateBelongsToOneRequest, Holding
<1>6. QED
  BY <1>3, <1>4, <1>5 DEF IInv

\* Thread t moves to c and the others stay.
LEMMA MoveFits ==
  ASSUME IInv, UNCHANGED <<clock, states>>, NEW t \in Threads, NEW c \in Call, CallFits(c),
         call' = [call EXCEPT ![t] = c]
  PROVE  /\ CallsOK'
         /\ call'[t] = c
         /\ \A u \in Threads \ {t} : call'[u] = call[u]
<1>1. call' \in [Threads -> Call] /\ \A u \in Threads : call'[u] = IF u = t THEN c ELSE call[u]
  BY DEF IInv, CallsOK
<1>2. CallFits(c)'
  BY DEF CallFits
<1>3. \A u \in Threads : CallFits(call[u])'
  BY <1>1, <1>2 DEF IInv, CallsOK, CallFits
<1>4. QED
  BY <1>1, <1>3 DEF CallsOK

LEMMA TickPreserves == ASSUME IInv, Tick PROVE IInv'
<1>1. clock' = clock + 1 /\ UNCHANGED <<cache, states, call>> /\ clock \in Nat
  BY DEF Tick, IInv
<1>2. CallsOK'
  <2>1. \A t \in Threads : call[t] \in Call
    BY DEF IInv, CallsOK
  <2>2. \A t \in Threads : CallFits(call[t])'
    BY <1>1, <2>1 DEF IInv, CallsOK, CallFits, Call
  <2>3. QED
    BY <1>1, <2>2 DEF IInv, CallsOK
<1>3. CacheOK'
  <2>1. \A r \in DOMAIN cache.entries : cache.entries[r].last \in Nat
    BY DEF IInv, CacheOK, WellFormed, Entry
  <2>2. QED
    BY <1>1, <2>1 DEF IInv, CacheOK
<1>4. EntriesApart' /\ StateBelongsToOneRequest'
  BY <1>1 DEF IInv, EntriesApart, StateBelongsToOneRequest, Holding
<1>5. QED
  BY <1>1, <1>2, <1>3, <1>4 DEF IInv

LEMMA ClearPreserves == ASSUME IInv, Clear PROVE IInv'
<1>1. Shrinks(cache, cache') /\ UNCHANGED <<clock, states, call>>
  BY EmptyShrinks DEF Clear, IInv, CacheOK
<1>2. CallsOK'
  BY <1>1 DEF IInv, CallsOK, CallFits
<1>3. QED
  BY <1>1, <1>2, DropPreserves DEF Holding

LEMMA CompletePreserves == ASSUME IInv, NEW rid \in RequestIDs, Complete(rid) PROVE IInv'
<1>1. Shrinks(cache, cache') /\ UNCHANGED <<clock, states, call>>
  BY ForgetShrinks DEF Complete, IInv, CacheOK
<1>2. CallsOK'
  BY <1>1 DEF IInv, CallsOK, CallFits
<1>3. QED
  BY <1>1, <1>2, DropPreserves DEF Holding

\* A caller that moves to a place other than holding.
LEMMA NotHandedPreserves ==
  ASSUME IInv, Shrinks(cache, cache'), UNCHANGED <<clock, states>>,
         NEW t \in Threads, NEW c \in Call, CallFits(c), c.pc # "holding",
         call' = [call EXCEPT ![t] = c]
  PROVE  IInv'
<1>1. CallsOK' /\ call'[t] = c /\ \A u \in Threads \ {t} : call'[u] = call[u]
  BY MoveFits
<1>2. QED
  BY <1>1, DropPreserves DEF Holding

LEMMA IdleFits == ASSUME IInv PROVE Idle \in Call /\ CallFits(Idle)
  BY DEF IInv, Idle, Call, CallFits

LEMMA ReadClockPreserves ==
  ASSUME IInv, NEW t \in Threads, NEW rid \in RequestIDs \cup {NoRequestID},
         NEW context \in Contexts, AcquireReadClock(t, rid, context)
  PROVE  IInv'
<1> DEFINE c == [pc |-> "acquire", rid |-> rid, context |-> context, now |-> clock, state |-> 0]
<1>1. c \in Call /\ CallFits(c) /\ c.pc # "holding"
  BY DEF IInv, Call, CallFits, AcquireReadClock
<1>2. call' = [call EXCEPT ![t] = c] /\ UNCHANGED <<clock, cache, states>>
  BY DEF AcquireReadClock
<1>3. Shrinks(cache, cache')
  BY <1>2, ShrinksReflexive DEF IInv, CacheOK
<1> HIDE DEF c
<1>4. QED
  BY <1>1, <1>2, <1>3, NotHandedPreserves

LEMMA ReleasePreserves == ASSUME IInv, NEW t \in Threads, Release(t) PROVE IInv'
<1>1. Shrinks(cache, cache') /\ UNCHANGED <<clock, states>> /\ call' = [call EXCEPT ![t] = Idle]
  BY ShrinksReflexive DEF IInv, CacheOK, Release
<1>2. Idle.pc # "holding"
  BY DEF Idle
<1>3. QED
  BY <1>1, <1>2, IdleFits, NotHandedPreserves

LEMMA PruneReadPreserves == ASSUME IInv, NEW t \in Threads, PruneReadClock(t) PROVE IInv'
<1> DEFINE c == [pc |-> "prune", rid |-> NoRequestID, context |-> NoContext, now |-> clock, state |-> 0]
<1>1. c \in Call /\ CallFits(c) /\ c.pc # "holding"
  BY DEF IInv, Call, CallFits
<1>2. call' = [call EXCEPT ![t] = c] /\ UNCHANGED <<clock, cache, states>>
  BY DEF PruneReadClock
<1>3. Shrinks(cache, cache')
  BY <1>2, ShrinksReflexive DEF IInv, CacheOK
<1> HIDE DEF c
<1>4. QED
  BY <1>1, <1>2, <1>3, NotHandedPreserves

LEMMA PrunePreserves == ASSUME IInv, NEW t \in Threads, PruneLocked(t) PROVE IInv'
<1>1. PICK k \in 0..Len(cache.lru) : cache' = KeepPrefix(cache, k)
  BY DEF PruneLocked
<1>2. Shrinks(cache, cache')
  BY <1>1, KeepPrefixShrinks DEF IInv, CacheOK
<1>3. UNCHANGED <<clock, states>> /\ call' = [call EXCEPT ![t] = Idle] /\ Idle.pc # "holding"
  BY DEF PruneLocked, Idle
<1>4. QED
  BY <1>2, <1>3, IdleFits, NotHandedPreserves

-----------------------------------------------------------------------------
(* The steps that hand out a state *)

LEMMA RebindsAfterShrinking ==
  ASSUME NEW c, NEW d, NEW f, NEW r, NEW e, Shrinks(c, d), Rebinds(d, f, r, e)
  PROVE  Rebinds(c, f, r, e)
  BY DEF Shrinks, Rebinds

\* The caller c once it holds the state s.
Handed(c, s) ==
    [pc |-> "holding", rid |-> c.rid, context |-> c.context, now |-> c.now, state |-> s]

\* The locked section of Acquire reuses the live entry of the same context ...
Reuses(t) ==
    LET r == call[t].rid
        e == cache.entries[r]
    IN  /\ r \in DOMAIN cache.entries
        /\ ~Expired(e, call[t].now)
        /\ states[e.state] = call[t].context
        /\ Rebinds(cache, cache', r, [state |-> e.state, last |-> call[t].now])
        /\ call' = [call EXCEPT ![t] = Handed(call[t], e.state)]
        /\ UNCHANGED states

\* ... or binds the request to a new state.
Creates(t) ==
    /\ states' = Append(states, call[t].context)
    /\ Rebinds(cache, cache', call[t].rid, [state |-> Len(states) + 1, last |-> call[t].now])
    /\ call' = [call EXCEPT ![t] = Handed(call[t], Len(states) + 1)]

LEMMA HandedRecord ==
  ASSUME NEW c \in Call, NEW s
  PROVE  [c EXCEPT !.pc = "holding", !.state = s] = Handed(c, s)
<1> DEFINE d == [c EXCEPT !.pc = "holding"]
<1>1. d = [pc |-> "holding", rid |-> c.rid, context |-> c.context, now |-> c.now, state |-> c.state]
  BY DEF Call
<1>2. [d EXCEPT !.state = s] = Handed(c, s)
  <2> HIDE DEF d
  <2> QED BY <1>1 DEF Handed
<1>3. QED
  BY <1>2

LEMMA HandedUpdate ==
  ASSUME call \in [Threads -> Call], NEW t \in Threads, NEW s
  PROVE  [call EXCEPT ![t].pc = "holding", ![t].state = s] = [call EXCEPT ![t] = Handed(call[t], s)]
<1>1. call[t] \in Call
  OBVIOUS
<1>2. [call[t] EXCEPT !.pc = "holding", !.state = s] = Handed(call[t], s)
  BY <1>1, HandedRecord
<1>3. QED
  BY <1>2

LEMMA AcquireCases ==
  ASSUME IInv, NEW t \in Threads, AcquireLocked(t)
  PROVE  /\ call[t].pc = "acquire" /\ UNCHANGED clock
         /\ Reuses(t) \/ Creates(t)
<1> DEFINE rid == call[t].rid
           context == call[t].context
           now == call[t].now
<1>1. call[t] \in Call /\ call[t].pc = "acquire" /\ UNCHANGED clock
  BY DEF IInv, CallsOK, AcquireLocked
<1>2. rid \in RequestIDs /\ context \in Contexts /\ now \in Nat /\ MaxEntries > 0
  BY <1>1 DEF IInv, CallsOK, CallFits, Call
<1>3. PICK k \in 0..Len(cache.lru) :
        LET c == KeepPrefix(cache, k)
        IN  \/ /\ Reusable(c, rid, context, now)
               /\ cache' = Promote(c, rid, now)
               /\ call' = [call EXCEPT ![t].pc = "holding", ![t].state = c.entries[rid].state]
               /\ UNCHANGED states
            \/ /\ ~Reusable(c, rid, context, now)
               /\ Len(states) < MaxStates
               /\ states' = Append(states, context)
               /\ cache' = EvictLocked(PushFront(Forget(c, rid), rid,
                               [state |-> Len(states) + 1, last |-> now]))
               /\ call' = [call EXCEPT ![t].pc = "holding", ![t].state = Len(states) + 1]
  BY DEF AcquireLocked
<1> DEFINE c == KeepPrefix(cache, k)
<1>4. WellFormed(cache) /\ Len(cache.lru) <= MaxEntries /\ Len(cache.lru) \in Nat
  BY WellFormedFacts DEF IInv, CacheOK
<1>5. Shrinks(cache, c) /\ Len(c.lru) = k /\ WellFormed(c)
  BY <1>4, KeepPrefixShrinks DEF Shrinks
<1>6. Len(c.lru) <= MaxEntries
  BY <1>4, <1>5, CacheConstants
<1> HIDE DEF c
<1>7. CASE /\ Reusable(c, rid, context, now)
           /\ cache' = Promote(c, rid, now)
           /\ call' = [call EXCEPT ![t].pc = "holding", ![t].state = c.entries[rid].state]
           /\ UNCHANGED states
  <2>1. rid \in DOMAIN c.entries /\ c.entries[rid] = cache.entries[rid] /\ rid \in DOMAIN cache.entries
    BY <1>5, <1>7 DEF Reusable, Shrinks
  <2>2. ~Expired(cache.entries[rid], now) /\ states[cache.entries[rid].state] = context
    BY <1>7, <2>1 DEF Reusable
  <2>3. Rebinds(c, cache', rid, [c.entries[rid] EXCEPT !.last = now])
    BY <1>2, <1>5, <1>6, <1>7, <2>1, PromoteRebinds
  <2>4. [c.entries[rid] EXCEPT !.last = now] = [state |-> cache.entries[rid].state, last |-> now]
    <3>1. c.entries[rid] \in Entry
      BY <1>5, <2>1 DEF WellFormed
    <3>2. QED
      BY <2>1, <3>1 DEF Entry
  <2>5. Rebinds(cache, cache', rid, [state |-> cache.entries[rid].state, last |-> now])
    BY <1>5, <2>3, <2>4, RebindsAfterShrinking
  <2>6. call' = [call EXCEPT ![t] = Handed(call[t], cache.entries[rid].state)]
    BY <1>7, <2>1, HandedUpdate DEF IInv, CallsOK
  <2>7. QED
    BY <1>1, <1>7, <2>1, <2>2, <2>5, <2>6 DEF Reuses
<1>8. CASE /\ ~Reusable(c, rid, context, now)
           /\ states' = Append(states, context)
           /\ cache' = EvictLocked(PushFront(Forget(c, rid), rid,
                           [state |-> Len(states) + 1, last |-> now]))
           /\ call' = [call EXCEPT ![t].pc = "holding", ![t].state = Len(states) + 1]
  <2> DEFINE e == [state |-> Len(states) + 1, last |-> now]
  <2>1. e \in Entry
    BY <1>2, StatesLen DEF Entry
  <2> HIDE DEF e
  <2>2. cache' = EvictLocked(PushFront(Forget(c, rid), rid, e))
    BY <1>8 DEF e
  <2>3. Rebinds(cache, cache', rid, e)
    BY <1>2, <1>5, <2>1, <2>2, InsertRebinds, RebindsAfterShrinking
  <2>4. call' = [call EXCEPT ![t] = Handed(call[t], Len(states) + 1)]
    BY <1>8, HandedUpdate DEF IInv, CallsOK
  <2>5. QED
    BY <1>1, <1>8, <2>3, <2>4 DEF Creates, e
<1>9. QED
  BY <1>3, <1>7, <1>8 DEF c

\* What t was handed belongs to its request, in the map and among the callers.
LEMMA ReusePreserves ==
  ASSUME IInv, NEW t \in Threads, call[t].pc = "acquire", UNCHANGED clock, Reuses(t)
  PROVE  IInv'
<1> DEFINE rid == call[t].rid
           old == cache.entries[rid]
           s == old.state
           e == [state |-> s, last |-> call[t].now]
           h == Handed(call[t], s)
<1>1. /\ rid \in DOMAIN cache.entries
      /\ Rebinds(cache, cache', rid, e)
      /\ call' = [call EXCEPT ![t] = h] /\ UNCHANGED <<states, clock>>
  BY DEF Reuses
<1>2. /\ call[t] \in Call /\ CallFits(call[t])
      /\ rid \in RequestIDs /\ s \in 1..Len(states)
  BY <1>1 DEF IInv, CallsOK, CacheOK, CallFits
<1>3. h \in Call /\ CallFits(h) /\ h.pc = "holding" /\ h.state = s /\ h.rid = rid
  <2>1. Len(states) \in Nat
    BY StatesLen
  <2>2. QED
    BY <1>2, <2>1 DEF Handed, Call, CallFits
<1>4. e.state = s /\ e.last = call[t].now /\ call[t].now <= clock
  BY <1>2 DEF CallFits
<1> HIDE DEF h, e
<1>5. CallsOK' /\ call'[t] = h /\ \A u \in Threads \ {t} : call'[u] = call[u]
  BY <1>1, <1>3, MoveFits
<1>6. \A q \in DOMAIN cache'.entries : q \in DOMAIN cache.entries /\ cache'.entries[q].state = cache.entries[q].state
  BY <1>1, <1>4 DEF Rebinds
<1>7. \A q \in DOMAIN cache'.entries : cache'.entries[q].last <= clock
  BY <1>1, <1>4 DEF Rebinds, IInv, CacheOK
<1>8. CacheOK'
  BY <1>1, <1>6, <1>7 DEF Rebinds, IInv, CacheOK
<1>9. EntriesApart'
  BY <1>6 DEF IInv, EntriesApart
<1>10. StateBelongsToOneRequest'
  <2>1. \A u \in Threads \ {t} : Holding(u) =>
            (call[u].state = s => call[u].rid = rid)
    BY <1>1 DEF IInv, StateBelongsToOneRequest
  <2>2. \A q \in DOMAIN cache'.entries : cache'.entries[q].state = s => q = rid
    BY <1>1, <1>6 DEF IInv, EntriesApart
  <2>3. rid # NoRequestID
    BY <1>2, CacheConstants
  <2>4. ASSUME NEW u \in Threads, Holding(u)'
        PROVE  /\ \A q \in DOMAIN cache'.entries :
                     cache'.entries[q].state = call'[u].state => q = call'[u].rid
               /\ \A v \in Threads \ {u} :
                     Holding(v)' /\ call'[v].state = call'[u].state =>
                         call'[v].rid = call'[u].rid /\ call'[u].rid # NoRequestID
    <3>1. CASE u = t
      <4>1. call'[u].state = s /\ call'[u].rid = rid
        BY <1>3, <1>5, <3>1
      <4>2. \A v \in Threads \ {t} : Holding(v)' => Holding(v) /\ call'[v] = call[v]
        BY <1>5 DEF Holding
      <4>3. QED
        BY <2>1, <2>2, <2>3, <3>1, <4>1, <4>2
    <3>2. CASE u # t
      <4>1. call'[u] = call[u] /\ Holding(u)
        BY <1>5, <2>4, <3>2 DEF Holding
      <4>2. \A q \in DOMAIN cache'.entries :
               cache'.entries[q].state = call[u].state => q = call[u].rid
        BY <1>6, <4>1 DEF IInv, StateBelongsToOneRequest
      <4>3. ASSUME NEW v \in Threads \ {u}, Holding(v)', call'[v].state = call[u].state
            PROVE  call'[v].rid = call[u].rid /\ call[u].rid # NoRequestID
        <5>1. CASE v = t
          BY <1>3, <1>5, <2>1, <2>3, <3>2, <4>1, <4>3, <5>1
        <5>2. CASE v # t
          BY <1>5, <4>1, <4>3, <5>2 DEF IInv, StateBelongsToOneRequest, Holding
        <5>3. QED
          BY <5>1, <5>2
      <4>4. QED
        BY <4>1, <4>2, <4>3
    <3>3. QED
      BY <3>1, <3>2
  <2>5. QED
    BY <2>4 DEF StateBelongsToOneRequest
<1>11. QED
  BY <1>1, <1>5, <1>8, <1>9, <1>10 DEF IInv

\* A state that is new is nobody else's.
LEMMA NewStatePreserves ==
  ASSUME IInv, NEW t \in Threads, UNCHANGED clock, NEW context \in Contexts,
         states' = Append(states, context),
         NEW h \in Call, h.pc = "holding", h.state = Len(states) + 1, h.now <= clock,
         h.context \in Contexts,
         call' = [call EXCEPT ![t] = h],
         \/ UNCHANGED cache /\ h.rid = NoRequestID
         \/ Rebinds(cache, cache', h.rid, [state |-> Len(states) + 1, last |-> h.now])
  PROVE  IInv'
<1> DEFINE n == Len(states)
<1>1. n \in Nat /\ states' \in Seq(Contexts) /\ Len(states') = n + 1
  BY StatesLen, AppendProperties DEF IInv
<1> HIDE DEF n
<1>2. call' \in [Threads -> Call] /\ call'[t] = h /\ \A u \in Threads \ {t} : call'[u] = call[u]
  BY DEF IInv, CallsOK
<1>3. CallsOK'
  <2>1. CallFits(h)'
    BY <1>1 DEF CallFits, n
  <2>2. \A u \in Threads : CallFits(call[u])'
    <3> SUFFICES ASSUME NEW u \in Threads PROVE CallFits(call[u])'
      OBVIOUS
    <3>1. CASE u = t
      BY <3>1, <2>1, <1>2 DEF CallFits
    <3>2. CASE u # t
      BY <1>1, <1>2, <3>2 DEF IInv, CallsOK, CallFits, Call, n
    <3>3. QED
      BY <3>1, <3>2
  <2>3. QED
    BY <1>2, <2>2 DEF CallsOK
<1>4. /\ WellFormed(cache') /\ Len(cache'.lru) <= MaxEntries
      /\ \A q \in DOMAIN cache'.entries :
            \/ q \in DOMAIN cache.entries /\ cache'.entries[q] = cache.entries[q]
            \/ q = h.rid /\ cache'.entries[q] = [state |-> n + 1, last |-> h.now]
  BY DEF Rebinds, IInv, CacheOK, n
<1>5. \A q \in DOMAIN cache'.entries :
            \/ q \in DOMAIN cache.entries /\ cache'.entries[q] = cache.entries[q]
               /\ cache'.entries[q].state \in 1..n /\ cache'.entries[q].last <= clock
            \/ q = h.rid /\ cache'.entries[q].state = n + 1 /\ cache'.entries[q].last <= clock
  BY <1>4 DEF IInv, CacheOK, n
<1>6. CacheOK'
  BY <1>1, <1>4, <1>5 DEF CacheOK
<1>7. EntriesApart'
  BY <1>1, <1>5 DEF IInv, EntriesApart
<1>8. \A u \in Threads \ {t} : Holding(u)' => Holding(u) /\ call'[u] = call[u] /\ call[u].state \in 1..n
  BY <1>2 DEF Holding, IInv, CallsOK, CallFits, n
<1>9. StateBelongsToOneRequest'
  <2>1. ASSUME NEW u \in Threads, Holding(u)'
        PROVE  /\ \A q \in DOMAIN cache'.entries :
                     cache'.entries[q].state = call'[u].state => q = call'[u].rid
               /\ \A v \in Threads \ {u} :
                     Holding(v)' /\ call'[v].state = call'[u].state =>
                         call'[v].rid = call'[u].rid /\ call'[u].rid # NoRequestID
    <3>1. CASE u = t
      <4>1. call'[u].state = n + 1 /\ call'[u].rid = h.rid
        BY <1>2, <3>1 DEF n
      <4>2. \A v \in Threads \ {u} : Holding(v)' => call'[v].state # n + 1
        BY <1>1, <1>8, <3>1
      <4>3. QED
        BY <1>1, <1>5, <4>1, <4>2
    <3>2. CASE u # t
      <4>1. Holding(u) /\ call'[u] = call[u] /\ call[u].state \in 1..n
        BY <1>8, <2>1, <3>2
      <4>2. \A q \in DOMAIN cache'.entries :
               cache'.entries[q].state = call[u].state => q = call[u].rid
        BY <1>1, <1>5, <4>1 DEF IInv, StateBelongsToOneRequest
      <4>3. ASSUME NEW v \in Threads \ {u}, Holding(v)', call'[v].state = call[u].state
            PROVE  call'[v].rid = call[u].rid /\ call[u].rid # NoRequestID
        <5>1. v # t
          BY <1>1, <1>2, <4>1, <4>3 DEF n
        <5>2. Holding(v) /\ call'[v] = call[v]
          BY <1>8, <4>3, <5>1
        <5>3. QED
          BY <4>1, <4>3, <5>2 DEF IInv, StateBelongsToOneRequest
      <4>4. QED
        BY <4>1, <4>2, <4>3
    <3>3. QED
      BY <3>1, <3>2
  <2>2. QED
    BY <2>1 DEF StateBelongsToOneRequest
<1>10. QED
  BY <1>1, <1>3, <1>6, <1>7, <1>9 DEF IInv

LEMMA AcquirePreserves == ASSUME IInv, NEW t \in Threads, AcquireLocked(t) PROVE IInv'
<1>1. call[t].pc = "acquire" /\ UNCHANGED clock /\ (Reuses(t) \/ Creates(t))
  BY AcquireCases
<1>2. CASE Reuses(t)
  BY <1>1, <1>2, ReusePreserves
<1>3. CASE Creates(t)
  <2> DEFINE h == Handed(call[t], Len(states) + 1)
  <2>1. call[t] \in Call /\ CallFits(call[t]) /\ Len(states) \in Nat
    BY StatesLen DEF IInv, CallsOK
  <2>2. /\ h \in Call /\ h.pc = "holding" /\ h.state = Len(states) + 1 /\ h.now <= clock
        /\ h.context \in Contexts /\ h.rid = call[t].rid /\ h.now = call[t].now
    BY <1>1, <2>1 DEF Handed, Call, CallFits
  <2>3. /\ states' = Append(states, call[t].context) /\ call[t].context \in Contexts
        /\ call' = [call EXCEPT ![t] = h]
        /\ Rebinds(cache, cache', h.rid, [state |-> Len(states) + 1, last |-> h.now])
    BY <1>1, <1>3, <2>1, <2>2 DEF Creates, CallFits
  <2> HIDE DEF h
  <2>4. QED
    BY <1>1, <2>2, <2>3, NewStatePreserves
<1>4. QED
  BY <1>1, <1>2, <1>3

\* A caller without a request identifier, or without a cache.
Unnamed(context) == [pc |-> "holding", rid |-> NoRequestID, context |-> context,
                     now |-> 0, state |-> Len(states) + 1]

LEMMA EphemeralPreserves ==
  ASSUME IInv, NEW t \in Threads, NEW rid \in RequestIDs \cup {NoRequestID},
         NEW context \in Contexts, AcquireEphemeral(t, rid, context)
  PROVE  IInv'
<1> DEFINE h == Unnamed(context)
<1>1. /\ h \in Call /\ h.pc = "holding" /\ h.state = Len(states) + 1 /\ h.now <= clock
      /\ h.context \in Contexts /\ h.rid = NoRequestID
  BY StatesLen DEF Unnamed, Call, IInv
<1>2. /\ states' = Append(states, context) /\ UNCHANGED <<clock, cache>>
      /\ call' = [call EXCEPT ![t] = h]
  BY DEF AcquireEphemeral, Unnamed
<1> HIDE DEF h
<1>3. QED
  BY <1>1, <1>2, NewStatePreserves

LEMMA NextPreserves == IInv /\ [Next]_vars => IInv'
<1> SUFFICES ASSUME IInv, [Next]_vars PROVE IInv'
  OBVIOUS
<1>1. CASE Tick
  BY <1>1, TickPreserves
<1>2. CASE Clear
  BY <1>2, ClearPreserves
<1>3. CASE \E rid \in RequestIDs : Complete(rid)
  BY <1>3, CompletePreserves
<1>4. ASSUME NEW t \in Threads, NEW rid \in RequestIDs \cup {NoRequestID}, NEW context \in Contexts,
             AcquireEphemeral(t, rid, context) \/ AcquireReadClock(t, rid, context)
      PROVE  IInv'
  BY <1>4, EphemeralPreserves, ReadClockPreserves
<1>5. ASSUME NEW t \in Threads,
             AcquireLocked(t) \/ Release(t) \/ PruneReadClock(t) \/ PruneLocked(t)
      PROVE  IInv'
  BY <1>5, AcquirePreserves, ReleasePreserves, PruneReadPreserves, PrunePreserves
<1>6. CASE UNCHANGED vars
  BY <1>6 DEF vars, IInv, CallsOK, CallFits, CacheOK, EntriesApart, StateBelongsToOneRequest, Holding
<1>7. QED
  BY <1>1, <1>2, <1>3, <1>4, <1>5, <1>6 DEF Next

LEMMA InvariantHolds == Spec => []IInv
  BY InitInvariant, NextPreserves, PTL DEF Spec

-----------------------------------------------------------------------------
(* Theorems *)

LEMMA AppendDiffers ==
  ASSUME NEW S, NEW s \in Seq(S), NEW x \in S PROVE Append(s, x) # s
<1>1. Len(Append(s, x)) = Len(s) + 1 /\ Len(s) \in Nat
  BY AppendProperties, LenProperties
<1>2. QED
  BY <1>1

\* The map and the recency list of the cache name the same requests, each once,
\* and no entry refers to a state that was never created or claims an access in
\* the future, whichever operations of however many callers interleave with the
\* reading of the clock.
THEOREM ListMatches == Spec => []ListMatchesMap
<1>1. IInv => ListMatchesMap
  <2> SUFFICES ASSUME IInv PROVE ListMatchesMap
    OBVIOUS
  <2>1. WellFormed(cache) /\ DOMAIN cache.entries = Listed(cache)
    BY WellFormedFacts DEF IInv, CacheOK
  <2>2. \A r \in DOMAIN cache.entries :
           cache.entries[r].state \in DOMAIN states /\ cache.entries[r].last \in 0..clock
    BY <2>1, StatesLen DEF IInv, CacheOK, WellFormed, Entry
  <2>3. QED
    BY <2>1, <2>2 DEF ListMatchesMap, WellFormed
<1>2. QED
  BY <1>1, InvariantHolds, PTL

\* No scan state, and so no placeholder numbering and no fingerprint, is ever
\* shared by two requests, nor handed out twice for requests without identifier.
THEOREM StatesAreNotShared == Spec => []StateBelongsToOneRequest
<1>1. IInv => StateBelongsToOneRequest
  BY DEF IInv
<1>2. QED
  BY <1>1, InvariantHolds, PTL

\* Of the steps, only the locked section of Acquire takes a caller from acquiring
\* to holding.
LEMMA OnlyAcquireHands ==
  ASSUME IInv, [Next]_vars, NEW t \in Threads, call[t].pc = "acquire", Holding(t)'
  PROVE  AcquireLocked(t)
<1>0. call \in [Threads -> Call]
  BY DEF IInv, CallsOK
<1>1. CASE Tick \/ Clear \/ (\E rid \in RequestIDs : Complete(rid)) \/ UNCHANGED vars
  BY <1>1 DEF Tick, Clear, Complete, vars, Holding
<1>2. ASSUME NEW u \in Threads, NEW rid \in RequestIDs \cup {NoRequestID}, NEW context \in Contexts,
             AcquireEphemeral(u, rid, context) \/ AcquireReadClock(u, rid, context)
      PROVE  FALSE
  <2>1. call[u].pc = "idle" /\ \E c : call' = [call EXCEPT ![u] = c]
    BY <1>2 DEF AcquireEphemeral, AcquireReadClock
  <2>2. QED
    BY <1>0, <2>1 DEF Holding
<1>3. ASSUME NEW u \in Threads, Release(u) \/ PruneReadClock(u) \/ PruneLocked(u)
      PROVE  FALSE
  <2>1. call[u].pc # "acquire" /\ \E c : call' = [call EXCEPT ![u] = c]
    BY <1>3 DEF Release, PruneReadClock, PruneLocked
  <2>2. QED
    BY <1>0, <2>1 DEF Holding
<1>4. ASSUME NEW u \in Threads, AcquireLocked(u) PROVE u = t
  <2>1. Reuses(u) \/ Creates(u)
    BY <1>4, AcquireCases
  <2>2. \E c : call' = [call EXCEPT ![u] = c]
    BY <2>1 DEF Reuses, Creates
  <2>3. QED
    BY <1>0, <2>2 DEF Holding
<1>5. QED
  BY <1>1, <1>2, <1>3, <1>4 DEF Next, Holding

\* A state that was idle for the TTL or longer by the caller's own clock reading
\* is never handed out again, although pruning stops at the first live entry of a
\* list that a stale clock reading may have put out of order.
THEOREM ExpiredIsNotReused == Spec => NoExpiredReuse
<1> DEFINE Step == \A t \in Threads :
          (call[t].pc = "acquire" /\ Holding(t)' /\ states' = states) =>
              ~Expired(cache.entries[call[t].rid], call[t].now)
<1>1. IInv /\ [Next]_vars => Step
  <2> SUFFICES ASSUME IInv, [Next]_vars, NEW t \in Threads,
                      call[t].pc = "acquire", Holding(t)', states' = states
               PROVE  ~Expired(cache.entries[call[t].rid], call[t].now)
    OBVIOUS
  <2>1. Reuses(t) \/ Creates(t)
    BY OnlyAcquireHands, AcquireCases
  <2>2. ~Creates(t)
    <3>1. call[t].context \in Contexts
      BY DEF IInv, CallsOK, CallFits
    <3>2. Append(states, call[t].context) # states
      BY <3>1, AppendDiffers DEF IInv
    <3>3. QED
      BY <3>2 DEF Creates
  <2>3. QED
    BY <2>1, <2>2 DEF Reuses
<1>2. IInv /\ [Next]_vars => [Step]_vars
  BY <1>1
<1> HIDE DEF Step
<1>3. Spec => [][Step]_vars
  BY <1>2, InvariantHolds, PTL DEF Spec
<1>4. QED
  BY <1>3 DEF Step, NoExpiredReuse

-----------------------------------------------------------------------------
(* The cache implements the store *)

\* The state the store has for a request, and what a caller holds of it.
StoredBy(c) == [r \in DOMAIN c.entries |-> c.entries[r].state]

HeldOf(c) == [rid     |-> IF c.pc = "holding" THEN c.rid ELSE NoRequestID,
              context |-> IF c.pc = "holding" THEN c.context ELSE NoContext,
              state   |-> IF c.pc = "holding" THEN c.state ELSE 0]

HeldBy == [t \in Threads |-> HeldOf(call[t])]

LEMMA NothingHeld ==
  ASSUME NEW c, c.pc # "holding" PROVE HeldOf(c) = Store!Nothing
  BY DEF HeldOf, Store!Nothing

LEMMA HeldMoves ==
  ASSUME IInv, NEW t \in Threads, NEW c, call' = [call EXCEPT ![t] = c]
  PROVE  HeldBy' = [HeldBy EXCEPT ![t] = HeldOf(c)]
  BY DEF HeldBy, IInv, CallsOK

\* Binding in the cache is binding in the store, within the capacity.
LEMMA RebindsBinds ==
  ASSUME NEW r, NEW e, Rebinds(cache, cache', r, e)
  PROVE  /\ DOMAIN StoredBy(cache') \subseteq DOMAIN StoredBy(cache) \cup {r}
         /\ Cardinality(DOMAIN StoredBy(cache')) <= MaxEntries
         /\ r \in DOMAIN StoredBy(cache') /\ StoredBy(cache')[r] = e.state
         /\ \A q \in DOMAIN StoredBy(cache') \ {r} : StoredBy(cache')[q] = StoredBy(cache)[q]
<1>1. /\ WellFormed(cache') /\ Len(cache'.lru) <= MaxEntries
      /\ DOMAIN cache'.entries \subseteq DOMAIN cache.entries \cup {r}
      /\ r \in DOMAIN cache'.entries /\ cache'.entries[r] = e
      /\ \A q \in DOMAIN cache'.entries \ {r} : cache'.entries[q] = cache.entries[q]
  BY DEF Rebinds
<1>2. Cardinality(DOMAIN cache'.entries) <= MaxEntries
  <2> DEFINE d == cache'
  <2>1. WellFormed(d) /\ Len(d.lru) <= MaxEntries
    BY <1>1
  <2> HIDE DEF d
  <2>2. IsFiniteSet(DOMAIN d.entries) /\ Cardinality(DOMAIN d.entries) <= Len(d.lru) /\ Len(d.lru) \in Nat
    BY <2>1, CountedByList, WellFormedFacts
  <2>3. Cardinality(DOMAIN d.entries) \in Nat
    BY <2>2, FS_CardinalityType
  <2>4. QED
    BY <2>1, <2>2, <2>3, CacheConstants DEF d
<1>3. DOMAIN StoredBy(cache') = DOMAIN cache'.entries /\ DOMAIN StoredBy(cache) = DOMAIN cache.entries
  BY DEF StoredBy
<1>4. QED
  BY <1>1, <1>2, <1>3 DEF StoredBy

LEMMA ShrinksDrops ==
  ASSUME Shrinks(cache, cache')
  PROVE  /\ DOMAIN StoredBy(cache') \subseteq DOMAIN StoredBy(cache)
         /\ \A q \in DOMAIN StoredBy(cache') : StoredBy(cache')[q] = StoredBy(cache)[q]
  BY DEF Shrinks, StoredBy

\* The instance of the abstract specification has its own copy of Cardinality.
LEMMA SameCardinality == ASSUME NEW S PROVE Store!Cardinality(S) = Cardinality(S)
  BY DEF Store!Cardinality, Cardinality

\* The variables of the store, as the refinement mapping gives them.
LEMMA StoreVars ==
  /\ Store!vars = <<StoredBy(cache), states, HeldBy>>
  /\ Store!vars' = <<StoredBy(cache'), states', HeldBy'>>
  BY DEF Store!vars, StoredBy, HeldBy, HeldOf, Holding

LEMMA DropsInStore ==
  ASSUME Shrinks(cache, cache'), UNCHANGED states, HeldBy' = HeldBy
  PROVE  Store!Drop
<1>1. /\ DOMAIN StoredBy(cache') \subseteq DOMAIN StoredBy(cache)
      /\ \A q \in DOMAIN StoredBy(cache') : StoredBy(cache')[q] = StoredBy(cache)[q]
  BY ShrinksDrops
<1>2. QED
  BY <1>1 DEF Store!Drop, StoredBy, HeldBy, HeldOf, Holding

LEMMA InitRefines == Init => Store!Init
<1> SUFFICES ASSUME Init PROVE Store!Init
  OBVIOUS
<1>1. DOMAIN cache.entries = {} /\ states = <<>> /\ \A t \in Threads : ~Holding(t)
  BY DEF Init, EmptyCache, Holding, Idle
<1>2. QED
  BY <1>1 DEF Store!Init, Store!Nothing

LEMMA ReuseRefines ==
  ASSUME IInv, NEW t \in Threads, call[t].pc = "acquire", Reuses(t),
         NEW r, r = call[t].rid, NEW context, context = call[t].context
  PROVE  Store!Reuse(t, r, context)
<1> DEFINE s == cache.entries[r].state
           e == [state |-> s, last |-> call[t].now]
           h == Handed(call[t], s)
<1>1. /\ r \in DOMAIN cache.entries /\ states[s] = context /\ UNCHANGED states
      /\ Rebinds(cache, cache', r, e)
      /\ call' = [call EXCEPT ![t] = h]
  BY DEF Reuses
<1>2. StoredBy(cache)[r] = s /\ e.state = s /\ r \in DOMAIN StoredBy(cache)
  BY <1>1 DEF StoredBy
<1>3. HeldOf(h) = [rid |-> r, context |-> context, state |-> s]
  BY DEF HeldOf, Handed
<1>4. HeldBy[t] = Store!Nothing
  BY NothingHeld DEF HeldBy
<1> HIDE DEF e, s
<1>5. /\ DOMAIN StoredBy(cache') \subseteq DOMAIN StoredBy(cache) \cup {r}
      /\ Store!Cardinality(DOMAIN StoredBy(cache')) <= MaxEntries
      /\ r \in DOMAIN StoredBy(cache') /\ StoredBy(cache')[r] = s
      /\ \A q \in DOMAIN StoredBy(cache') \ {r} : StoredBy(cache')[q] = StoredBy(cache)[q]
  BY <1>1, <1>2, RebindsBinds, SameCardinality
<1>6. HeldBy' = [HeldBy EXCEPT ![t] = [rid |-> r, context |-> context, state |-> s]]
  <2> HIDE DEF h
  <2>1. HeldBy' = [HeldBy EXCEPT ![t] = HeldOf(h)]
    BY <1>1, HeldMoves
  <2>2. QED
    BY <1>3, <2>1
<1>7. /\ HeldBy[t] = Store!Nothing
      /\ r \in DOMAIN StoredBy(cache) /\ states[StoredBy(cache)[r]] = context
      /\ DOMAIN StoredBy(cache') \subseteq DOMAIN StoredBy(cache) \cup {r}
      /\ Store!Cardinality(DOMAIN StoredBy(cache')) <= MaxEntries
      /\ r \in DOMAIN StoredBy(cache') /\ StoredBy(cache')[r] = StoredBy(cache)[r]
      /\ \A q \in DOMAIN StoredBy(cache') \ {r} : StoredBy(cache')[q] = StoredBy(cache)[q]
      /\ HeldBy' = [HeldBy EXCEPT ![t] = [rid |-> r, context |-> context, state |-> StoredBy(cache)[r]]]
      /\ UNCHANGED states
  BY <1>1, <1>2, <1>4, <1>5, <1>6
<1>8. QED
  BY <1>7, Zenon DEF Store!Reuse, Store!Binds, StoredBy, HeldBy, HeldOf, Holding

LEMMA AppendedLen ==
  ASSUME IInv, NEW context \in Contexts, states' = Append(states, context)
  PROVE  Len(states') = Len(states) + 1
  BY AppendProperties DEF IInv

LEMMA CreateRefines ==
  ASSUME IInv, NEW t \in Threads, call[t].pc = "acquire", Creates(t),
         NEW r, r = call[t].rid, NEW context, context = call[t].context
  PROVE  Store!Create(t, r, context)
<1> DEFINE s == Len(states')
           e == [state |-> s, last |-> call[t].now]
           h == Handed(call[t], s)
<1>1. context \in Contexts /\ states' = Append(states, context)
  BY DEF IInv, CallsOK, CallFits, Creates
<1>2. s = Len(states) + 1 /\ e.state = s
  BY <1>1, AppendedLen
<1>3. Rebinds(cache, cache', r, e) /\ call' = [call EXCEPT ![t] = h]
  BY <1>2 DEF Creates
<1>4. HeldOf(h) = [rid |-> r, context |-> context, state |-> s]
  BY DEF HeldOf, Handed
<1>5. HeldBy[t] = Store!Nothing
  BY NothingHeld DEF HeldBy
<1>6. HeldBy' = [HeldBy EXCEPT ![t] = [rid |-> r, context |-> context, state |-> s]]
  <2> HIDE DEF h
  <2>1. HeldBy' = [HeldBy EXCEPT ![t] = HeldOf(h)]
    BY <1>3, HeldMoves
  <2>2. QED
    BY <1>4, <2>1
<1> HIDE DEF e
<1>7. /\ DOMAIN StoredBy(cache') \subseteq DOMAIN StoredBy(cache) \cup {r}
      /\ Store!Cardinality(DOMAIN StoredBy(cache')) <= MaxEntries
      /\ r \in DOMAIN StoredBy(cache') /\ StoredBy(cache')[r] = s
      /\ \A q \in DOMAIN StoredBy(cache') \ {r} : StoredBy(cache')[q] = StoredBy(cache)[q]
  BY <1>2, <1>3, RebindsBinds, SameCardinality
<1>8. QED
  BY <1>1, <1>5, <1>6, <1>7, Zenon DEF Store!Create, Store!Binds, StoredBy, HeldBy, HeldOf, Holding

LEMMA EphemeralRefines ==
  ASSUME IInv, NEW t \in Threads, NEW rid, NEW context \in Contexts, AcquireEphemeral(t, rid, context)
  PROVE  Store!CreateUnnamed(t, context)
<1>1. /\ states' = Append(states, context) /\ UNCHANGED cache /\ call[t].pc = "idle"
      /\ call' = [call EXCEPT ![t] = Unnamed(context)]
  BY DEF AcquireEphemeral, Unnamed
<1>2. Len(states') = Len(states) + 1
  BY <1>1, AppendedLen
<1>3. HeldOf(Unnamed(context)) = [rid |-> NoRequestID, context |-> context, state |-> Len(states')]
  BY <1>2 DEF HeldOf, Unnamed
<1>4. HeldBy' = [HeldBy EXCEPT ![t] = [rid |-> NoRequestID, context |-> context, state |-> Len(states')]]
  BY <1>1, <1>3, HeldMoves
<1>5. HeldBy[t] = Store!Nothing /\ StoredBy(cache') = StoredBy(cache)
  BY <1>1, NothingHeld DEF HeldBy
<1>6. QED
  BY <1>1, <1>4, <1>5, Zenon DEF Store!CreateUnnamed, StoredBy, HeldBy, HeldOf, Holding

LEMMA ReleaseRefines ==
  ASSUME IInv, NEW t \in Threads, Release(t) PROVE Store!Return(t)
<1>1. UNCHANGED <<cache, states>> /\ call' = [call EXCEPT ![t] = Idle] /\ call[t].pc = "holding"
  BY DEF Release
<1>2. HeldBy[t] # Store!Nothing
  <2>1. HeldBy[t].state = call[t].state /\ call[t].state \in 1..Len(states) /\ Len(states) \in Nat
    BY <1>1, StatesLen DEF HeldBy, HeldOf, IInv, CallsOK, CallFits
  <2>2. Store!Nothing.state = 0
    BY DEF Store!Nothing
  <2>3. QED
    BY <2>1, <2>2
<1>3. HeldOf(Idle) = Store!Nothing
  BY NothingHeld DEF Idle
<1>4. HeldBy' = [HeldBy EXCEPT ![t] = Store!Nothing] /\ StoredBy(cache') = StoredBy(cache)
  BY <1>1, <1>3, HeldMoves
<1>5. QED
  BY <1>1, <1>2, <1>4, Zenon DEF Store!Return, StoredBy, HeldBy, HeldOf, Holding

\* A caller that neither held nor holds anything looks the same to the store.
LEMMA HeldUnchanged ==
  ASSUME IInv, NEW t \in Threads, NEW c, call' = [call EXCEPT ![t] = c],
         call[t].pc # "holding", c.pc # "holding"
  PROVE  HeldBy' = HeldBy
<1>1. HeldOf(c) = HeldBy[t]
  BY NothingHeld DEF HeldBy
<1>2. HeldBy' = [HeldBy EXCEPT ![t] = HeldBy[t]]
  BY <1>1, HeldMoves
<1>3. QED
  BY <1>2 DEF HeldBy

LEMMA StepRefines == IInv /\ [Next]_vars => [Store!Next]_(Store!vars)
<1> SUFFICES ASSUME IInv, [Next]_vars PROVE Store!Next \/ UNCHANGED Store!vars
  OBVIOUS
<1>0. WellFormed(cache) /\ Shrinks(cache, cache)
  BY ShrinksReflexive DEF IInv, CacheOK
<1>1. CASE Tick \/ UNCHANGED vars
  <2>1. StoredBy(cache') = StoredBy(cache) /\ states' = states /\ HeldBy' = HeldBy
    BY <1>1 DEF Tick, vars, HeldBy
  <2>2. QED
    BY <2>1, StoreVars
<1>2. CASE Clear \/ \E rid \in RequestIDs : Complete(rid)
  <2>1. Shrinks(cache, cache') /\ UNCHANGED <<states, call>>
    BY <1>0, <1>2, EmptyShrinks, ForgetShrinks DEF Clear, Complete
  <2>2. HeldBy' = HeldBy
    BY <2>1 DEF HeldBy
  <2>3. QED
    BY <2>1, <2>2, DropsInStore DEF Store!Next
<1>3. ASSUME NEW t \in Threads, NEW rid \in RequestIDs \cup {NoRequestID}, NEW context \in Contexts,
             AcquireEphemeral(t, rid, context)
      PROVE  Store!Next
  BY <1>3, EphemeralRefines DEF Store!Next
<1>4. ASSUME NEW t \in Threads, NEW rid \in RequestIDs \cup {NoRequestID}, NEW context \in Contexts,
             AcquireReadClock(t, rid, context)
      PROVE  UNCHANGED Store!vars
  <2> DEFINE c == [pc |-> "acquire", rid |-> rid, context |-> context, now |-> clock, state |-> 0]
  <2>1. /\ UNCHANGED <<cache, states>> /\ call[t].pc # "holding"
        /\ call' = [call EXCEPT ![t] = c] /\ c.pc # "holding"
    BY <1>4 DEF AcquireReadClock
  <2> HIDE DEF c
  <2>2. HeldBy' = HeldBy
    BY <2>1, HeldUnchanged
  <2>3. QED
    BY <2>1, <2>2, StoreVars
<1>5. ASSUME NEW t \in Threads, AcquireLocked(t) PROVE Store!Next
  <2>1. call[t].pc = "acquire" /\ (Reuses(t) \/ Creates(t))
    BY <1>5, AcquireCases
  <2>2. PICK r \in RequestIDs, context \in Contexts : r = call[t].rid /\ context = call[t].context
    BY <2>1 DEF IInv, CallsOK, CallFits
  <2>3. Store!Reuse(t, r, context) \/ Store!Create(t, r, context)
    BY <2>1, <2>2, ReuseRefines, CreateRefines
  <2>4. QED
    BY <2>2, <2>3 DEF Store!Next
<1>6. ASSUME NEW t \in Threads, Release(t) PROVE Store!Next
  BY <1>6, ReleaseRefines DEF Store!Next
<1>7. ASSUME NEW t \in Threads, PruneReadClock(t) PROVE UNCHANGED Store!vars
  <2> DEFINE c == [pc |-> "prune", rid |-> NoRequestID, context |-> NoContext, now |-> clock, state |-> 0]
  <2>1. /\ UNCHANGED <<cache, states>> /\ call[t].pc # "holding"
        /\ call' = [call EXCEPT ![t] = c] /\ c.pc # "holding"
    BY <1>7 DEF PruneReadClock
  <2> HIDE DEF c
  <2>2. HeldBy' = HeldBy
    BY <2>1, HeldUnchanged
  <2>3. QED
    BY <2>1, <2>2, StoreVars
<1>8. ASSUME NEW t \in Threads, PruneLocked(t) PROVE Store!Next
  <2>1. PICK k \in 0..Len(cache.lru) : cache' = KeepPrefix(cache, k)
    BY <1>8 DEF PruneLocked
  <2>2. Shrinks(cache, cache')
    BY <1>0, <2>1, KeepPrefixShrinks
  <2>3. /\ UNCHANGED states /\ call' = [call EXCEPT ![t] = Idle]
        /\ call[t].pc # "holding" /\ Idle.pc # "holding"
    BY <1>8 DEF PruneLocked, Idle
  <2>4. HeldBy' = HeldBy
    BY <2>3, HeldUnchanged
  <2>5. QED
    BY <2>2, <2>3, <2>4, DropsInStore DEF Store!Next
<1>9. QED
  BY <1>1, <1>2, <1>3, <1>4, <1>5, <1>6, <1>7, <1>8 DEF Next

\* The cache of request_cache.go implements the bounded, lossy store its callers
\* rely on: whatever they interleave, an entry is only dropped, or bound to the
\* state that is handed out with it; the state has the context it was asked for
\* with; and the capacity is never exceeded.
THEOREM CacheImplementsStore == Spec => ImplementsStore
<1>1. Init => Store!Init
  BY InitRefines
<1>2. IInv /\ [Next]_vars => [Store!Next]_(Store!vars)
  BY StepRefines
<1>3. QED
  BY <1>1, <1>2, InvariantHolds, PTL DEF Spec, ImplementsStore, Store!Spec
=============================================================================
