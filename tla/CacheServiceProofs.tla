------------------------ MODULE CacheServiceProofs ------------------------
(***************************************************************************)
(* For every set of keys, documents and goroutines, every ttl and every    *)
(* bound on the clock: the type invariant of the in-memory cache, and that *)
(* the only ways a live entry leaves the map are Delete and the race of an *)
(* expired Get with a Set.                                                 *)
(***************************************************************************)
EXTENDS CacheService, TLAPS

\* What Lagging needs to be inductive is only the types of the readings.
IInv == TypeOK /\ Lagging

\* The cache starts well typed and with nothing held outside of the lock.
LEMMA InitIInv == Init => IInv
<1> SUFFICES ASSUME Init
             PROVE  IInv
  OBVIOUS
<1>1. \A c \in Caller : get[c] = IdleGet
  BY DEF Init
<1>2. \A c \in Caller : get[c].pc # "evict"
  BY <1>1 DEF IdleGet
<1>3. get \in [Caller -> {IdleGet} \cup
                           [pc : {"check", "evict"}, key : Key, item : Item]]
  BY DEF Init
<1>4. cleanup \in [pc : {"select", "lock", "stopped"}, now : 0 .. MaxTime]
  BY CacheAssumption DEF Init
<1>5. now \in 0 .. MaxTime /\ cleanup.now <= now
  BY CacheAssumption DEF Init
<1>6. ticker \in BOOLEAN /\ ctxDone \in BOOLEAN
  BY DEF Init
<1>7. cache \in [Key -> Item \cup {None}]
  BY DEF Init
<1> QED BY <1>2, <1>3, <1>4, <1>5, <1>6, <1>7 DEF IInv, TypeOK, Lagging

\* One step of a caller or of the sweeping goroutine keeps the invariant.
LEMMA OperationIInv ==
    ASSUME IInv, Operation, UNCHANGED <<now, ctxDone>>
    PROVE  IInv'
<1> USE CacheAssumption DEF IInv, TypeOK, Lagging, Item, IdleGet, Expired
<1>1. ASSUME NEW k \in Key, NEW d \in Doc, NEW ttl \in TTLs, Set(k, d, ttl)
      PROVE  IInv'
  <2>1. [value |-> d, expiration |-> now + ttl] \in Item
    BY <1>1 DEF Set, Accepted
  <2> QED BY <1>1, <2>1 DEF Set
<1>2. ASSUME NEW c \in Caller, NEW k \in Key, GetLookup(c, k)
      PROVE  IInv'
  <2>1. CASE cache[k] = None
    BY <1>2, <2>1 DEF GetLookup
  <2>2. CASE cache[k] # None
    <3>1. cache[k] \in Item
      BY <2>2
    <3>2. [pc |-> "check", key |-> k, item |-> cache[k]]
             \in [pc : {"check", "evict"}, key : Key, item : Item]
      BY <3>1
    <3> QED BY <1>2, <2>2, <3>2 DEF GetLookup
  <2> QED BY <2>1, <2>2
<1>3. ASSUME NEW c \in Caller, GetStep(c)
      PROVE  IInv'
  <2>1. CASE GetHit(c)
    BY <2>1 DEF GetHit
  <2>2. CASE GetExpired(c)
    <3>1. get[c] \in [pc : {"check", "evict"}, key : Key, item : Item]
      BY <2>2 DEF GetExpired
    <3>2. [get[c] EXCEPT !.pc = "evict"]
             \in [pc : {"check", "evict"}, key : Key, item : Item]
      BY <3>1
    <3>3. get' \in [Caller -> {IdleGet} \cup
                       [pc : {"check", "evict"}, key : Key, item : Item]]
      BY <2>2, <3>2 DEF GetExpired
    <3>4. ASSUME NEW b \in Caller, get'[b].pc = "evict"
          PROVE  Expired(get'[b].item, now')
      BY <2>2, <3>1, <3>4 DEF GetExpired
    <3> QED BY <2>2, <3>3, <3>4 DEF GetExpired
  <2>3. CASE GetEvict(c)
    BY <2>3 DEF GetEvict
  <2> QED BY <1>3, <2>1, <2>2, <2>3 DEF GetStep
<1>4. ASSUME NEW k \in Key, Delete(k)
      PROVE  IInv'
  BY <1>4 DEF Delete
<1>5. ASSUME Cleanup
      PROVE  IInv'
  <2>1. CASE CleanupWake
    <3>1. ticker' \in BOOLEAN
      BY <2>1 DEF CleanupWake
    <3>2. cleanup' \in [pc : {"select", "lock", "stopped"}, now : 0 .. MaxTime]
      BY <2>1 DEF CleanupWake
    <3>3. cleanup'.now <= now
      BY <2>1 DEF CleanupWake
    <3> QED BY <2>1, <3>1, <3>2, <3>3 DEF CleanupWake
  <2>2. CASE CleanupSweep
    BY <2>2 DEF CleanupSweep
  <2>3. CASE CleanupStop
    BY <2>3 DEF CleanupStop
  <2> QED BY <1>5, <2>1, <2>2, <2>3 DEF Cleanup
<1> QED BY <1>1, <1>2, <1>3, <1>4, <1>5 DEF Operation

\* The clock only moves forward, so what was expired stays expired.
LEMMA TickIInv ==
    ASSUME IInv, Tick, UNCHANGED ctxDone
    PROVE  IInv'
<1> USE CacheAssumption DEF IInv, TypeOK, Tick
<1>1. ticker' \in BOOLEAN /\ now' \in 0 .. MaxTime /\ now' = now + 1
  OBVIOUS
<1>2. ASSUME NEW c \in Caller, get'[c].pc = "evict"
      PROVE  Expired(get'[c].item, now')
  <2>1. get[c] \in [pc : {"check", "evict"}, key : Key, item : Item]
    BY <1>2 DEF IdleGet
  <2> QED BY <1>1, <1>2, <2>1 DEF Lagging, Expired, Item
<1> QED BY <1>1, <1>2 DEF Lagging

\* IInv is inductive.
LEMMA NextIInv == IInv /\ [Next]_vars => IInv'
<1> SUFFICES ASSUME IInv, [Next]_vars
             PROVE  IInv'
  OBVIOUS
<1>1. CASE Operation /\ UNCHANGED <<now, ctxDone>>
  BY <1>1, OperationIInv
<1>2. CASE Tick /\ UNCHANGED ctxDone
  BY <1>2, TickIInv
<1>3. CASE Cancel
  BY <1>3 DEF Cancel, l1vars, IInv, TypeOK, Lagging
<1>4. CASE UNCHANGED vars
  BY <1>4 DEF vars, l1vars, IInv, TypeOK, Lagging
<1> QED BY <1>1, <1>2, <1>3, <1>4 DEF Next

\* The inductive invariant holds in every reachable state of the cache.
THEOREM Invariance == Spec => []IInv
BY InitIInv, NextIInv, PTL DEF Spec

\* The map, the copies the callers hold and the sweep's clock reading are
\* well typed in every reachable state.
THEOREM TypeCorrect == Spec => []TypeOK
BY Invariance, PTL DEF IInv

-----------------------------------------------------------------------------
\* The sweep spares live entries: its clock reading is not ahead of the
\* clock, hence what it finds expired is expired.
LEMMA SweepSparesLive ==
    ASSUME IInv, CleanupSweep, NEW k \in Key, Live(k)
    PROVE  cache'[k] # None
<1>1. cache[k] \in Item
  BY DEF Live, IInv, TypeOK
<1>2. ~Expired(cache[k], cleanup.now)
  BY <1>1 DEF Live, Expired, Item, IInv, TypeOK, Lagging
<1> QED BY <1>1, <1>2 DEF CleanupSweep, Live

\* A Get about to evict holds an expired item, so a live entry it deletes is
\* not the one it copied: somebody has stored a fresh one in between.
LEMMA EvictedLiveIsFresh ==
    ASSUME IInv, NEW c \in Caller, GetEvict(c),
           NEW k \in Key, LiveDropped(k)
    PROVE  EvictsStale(c, k)
<1>1. cache[get[c].key] # cache'[get[c].key] /\ get[c].key = k
  BY DEF LiveDropped, Live, GetEvict, IInv, TypeOK
<1>2. Expired(get[c].item, now) /\ ~Expired(cache[k], now)
  BY DEF GetEvict, LiveDropped, Live, IInv, Lagging
<1> QED BY <1>1, <1>2 DEF EvictsStale

\* A live entry leaves the map only by Delete or by the evicting Get.
LEMMA LiveDropStep ==
    ASSUME IInv, [Next]_vars
    PROVE  \A k \in Key : LiveDropped(k) =>
              Delete(k) \/ \E c \in Caller : EvictsStale(c, k)
<1> SUFFICES ASSUME NEW k \in Key, LiveDropped(k)
             PROVE  Delete(k) \/ \E c \in Caller : EvictsStale(c, k)
  OBVIOUS
<1>0. cache[k] # None /\ cache'[k] = None /\ cache' # cache
  BY DEF LiveDropped, Live
<1>1. ASSUME NEW j \in Key, NEW d \in Doc, NEW ttl \in TTLs, Set(j, d, ttl)
      PROVE  FALSE
  <2>1. [value |-> d, expiration |-> now + ttl] \in Item
    BY <1>1, CacheAssumption DEF Set, Accepted, Item, IInv, TypeOK
  <2>2. CASE j = k
    BY <1>0, <1>1, <2>1, <2>2, CacheAssumption DEF Set, IInv, TypeOK
  <2>3. CASE j # k
    BY <1>0, <1>1, <2>3 DEF Set, IInv, TypeOK
  <2> QED BY <2>2, <2>3
<1>2. ASSUME NEW c \in Caller, NEW j \in Key, GetLookup(c, j)
      PROVE  FALSE
  BY <1>0, <1>2 DEF GetLookup
<1>3. ASSUME NEW c \in Caller, GetStep(c)
      PROVE  EvictsStale(c, k)
  <2>1. GetEvict(c)
    BY <1>0, <1>3 DEF GetStep, GetHit, GetExpired
  <2> QED BY <2>1, EvictedLiveIsFresh
<1>4. ASSUME NEW j \in Key, Delete(j)
      PROVE  Delete(k)
  <2>1. j = k
    BY <1>0, <1>4 DEF Delete, IInv, TypeOK
  <2> QED BY <1>4, <2>1
<1>5. ~Cleanup
  <2>1. ~CleanupSweep
    BY <1>0, SweepSparesLive DEF LiveDropped
  <2> QED BY <1>0, <2>1 DEF Cleanup, CleanupWake, CleanupStop
<1>6. Operation
  BY <1>0 DEF Next, vars, l1vars, Tick, Cancel
<1> QED BY <1>1, <1>2, <1>3, <1>4, <1>5, <1>6 DEF Operation

\* No step of the cache, and in particular no sweep, takes away a live entry
\* other than Delete and an expired Get that a Set has overtaken.
THEOREM LiveDrops == Spec => LiveDropOnlyByRace
<1>1. IInv /\ [Next]_vars =>
         [\A k \in Key : LiveDropped(k) =>
             Delete(k) \/ \E c \in Caller : EvictsStale(c, k)]_vars
  BY LiveDropStep
<1> QED BY <1>1, Invariance, PTL DEF Spec, LiveDropOnlyByRace

=============================================================================
