---------------------------- MODULE CacheService ----------------------------
(***************************************************************************)
(* The in-memory cache L1 (src/internal/services/cache_service.go): a map  *)
(* guarded by a sync.RWMutex, its operations called by any number of       *)
(* request goroutines, and the goroutine that sweeps expired entries.      *)
(*                                                                         *)
(* A step is one critical section of the mutex, or one decision taken      *)
(* outside of it.  Get is three steps (look up under RLock, compare with   *)
(* the clock after RUnlock, delete under a later Lock): this is where the  *)
(* interleavings are.  Set and Delete are one critical section each.       *)
(*                                                                         *)
(* A document stands for the JSON bytes that Set marshals; Unmarshal of    *)
(* bytes that Marshal produced succeeds, so Get has no decoding error.     *)
(***************************************************************************)
EXTENDS Integers

CONSTANTS
    Key,            \* cache keys, "krs:" + NPM
    Doc,            \* the documents a caller may store
    Caller,         \* goroutines that may be inside Get at the same time
    TTLs,           \* the ttl arguments callers pass, in clock ticks
    CleanupPeriod,  \* the ticker of the sweeping goroutine (1 hour)
    MaxTime,        \* bound on the clock
    None            \* absence of an item, of a key, of an answer

Item == [value : Doc, expiration : Nat]

ASSUME CacheAssumption ==
    /\ TTLs \subseteq Int
    /\ CleanupPeriod \in Nat \ {0}
    /\ MaxTime \in Nat
    /\ None \notin Item \cup Key

VARIABLES
    now,      \* time.Now(), in ticks
    ticker,   \* the one-slot channel of time.Ticker holds a tick
    cache,    \* Key -> item or None
    get,      \* per caller: the local variables of Get
    cleanup,  \* the sweeping goroutine: where it is and its variable "now"
    ctxDone   \* the context given to NewCacheService is cancelled

l1vars == <<cache, get, cleanup, ticker>>
vars == <<now, ctxDone, l1vars>>

-----------------------------------------------------------------------------
IdleGet == [pc |-> "idle", key |-> None, item |-> None]

TypeOK ==
    /\ now \in 0 .. MaxTime
    /\ ticker \in BOOLEAN
    /\ ctxDone \in BOOLEAN
    /\ cache \in [Key -> Item \cup {None}]
    /\ get \in [Caller -> {IdleGet} \cup
                          [pc : {"check", "evict"}, key : Key, item : Item]]
    /\ cleanup \in [pc : {"select", "lock", "stopped"}, now : 0 .. MaxTime]

\* NewCacheService: an empty map and the sweeping goroutine at its select.
Init ==
    /\ now = 0
    /\ ticker = FALSE
    /\ ctxDone = FALSE
    /\ cache = [k \in Key |-> None]
    /\ get = [c \in Caller |-> IdleGet]
    /\ cleanup = [pc |-> "select", now |-> 0]

-----------------------------------------------------------------------------
\* time.Now().After(item.Expiration): an item is still served at the very
\* instant of its expiration.
Expired(item, t) == t > item.expiration

Live(k) == cache[k] # None /\ ~Expired(cache[k], now)

\* Mutant of Accepted: no check of the ttl.
AnyTTL(ttl) == TRUE

\* Set refuses a zero or negative ttl and leaves the map alone.
Accepted(ttl) == ttl > 0

Set(k, d, ttl) ==
    /\ Accepted(ttl)
    /\ cache' = [cache EXCEPT ![k] = [value |-> d, expiration |-> now + ttl]]
    /\ UNCHANGED <<get, cleanup, ticker>>

\* Get, under RLock: a miss returns at once, a present item is copied out.
GetLookup(c, k) ==
    /\ get[c].pc = "idle"
    /\ IF cache[k] = None
       THEN get' = get
       ELSE get' = [get EXCEPT ![c] =
                      [pc |-> "check", key |-> k, item |-> cache[k]]]
    /\ UNCHANGED <<cache, cleanup, ticker>>

\* Mutant of GetHit: the copy is answered without a look at the clock.
GetHitUnchecked(c) ==
    /\ get[c].pc = "check"
    /\ get' = [get EXCEPT ![c] = IdleGet]
    /\ UNCHANGED <<cache, cleanup, ticker>>

\* Get, after RUnlock: the copy is compared with the clock.
GetHit(c) ==
    /\ get[c].pc = "check"
    /\ ~Expired(get[c].item, now)
    /\ get' = [get EXCEPT ![c] = IdleGet]
    /\ UNCHANGED <<cache, cleanup, ticker>>

GetExpired(c) ==
    /\ get[c].pc = "check"
    /\ Expired(get[c].item, now)
    /\ get' = [get EXCEPT ![c].pc = "evict"]
    /\ UNCHANGED <<cache, cleanup, ticker>>

\* Get, under Lock: the key is deleted whatever the map holds by now.
GetEvict(c) ==
    /\ get[c].pc = "evict"
    /\ cache' = [cache EXCEPT ![get[c].key] = None]
    /\ get' = [get EXCEPT ![c] = IdleGet]
    /\ UNCHANGED <<cleanup, ticker>>

Delete(k) ==
    /\ cache' = [cache EXCEPT ![k] = None]
    /\ UNCHANGED <<get, cleanup, ticker>>

\* cleanup, case <-ticker.C: "now" is read before the lock is taken.
CleanupWake ==
    /\ cleanup.pc = "select"
    /\ ticker
    /\ ticker' = FALSE
    /\ cleanup' = [pc |-> "lock", now |-> now]
    /\ UNCHANGED <<cache, get>>

\* Mutant of CleanupSweep: "not before" instead of "after".
SweepInclusive ==
    /\ cleanup.pc = "lock"
    /\ cache' = [k \in Key |->
                   IF cache[k] # None /\ cleanup.now >= cache[k].expiration
                   THEN None ELSE cache[k]]
    /\ cleanup' = [cleanup EXCEPT !.pc = "select"]
    /\ UNCHANGED <<get, ticker>>

\* Mutant of CleanupSweep: the loop is missing, one sweep and it returns.
SweepOnce ==
    /\ cleanup.pc = "lock"
    /\ cache' = [k \in Key |->
                   IF cache[k] # None /\ Expired(cache[k], cleanup.now)
                   THEN None ELSE cache[k]]
    /\ cleanup' = [cleanup EXCEPT !.pc = "stopped"]
    /\ UNCHANGED <<get, ticker>>

CleanupSweep ==
    /\ cleanup.pc = "lock"
    /\ cache' = [k \in Key |->
                   IF cache[k] # None /\ Expired(cache[k], cleanup.now)
                   THEN None ELSE cache[k]]
    /\ cleanup' = [cleanup EXCEPT !.pc = "select"]
    /\ UNCHANGED <<get, ticker>>

\* Mutant of CleanupStop: a break, which leaves the select and not the loop.
StopBreaksSelect ==
    /\ cleanup.pc = "select"
    /\ ctxDone
    /\ UNCHANGED <<cache, get, ticker, cleanup>>

\* cleanup, case <-c.ctx.Done(): the goroutine returns.
CleanupStop ==
    /\ cleanup.pc = "select"
    /\ ctxDone
    /\ cleanup' = [cleanup EXCEPT !.pc = "stopped"]
    /\ UNCHANGED <<cache, get, ticker>>

\* Time passes; the ticker offers a tick and drops it when one is pending.
Tick ==
    /\ now < MaxTime
    /\ now' = now + 1
    /\ ticker' = (ticker \/ now' % CleanupPeriod = 0)
    /\ UNCHANGED <<cache, get, cleanup>>

\* A signal cancels the context of main.
Cancel ==
    /\ ~ctxDone
    /\ ctxDone' = TRUE
    /\ UNCHANGED <<now, l1vars>>

Cleanup == CleanupWake \/ CleanupSweep \/ CleanupStop

\* The steps of a caller that is inside Get.
GetStep(c) == GetHit(c) \/ GetExpired(c) \/ GetEvict(c)

Operation ==
    \/ \E k \in Key, d \in Doc, ttl \in TTLs : Set(k, d, ttl)
    \/ \E c \in Caller, k \in Key : GetLookup(c, k)
    \/ \E c \in Caller : GetStep(c)
    \/ \E k \in Key : Delete(k)
    \/ Cleanup

Next ==
    \/ Operation /\ UNCHANGED <<now, ctxDone>>
    \/ Tick /\ UNCHANGED ctxDone
    \/ Cancel

\* Time goes on and the sweeping goroutine is scheduled; callers call when
\* they like, and nothing makes anybody cancel the context.
Fairness ==
    /\ WF_vars(Tick /\ UNCHANGED ctxDone)
    /\ WF_vars(Cleanup /\ UNCHANGED <<now, ctxDone>>)

Spec == Init /\ [][Next]_vars /\ Fairness

-----------------------------------------------------------------------------
\* A live entry leaves the map only by Delete, or by the one race the code
\* has: a Get that copied an older, expired item deletes its key after Set
\* has stored a fresh one.  In particular the sweep, which works with a clock
\* reading taken before it waited for the lock, never drops a live entry.
LiveDropped(k) == Live(k) /\ cache'[k] = None

EvictsStale(c, k) ==
    /\ GetEvict(c)
    /\ get[c].key = k
    /\ get[c].item # cache[k]

LiveDropOnlyByRace ==
    [][\A k \in Key : LiveDropped(k) =>
          Delete(k) \/ \E c \in Caller : EvictsStale(c, k)]_vars

\* What the goroutines hold outside of the lock lags behind the clock and
\* never runs ahead of it: the sweep's reading is past or present, and a Get
\* about to evict holds an item that is expired for good.
Lagging ==
    /\ cleanup.now <= now
    /\ \A c \in Caller : get[c].pc = "evict" => Expired(get[c].item, now)

\* The documentation's claim for the RWMutex, that the cache is safe under
\* concurrent access: no operation but Delete takes away a live entry.
LiveEntryKept ==
    [][\A k \in Key : LiveDropped(k) => Delete(k)]_vars

\* As long as the process is not shutting down, memory held by an expired
\* entry is released although nobody asks for its key again.
ExpiredSwept ==
    \A k \in Key :
        (cache[k] # None /\ ~Live(k)) ~> (cache[k] = None \/ Live(k) \/ ctxDone)

\* After cancellation the sweeping goroutine terminates, wherever it was.
CleanupTerminates == ctxDone ~> cleanup.pc = "stopped"

=============================================================================
