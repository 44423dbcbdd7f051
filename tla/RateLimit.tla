----------------------------- MODULE RateLimit -----------------------------
(***************************************************************************)
(* The rate limiter in front of the protected routes                       *)
(* (src/internal/middleware/rate_limit.go): a map from client addresses to *)
(* limiters, guarded by a mutex, and a goroutine that forgets addresses    *)
(* not seen for a while.  A request looks up its limiter under the lock    *)
(* and asks it for a token after the lock is released, by when the map may *)
(* hold another limiter for the address, or none.                          *)
(*                                                                         *)
(* A limiter is golang.org/x/time/rate.Limiter as Handle uses it: Allow    *)
(* adds what has accrued since its last use, then takes a token if it can. *)
(***************************************************************************)
EXTENDS Integers, FiniteSets

CONSTANTS
    Ip,             \* client addresses
    NotAnIp,        \* a header value that net.ParseIP refuses
    TrustProxy,     \* whether forwarding headers are believed
    Request,        \* requests inside Handle at the same time
    LimiterId,      \* limiters on the heap
    Rate,           \* tokens accrued per tick
    Burst,          \* capacity of a limiter
    IdleLimit,      \* 3 minutes: a visitor unseen for longer is forgotten
    CleanupPeriod,  \* the ticker of the sweeping goroutine (1 minute)
    MaxLatency,     \* bound on the time between getLimiter and Allow
    MaxTime,        \* bound on the clock
    None

ASSUME RateAssumption ==
    /\ Rate \in Nat /\ Burst \in Nat \ {0}
    /\ IdleLimit \in Nat /\ CleanupPeriod \in Nat \ {0}
    /\ MaxLatency \in Nat /\ MaxLatency <= IdleLimit
    /\ MaxTime \in Nat
    /\ TrustProxy \in BOOLEAN
    /\ None \notin Ip /\ None \notin LimiterId /\ NotAnIp \notin Ip
    /\ None \notin [limiter : LimiterId, lastSeen : 0 .. MaxTime]

\* The configuration forgets only full buckets: an address unseen for longer
\* than IdleLimit has regained Burst tokens.  10 per second, a burst of 30 and
\* 3 minutes, the defaults, satisfy it by far.
ASSUME ForgetsOnlyFull == Burst <= Rate * (IdleLimit + 1 - MaxLatency)

\* There is a limiter to allocate whenever one is needed.
ASSUME EnoughLimiters ==
    /\ IsFiniteSet(LimiterId)
    /\ IsFiniteSet(Ip) /\ IsFiniteSet(Request)
    /\ Cardinality(LimiterId) >= Cardinality(Ip) + Cardinality(Request) - 1

VARIABLES
    now,
    ticker,    \* the one-slot channel of time.Ticker holds a tick
    visitors,  \* per address: its limiter and when it was last seen
    limiters,  \* per limiter: its tokens and the time they were counted
    handle,    \* per request: the limiter it holds
    cleanup,   \* the sweeping goroutine: where it is and its variable "now"
    ctxDone    \* the context of main is cancelled

vars == <<now, ticker, visitors, limiters, handle, cleanup, ctxDone>>

-----------------------------------------------------------------------------
Visitor == [limiter : LimiterId, lastSeen : 0 .. MaxTime]
Limiter == [tokens : 0 .. Burst, last : 0 .. MaxTime]
Idle == [pc |-> "idle"]
Holding ==
    [pc : {"allow"}, ip : Ip, limiter : LimiterId, since : 0 .. MaxTime]

TypeOK ==
    /\ now \in 0 .. MaxTime
    /\ ticker \in BOOLEAN
    /\ ctxDone \in BOOLEAN
    /\ visitors \in [Ip -> Visitor \cup {None}]
    /\ limiters \in [LimiterId -> Limiter]
    /\ handle \in [Request -> {Idle} \cup Holding]
    /\ cleanup \in [pc : {"select", "lock", "stopped"}, now : 0 .. MaxTime]

Full(t) == [tokens |-> Burst, last |-> t]

Init ==
    /\ now = 0
    /\ ticker = FALSE
    /\ ctxDone = FALSE
    /\ visitors = [ip \in Ip |-> None]
    /\ limiters = [l \in LimiterId |-> Full(0)]
    /\ handle = [r \in Request |-> Idle]
    /\ cleanup = [pc |-> "select", now |-> 0]

-----------------------------------------------------------------------------
\* getClientIP: the headers come first when the proxy is trusted, but only an
\* address is accepted from them.
ClientIP(forwarded, realIP, remote) ==
    IF TrustProxy /\ forwarded \in Ip THEN forwarded
    ELSE IF TrustProxy /\ realIP \in Ip THEN realIP
    ELSE remote

Header == Ip \cup {NotAnIp, None}

Referenced(l) ==
    \/ \E ip \in Ip : visitors[ip] # None /\ visitors[ip].limiter = l
    \/ \E r \in Request : handle[r] # Idle /\ handle[r].limiter = l

\* rate.NewLimiter: a limiter nobody else holds, its bucket full.
Fresh(l) == ~Referenced(l)

\* getLimiter, under Lock: the visitor is created if need be and marked seen.
GetLimiter(r, ip) ==
    /\ handle[r] = Idle
    /\ \E l \in LimiterId :
         /\ IF visitors[ip] = None
            THEN Fresh(l) /\ limiters' = [limiters EXCEPT ![l] = Full(now)]
            ELSE l = visitors[ip].limiter /\ UNCHANGED limiters
         /\ visitors' = [visitors EXCEPT ![ip] =
                           [limiter |-> l, lastSeen |-> now]]
         /\ handle' = [handle EXCEPT ![r] =
                         [pc |-> "allow", ip |-> ip, limiter |-> l,
                          since |-> now]]
    /\ UNCHANGED <<now, ticker, cleanup, ctxDone>>

Arrive(r) ==
    \E forwarded, realIP \in Header, remote \in Ip :
        GetLimiter(r, ClientIP(forwarded, realIP, remote))

\* Mutant of Capped: the bucket has no capacity.
Uncapped(n) == n

Capped(n) == IF n > Burst THEN Burst ELSE n

\* The tokens a limiter has now, counting what accrued since its last use.
Tokens(l) == Capped(limiters[l].tokens + Rate * (now - limiters[l].last))

\* Allow finds a token: the request goes on to the route.
Admit(r) ==
    /\ handle[r] # Idle
    /\ Tokens(handle[r].limiter) > 0
    /\ limiters' = [limiters EXCEPT ![handle[r].limiter] =
                      [tokens |-> Tokens(handle[r].limiter) - 1, last |-> now]]
    /\ handle' = [handle EXCEPT ![r] = Idle]
    /\ UNCHANGED <<now, ticker, visitors, cleanup, ctxDone>>

\* Mutant of Refuse: what accrued since the last use is not counted.
RefuseWithoutAccrual(r) ==
    /\ handle[r] # Idle
    /\ limiters[handle[r].limiter].tokens = 0
    /\ handle' = [handle EXCEPT ![r] = Idle]
    /\ UNCHANGED <<now, ticker, visitors, limiters, cleanup, ctxDone>>

\* It finds none: the request is answered 429.
Refuse(r) ==
    /\ handle[r] # Idle
    /\ Tokens(handle[r].limiter) = 0
    /\ handle' = [handle EXCEPT ![r] = Idle]
    /\ UNCHANGED <<now, ticker, visitors, limiters, cleanup, ctxDone>>

\* cleanup, case <-ticker.C: "now" is read before the lock is taken.
CleanupWake ==
    /\ cleanup.pc = "select"
    /\ ticker
    /\ ticker' = FALSE
    /\ cleanup' = [pc |-> "lock", now |-> now]
    /\ UNCHANGED <<now, visitors, limiters, handle, ctxDone>>

\* Mutant of CleanupSweep: "at least" instead of "more than" IdleLimit.
SweepInclusive ==
    /\ cleanup.pc = "lock"
    /\ visitors' = [ip \in Ip |->
                      IF /\ visitors[ip] # None
                         /\ cleanup.now - visitors[ip].lastSeen >= IdleLimit
                      THEN None ELSE visitors[ip]]
    /\ cleanup' = [cleanup EXCEPT !.pc = "select"]
    /\ UNCHANGED <<now, ticker, limiters, handle, ctxDone>>

\* Mutant of CleanupSweep: the loop is missing, one sweep and it returns.
SweepOnce ==
    /\ cleanup.pc = "lock"
    /\ visitors' = [ip \in Ip |->
                      IF /\ visitors[ip] # None
                         /\ cleanup.now - visitors[ip].lastSeen > IdleLimit
                      THEN None ELSE visitors[ip]]
    /\ cleanup' = [cleanup EXCEPT !.pc = "stopped"]
    /\ UNCHANGED <<now, ticker, limiters, handle, ctxDone>>

CleanupSweep ==
    /\ cleanup.pc = "lock"
    /\ visitors' = [ip \in Ip |->
                      IF /\ visitors[ip] # None
                         /\ cleanup.now - visitors[ip].lastSeen > IdleLimit
                      THEN None ELSE visitors[ip]]
    /\ cleanup' = [cleanup EXCEPT !.pc = "select"]
    /\ UNCHANGED <<now, ticker, limiters, handle, ctxDone>>

\* cleanup, case <-rl.ctx.Done(): the goroutine returns.
CleanupStop ==
    /\ cleanup.pc = "select"
    /\ ctxDone
    /\ cleanup' = [cleanup EXCEPT !.pc = "stopped"]
    /\ UNCHANGED <<now, ticker, visitors, limiters, handle, ctxDone>>

Cancel ==
    /\ ~ctxDone
    /\ ctxDone' = TRUE
    /\ UNCHANGED <<now, ticker, visitors, limiters, handle, cleanup>>

\* Time passes, but nobody stays MaxLatency between getLimiter and Allow.
MayTick ==
    \A r \in Request : handle[r] # Idle => now - handle[r].since < MaxLatency

Tick ==
    /\ now < MaxTime
    /\ MayTick
    /\ now' = now + 1
    /\ ticker' = (ticker \/ now' % CleanupPeriod = 0)
    /\ UNCHANGED <<visitors, limiters, handle, cleanup, ctxDone>>

Cleanup == CleanupWake \/ CleanupSweep \/ CleanupStop

Next ==
    \/ \E r \in Request : Arrive(r) \/ Admit(r) \/ Refuse(r)
    \/ Cleanup
    \/ Cancel
    \/ Tick

\* Time goes on, the sweeping goroutine is scheduled, and a request that has
\* its limiter asks it.
Fairness ==
    /\ WF_vars(Tick)
    /\ WF_vars(Cleanup)
    /\ \A r \in Request : WF_vars(Admit(r) \/ Refuse(r))

Spec == Init /\ [][Next]_vars /\ Fairness

-----------------------------------------------------------------------------
\* The tokens an address has as far as the map knows: a forgotten one would
\* start with a full bucket.
Level(ip) == IF visitors[ip] = None THEN Burst ELSE Tokens(visitors[ip].limiter)

Bucket == INSTANCE TokenBucket WITH level <- [ip \in Ip |-> Level(ip)]

\* Forgetting idle visitors is not observable: every address is limited as by
\* one bucket that is kept forever, although the sweep may run between a
\* request's lookup of the limiter and its use.
ImplementsTokenBucket == Bucket!Spec

\* A request is refused only when the one bucket of its address is empty, and
\* the token of an admitted one comes out of that bucket.
ChargedToItsAddress ==
    [][\A r \in Request, ip \in Ip :
          handle[r] # Idle /\ handle[r].ip = ip =>
             /\ Refuse(r) => Level(ip) = 0
             /\ Admit(r) => Level(ip)' = Level(ip) - 1]_vars

\* The map does not grow with every address ever seen: a visitor that stays
\* away is forgotten, until the service shuts down.
Overdue(ip) == visitors[ip] # None /\ now - visitors[ip].lastSeen > IdleLimit

VisitorForgotten == \A ip \in Ip : Overdue(ip) ~> (~Overdue(ip) \/ ctxDone)
=============================================================================
