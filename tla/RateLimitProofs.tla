-------------------------- MODULE RateLimitProofs --------------------------
(***************************************************************************)
(* For every set of addresses, requests and limiters, every rate, burst    *)
(* and idle limit that satisfy ForgetsOnlyFull: the rate limiter, which    *)
(* forgets idle visitors, behaves as one bucket per address that is never  *)
(* forgotten, and a request is charged to the bucket of its own address.   *)
(***************************************************************************)
EXTENDS RateLimit, TLAPS

-----------------------------------------------------------------------------
(* Arithmetic of buckets. *)

\* Waiting longer never yields fewer tokens.
LEMMA AccrualMonotone ==
    ASSUME NEW m \in Nat, NEW n \in Nat, m <= n
    PROVE  Rate * m \in Nat /\ Rate * n \in Nat /\ Rate * m <= Rate * n
<1>1. PICK k \in Nat : n = m + k
  <2>1. n - m \in Nat /\ n = m + (n - m)
    OBVIOUS
  <2> QED BY <2>1
<1>2. Rate \in Nat
  BY RateAssumption
<1>3. Rate * m \in Nat /\ Rate * k \in Nat
  BY <1>2
<1>4. Rate * n = Rate * m + Rate * k
  BY <1>1, <1>2
<1> QED BY <1>3, <1>4

\* One more tick is one more Rate.
LEMMA AccrualStep ==
    ASSUME NEW m \in Nat
    PROVE  Rate * m \in Nat /\ Rate * (m + 1) = Rate * m + Rate
BY RateAssumption

\* A bucket stays within its capacity.
LEMMA CappedRange ==
    ASSUME NEW n \in Nat
    PROVE  Capped(n) \in 0 .. Burst
BY RateAssumption DEF Capped

\* Accruing in two goes is accruing in one.
LEMMA CappedTwice ==
    ASSUME NEW n \in Nat
    PROVE  Capped(Capped(n) + Rate) = Capped(n + Rate)
BY RateAssumption DEF Capped

-----------------------------------------------------------------------------
(* The inductive invariant. *)

\* No two addresses share a limiter.
Separate ==
    \A ip \in Ip, jp \in Ip :
        visitors[ip] # None /\ visitors[jp] # None /\ ip # jp =>
            visitors[ip].limiter # visitors[jp].limiter

\* A visitor was seen in the past, and its limiter was last used within
\* MaxLatency of that.
SeenInTime ==
    \A ip \in Ip : visitors[ip] # None =>
        /\ visitors[ip].lastSeen <= now
        /\ limiters[visitors[ip].limiter].last
              <= visitors[ip].lastSeen + MaxLatency

\* The limiter a request holds is still the one of its address: the visitor
\* cannot be forgotten as long as the request is in flight.
Attached ==
    \A r \in Request : handle[r] # Idle =>
        /\ visitors[handle[r].ip] # None
        /\ visitors[handle[r].ip].limiter = handle[r].limiter
        /\ handle[r].since <= visitors[handle[r].ip].lastSeen
        /\ now - handle[r].since <= MaxLatency

\* Recorded times are past.
Past ==
    /\ \A l \in LimiterId : limiters[l].last <= now
    /\ cleanup.now <= now

IInv == TypeOK /\ Separate /\ SeenInTime /\ Attached /\ Past

\* What a request that holds a limiter looks like.
LEMMA HoldingTyped ==
    ASSUME TypeOK, NEW r \in Request, handle[r] # Idle
    PROVE  handle[r] \in Holding
BY DEF TypeOK

\* A Holding record is not the idle one.
LEMMA HoldingNotIdle ==
    ASSUME NEW h \in Holding
    PROVE  h # Idle
BY DEF Holding, Idle

\* The tokens of a limiter are between none and all.
LEMMA TokensRange ==
    ASSUME TypeOK, Past, NEW l \in LimiterId
    PROVE  Tokens(l) \in 0 .. Burst
<1>1. limiters[l].tokens \in Nat /\ now - limiters[l].last \in Nat
  BY RateAssumption DEF TypeOK, Past, Limiter
<1>2. Rate * (now - limiters[l].last) \in Nat
  BY <1>1, RateAssumption
<1> QED BY <1>1, <1>2, CappedRange DEF Tokens

-----------------------------------------------------------------------------
\* Initially the map is empty and nobody holds anything.
LEMMA InitIInv == Init => IInv
<1> SUFFICES ASSUME Init
             PROVE  IInv
  OBVIOUS
<1>1. now \in 0 .. MaxTime /\ Full(0) \in Limiter
  BY RateAssumption DEF Init, Full, Limiter
<1>2. ticker \in BOOLEAN /\ ctxDone \in BOOLEAN
  BY DEF Init
<1>3. /\ visitors \in [Ip -> Visitor \cup {None}]
      /\ limiters \in [LimiterId -> Limiter]
      /\ handle \in [Request -> {Idle} \cup Holding]
  BY <1>1 DEF Init
<1>4. cleanup \in [pc : {"select", "lock", "stopped"}, now : 0 .. MaxTime]
  BY RateAssumption DEF Init
<1>5. TypeOK
  BY <1>1, <1>2, <1>3, <1>4 DEF TypeOK
<1>6. Past
  BY DEF Init, Full, Past
<1> QED BY <1>5, <1>6 DEF Init, IInv, Separate, SeenInTime, Attached

\* A request gets the limiter of its address, an old one or a new one.
LEMMA GetLimiterIInv ==
    ASSUME IInv, NEW r \in Request, NEW ip \in Ip, GetLimiter(r, ip)
    PROVE  IInv'
<1> USE RateAssumption
<1>1. PICK l \in LimiterId :
        /\ IF visitors[ip] = None
           THEN Fresh(l) /\ limiters' = [limiters EXCEPT ![l] = Full(now)]
           ELSE l = visitors[ip].limiter /\ UNCHANGED limiters
        /\ visitors' = [visitors EXCEPT ![ip] =
                          [limiter |-> l, lastSeen |-> now]]
        /\ handle' = [handle EXCEPT ![r] =
                        [pc |-> "allow", ip |-> ip, limiter |-> l,
                         since |-> now]]
  BY DEF GetLimiter
<1>2. UNCHANGED <<now, ticker, cleanup, ctxDone>>
  BY DEF GetLimiter
<1>3. [limiter |-> l, lastSeen |-> now] \in Visitor
  BY DEF IInv, TypeOK, Visitor
<1>4. [pc |-> "allow", ip |-> ip, limiter |-> l, since |-> now] \in Holding
  BY DEF IInv, TypeOK, Holding
<1>5. Full(now) \in Limiter
  BY DEF IInv, TypeOK, Full, Limiter
<1>6. limiters' \in [LimiterId -> Limiter]
  BY <1>1, <1>5 DEF IInv, TypeOK
<1>7. TypeOK'
  <2>1. visitors' \in [Ip -> Visitor \cup {None}]
    BY <1>1, <1>3 DEF IInv, TypeOK
  <2>2. handle' \in [Request -> {Idle} \cup Holding]
    BY <1>1, <1>4 DEF IInv, TypeOK
  <2> QED BY <1>2, <1>6, <2>1, <2>2 DEF IInv, TypeOK
<1>8. \A jp \in Ip : jp # ip => visitors'[jp] = visitors[jp]
  BY <1>1 DEF IInv, TypeOK
<1>9. visitors'[ip] = [limiter |-> l, lastSeen |-> now]
  BY <1>1 DEF IInv, TypeOK
<1>10. \A jp \in Ip : jp # ip /\ visitors[jp] # None =>
          visitors[jp].limiter # l
  <2>1. CASE visitors[ip] = None
    BY <1>1, <2>1 DEF Fresh, Referenced
  <2>2. CASE visitors[ip] # None
    BY <1>1, <2>2 DEF IInv, Separate
  <2> QED BY <2>1, <2>2
<1>11. Separate'
  BY <1>8, <1>9, <1>10 DEF IInv, Separate
<1>12. \A k \in LimiterId : k # l => limiters'[k] = limiters[k]
  BY <1>1 DEF IInv, TypeOK
<1>13. \A k \in LimiterId : limiters'[k].last <= now
  <2>1. limiters'[l].last <= now
    <3>1. CASE visitors[ip] = None
      BY <1>1, <3>1 DEF IInv, TypeOK, Full
    <3>2. CASE visitors[ip] # None
      BY <1>1, <3>2 DEF IInv, Past
    <3> QED BY <3>1, <3>2
  <2> QED BY <1>12, <2>1 DEF IInv, Past
<1>14. Past'
  BY <1>2, <1>13 DEF IInv, Past
<1>15. SeenInTime'
  <2> SUFFICES ASSUME NEW jp \in Ip, visitors'[jp] # None
               PROVE  /\ visitors'[jp].lastSeen <= now
                      /\ limiters'[visitors'[jp].limiter].last
                            <= visitors'[jp].lastSeen + MaxLatency
    BY <1>2 DEF SeenInTime
  <2>1. CASE jp = ip
    <3>1. now \in Nat /\ limiters'[l].last \in Nat
      BY <1>6 DEF IInv, TypeOK, Limiter
    <3> QED BY <1>9, <1>13, <2>1, <3>1
  <2>2. CASE jp # ip
    <3>1. visitors[jp] \in Visitor /\ visitors'[jp] = visitors[jp]
      BY <1>8, <2>2 DEF IInv, TypeOK
    <3>2. visitors[jp].limiter \in LimiterId /\ visitors[jp].limiter # l
      BY <1>8, <1>10, <2>2, <3>1 DEF Visitor
    <3> QED BY <1>12, <3>1, <3>2 DEF IInv, SeenInTime
  <2> QED BY <2>1, <2>2
<1>16. Attached'
  <2> SUFFICES ASSUME NEW s \in Request, handle'[s] # Idle
               PROVE  /\ visitors'[handle'[s].ip] # None
                      /\ visitors'[handle'[s].ip].limiter = handle'[s].limiter
                      /\ handle'[s].since <= visitors'[handle'[s].ip].lastSeen
                      /\ now - handle'[s].since <= MaxLatency
    BY <1>2 DEF Attached
  <2>1. now \in Nat /\ [limiter |-> l, lastSeen |-> now] # None
    BY <1>3 DEF IInv, TypeOK, Visitor
  <2>2. CASE s = r
    <3>1. handle'[s] = [pc |-> "allow", ip |-> ip, limiter |-> l, since |-> now]
      BY <1>1, <2>2 DEF IInv, TypeOK
    <3> QED BY <1>9, <2>1, <3>1
  <2>3. CASE s # r
    <3>1. handle'[s] = handle[s]
      BY <1>1, <2>3 DEF IInv, TypeOK
    <3>2. handle[s] \in Holding
      BY <3>1, HoldingTyped DEF IInv
    <3>3. /\ visitors[handle[s].ip] # None
          /\ visitors[handle[s].ip].limiter = handle[s].limiter
          /\ handle[s].since <= visitors[handle[s].ip].lastSeen
          /\ now - handle[s].since <= MaxLatency
      BY <3>1 DEF IInv, Attached
    <3>4. CASE handle[s].ip = ip
      <4>1. l = handle[s].limiter
        BY <1>1, <3>3, <3>4
      <4>2. handle[s].since \in 0 .. MaxTime /\ visitors[ip] \in Visitor
        BY <3>2, <3>3, <3>4 DEF Holding, IInv, TypeOK
      <4>3. handle[s].since <= now
        BY <3>3, <3>4, <4>2, <2>1 DEF IInv, SeenInTime, Visitor
      <4> QED BY <1>9, <2>1, <3>1, <3>3, <3>4, <4>1, <4>3
    <3>5. CASE handle[s].ip # ip
      <4>1. handle[s].ip \in Ip
        BY <3>2 DEF Holding
      <4> QED BY <1>8, <3>1, <3>3, <3>5, <4>1
    <3> QED BY <3>4, <3>5
  <2> QED BY <2>2, <2>3
<1> QED BY <1>7, <1>11, <1>14, <1>15, <1>16 DEF IInv

\* A request takes a token from its limiter.
LEMMA AdmitIInv ==
    ASSUME IInv, NEW r \in Request, Admit(r)
    PROVE  IInv'
<1> USE RateAssumption
<1> DEFINE l == handle[r].limiter
           spent == [tokens |-> Tokens(l) - 1, last |-> now]
<1>1. /\ handle[r] # Idle
      /\ Tokens(l) > 0
      /\ limiters' = [limiters EXCEPT ![l] = spent]
      /\ handle' = [handle EXCEPT ![r] = Idle]
      /\ UNCHANGED <<now, ticker, visitors, cleanup, ctxDone>>
  BY DEF Admit
<1>2. handle[r] \in Holding
  BY <1>1, HoldingTyped DEF IInv
<1>3. l \in LimiterId /\ handle[r].ip \in Ip /\ now \in Nat
  BY <1>2 DEF Holding, IInv, TypeOK
<1>4. spent \in Limiter
  <2>1. Tokens(l) \in 0 .. Burst
    BY <1>3, TokensRange DEF IInv
  <2>2. Tokens(l) - 1 \in 0 .. Burst
    BY <1>1, <2>1
  <2> QED BY <2>2 DEF Limiter, IInv, TypeOK
<1>5. /\ limiters' \in [LimiterId -> Limiter]
      /\ handle' \in [Request -> {Idle} \cup Holding]
  BY <1>1, <1>4 DEF IInv, TypeOK
<1>6. TypeOK'
  BY <1>1, <1>5 DEF IInv, TypeOK
<1>7. limiters'[l].last = now
  BY <1>1, <1>3 DEF IInv, TypeOK
<1>8. \A k \in LimiterId : k # l => limiters'[k] = limiters[k]
  BY <1>1 DEF IInv, TypeOK
<1>9. Past'
  BY <1>1, <1>3, <1>7, <1>8 DEF IInv, Past
<1>10. Separate'
  BY <1>1 DEF IInv, Separate
<1>11. SeenInTime'
  <2> SUFFICES ASSUME NEW ip \in Ip, visitors[ip] # None
               PROVE  /\ visitors[ip].lastSeen <= now
                      /\ limiters'[visitors[ip].limiter].last
                            <= visitors[ip].lastSeen + MaxLatency
    BY <1>1 DEF SeenInTime
  <2>1. visitors[ip] \in Visitor
    BY DEF IInv, TypeOK
  <2>2. /\ visitors[ip].lastSeen <= now
        /\ limiters[visitors[ip].limiter].last
              <= visitors[ip].lastSeen + MaxLatency
    BY DEF IInv, SeenInTime
  <2>3. CASE visitors[ip].limiter # l
    BY <1>8, <2>1, <2>2, <2>3 DEF Visitor
  <2>4. CASE visitors[ip].limiter = l
    <3>1. ip = handle[r].ip
      BY <1>1, <1>3, <2>4 DEF IInv, Separate, Attached
    <3>2. /\ handle[r].since <= visitors[ip].lastSeen
          /\ now - handle[r].since <= MaxLatency
      BY <1>1, <3>1 DEF IInv, Attached
    <3>3. handle[r].since \in Nat /\ visitors[ip].lastSeen \in Nat
      BY <1>2, <2>1 DEF Holding, Visitor
    <3>4. now <= visitors[ip].lastSeen + MaxLatency
      BY <1>3, <3>2, <3>3
    <3> QED BY <1>7, <2>2, <2>4, <3>4
  <2> QED BY <2>3, <2>4
<1>12. Attached'
  <2> SUFFICES ASSUME NEW s \in Request, handle'[s] # Idle
               PROVE  /\ visitors[handle'[s].ip] # None
                      /\ visitors[handle'[s].ip].limiter = handle'[s].limiter
                      /\ handle'[s].since <= visitors[handle'[s].ip].lastSeen
                      /\ now - handle'[s].since <= MaxLatency
    BY <1>1 DEF Attached
  <2>1. handle'[s] = handle[s]
    BY <1>1 DEF IInv, TypeOK
  <2> QED BY <2>1 DEF IInv, Attached
<1> QED BY <1>6, <1>9, <1>10, <1>11, <1>12 DEF IInv

\* A request gives up its limiter.
LEMMA RefuseIInv ==
    ASSUME IInv, NEW r \in Request, Refuse(r)
    PROVE  IInv'
<1>1. /\ handle' = [handle EXCEPT ![r] = Idle]
      /\ UNCHANGED <<now, ticker, visitors, limiters, cleanup, ctxDone>>
  BY DEF Refuse
<1>2. handle' \in [Request -> {Idle} \cup Holding]
  BY <1>1 DEF IInv, TypeOK
<1>3. TypeOK'
  BY <1>1, <1>2 DEF IInv, TypeOK
<1>4. Separate' /\ SeenInTime' /\ Past'
  BY <1>1 DEF IInv, Separate, SeenInTime, Past
<1>5. Attached'
  <2> SUFFICES ASSUME NEW s \in Request, handle'[s] # Idle
               PROVE  /\ visitors[handle'[s].ip] # None
                      /\ visitors[handle'[s].ip].limiter = handle'[s].limiter
                      /\ handle'[s].since <= visitors[handle'[s].ip].lastSeen
                      /\ now - handle'[s].since <= MaxLatency
    BY <1>1 DEF Attached
  <2>1. handle'[s] = handle[s]
    BY <1>1 DEF IInv, TypeOK
  <2> QED BY <2>1 DEF IInv, Attached
<1> QED BY <1>3, <1>4, <1>5 DEF IInv

\* What the sweep does to the map: it keeps every visitor but those not seen
\* for longer than IdleLimit, and no request holds the limiter of one of them.
LEMMA SweepForgetsIdle ==
    ASSUME IInv, CleanupSweep, NEW ip \in Ip
    PROVE  \/ visitors'[ip] = visitors[ip]
           \/ /\ visitors'[ip] = None
              /\ visitors[ip] # None
              /\ now - visitors[ip].lastSeen > IdleLimit
              /\ \A r \in Request : handle[r] # Idle => handle[r].ip # ip
<1> USE RateAssumption
<1>1. CASE visitors[ip] # None /\ cleanup.now - visitors[ip].lastSeen > IdleLimit
  <2>1. visitors'[ip] = None
    BY <1>1 DEF CleanupSweep
  <2>2. visitors[ip].lastSeen \in Nat /\ cleanup.now \in Nat /\ now \in Nat
    BY <1>1 DEF IInv, TypeOK, Visitor
  <2>3. now - visitors[ip].lastSeen > IdleLimit
    BY <1>1, <2>2 DEF IInv, Past
  <2>4. ASSUME NEW r \in Request, handle[r] # Idle, handle[r].ip = ip
        PROVE  FALSE
    <3>1. handle[r].since \in Nat
      BY <2>4, HoldingTyped DEF IInv, Holding
    <3>2. /\ handle[r].since <= visitors[ip].lastSeen
          /\ now - handle[r].since <= MaxLatency
      BY <2>4 DEF IInv, Attached
    <3> QED BY <2>2, <2>3, <3>1, <3>2
  <2> QED BY <1>1, <2>1, <2>3, <2>4
<1>2. CASE ~(visitors[ip] # None /\ cleanup.now - visitors[ip].lastSeen > IdleLimit)
  BY <1>2 DEF CleanupSweep
<1> QED BY <1>1, <1>2

\* Sweeping detaches nobody.
LEMMA SweepIInv ==
    ASSUME IInv, CleanupSweep
    PROVE  IInv'
<1>1. /\ cleanup' = [cleanup EXCEPT !.pc = "select"]
      /\ UNCHANGED <<now, ticker, limiters, handle, ctxDone>>
  BY DEF CleanupSweep
<1>2. \A ip \in Ip : visitors'[ip] = visitors[ip] \/ visitors'[ip] = None
  BY DEF CleanupSweep
<1>3. visitors' \in [Ip -> Visitor \cup {None}]
  BY DEF CleanupSweep, IInv, TypeOK
<1>4. /\ cleanup' \in [pc : {"select", "lock", "stopped"}, now : 0 .. MaxTime]
      /\ cleanup'.now = cleanup.now
  BY <1>1 DEF IInv, TypeOK
<1>5. TypeOK'
  BY <1>1, <1>3, <1>4 DEF IInv, TypeOK
<1>6. Separate'
  BY <1>2 DEF IInv, Separate
<1>7. SeenInTime'
  BY <1>1, <1>2 DEF IInv, SeenInTime
<1>8. Past'
  BY <1>1, <1>4 DEF IInv, Past
<1>9. Attached'
  <2> SUFFICES ASSUME NEW r \in Request, handle[r] # Idle
               PROVE  /\ visitors'[handle[r].ip] # None
                      /\ visitors'[handle[r].ip].limiter = handle[r].limiter
                      /\ handle[r].since <= visitors'[handle[r].ip].lastSeen
                      /\ now - handle[r].since <= MaxLatency
    BY <1>1 DEF Attached
  <2>1. handle[r].ip \in Ip
    BY HoldingTyped DEF IInv, Holding
  <2>2. visitors'[handle[r].ip] = visitors[handle[r].ip]
    BY <2>1, SweepForgetsIdle
  <2> QED BY <2>2 DEF IInv, Attached
<1> QED BY <1>5, <1>6, <1>7, <1>8, <1>9 DEF IInv

\* A tick keeps every request within MaxLatency.
LEMMA TickIInv ==
    ASSUME IInv, Tick
    PROVE  IInv'
<1> USE RateAssumption
<1>1. /\ now < MaxTime /\ MayTick
      /\ now' = now + 1
      /\ UNCHANGED <<visitors, limiters, handle, cleanup, ctxDone>>
  BY DEF Tick
<1>2. now \in Nat /\ now' \in 0 .. MaxTime
  BY <1>1 DEF IInv, TypeOK
<1>3. ticker' \in BOOLEAN
  BY DEF Tick
<1>4. TypeOK'
  BY <1>1, <1>2, <1>3 DEF IInv, TypeOK
<1>5. Separate'
  BY <1>1 DEF IInv, Separate
<1>6. SeenInTime'
  <2> SUFFICES ASSUME NEW ip \in Ip, visitors[ip] # None
               PROVE  /\ visitors[ip].lastSeen <= now + 1
                      /\ limiters[visitors[ip].limiter].last
                            <= visitors[ip].lastSeen + MaxLatency
    BY <1>1 DEF SeenInTime
  <2>1. visitors[ip].lastSeen \in Nat
    BY DEF IInv, TypeOK, Visitor
  <2> QED BY <1>2, <2>1 DEF IInv, SeenInTime
<1>7. Past'
  <2>1. cleanup.now \in Nat /\ \A l \in LimiterId : limiters[l].last \in Nat
    BY DEF IInv, TypeOK, Limiter
  <2> QED BY <1>1, <1>2, <2>1 DEF IInv, Past
<1>8. Attached'
  <2> SUFFICES ASSUME NEW r \in Request, handle[r] # Idle
               PROVE  /\ visitors[handle[r].ip] # None
                      /\ visitors[handle[r].ip].limiter = handle[r].limiter
                      /\ handle[r].since <= visitors[handle[r].ip].lastSeen
                      /\ (now + 1) - handle[r].since <= MaxLatency
    BY <1>1 DEF Attached
  <2>1. handle[r].since \in Nat
    BY HoldingTyped DEF IInv, Holding
  <2>2. now - handle[r].since < MaxLatency
    BY <1>1 DEF MayTick
  <2> QED BY <1>2, <2>1, <2>2 DEF IInv, Attached
<1> QED BY <1>4, <1>5, <1>6, <1>7, <1>8 DEF IInv

\* The rest of the goroutine, and the cancellation, touch no limiter.
LEMMA OtherIInv ==
    ASSUME IInv, CleanupWake \/ CleanupStop \/ Cancel \/ UNCHANGED vars
    PROVE  IInv'
<1>1. UNCHANGED <<now, visitors, limiters, handle>>
  BY DEF CleanupWake, CleanupStop, Cancel, vars
<1>2. /\ cleanup' \in [pc : {"select", "lock", "stopped"}, now : 0 .. MaxTime]
      /\ cleanup'.now <= now
  <2>1. CASE CleanupWake
    BY <2>1, RateAssumption DEF CleanupWake, IInv, TypeOK
  <2>2. CASE CleanupStop
    BY <2>2 DEF CleanupStop, IInv, TypeOK, Past
  <2>3. CASE Cancel \/ UNCHANGED vars
    BY <2>3 DEF Cancel, vars, IInv, TypeOK, Past
  <2> QED BY <2>1, <2>2, <2>3
<1>3. ticker' \in BOOLEAN /\ ctxDone' \in BOOLEAN
  BY DEF CleanupWake, CleanupStop, Cancel, vars, IInv, TypeOK
<1>4. TypeOK'
  BY <1>1, <1>2, <1>3 DEF IInv, TypeOK
<1> QED BY <1>1, <1>2, <1>4 DEF IInv, Separate, SeenInTime, Attached, Past

\* getClientIP finds an address.
LEMMA ArriveGetsLimiter ==
    ASSUME NEW r \in Request, Arrive(r)
    PROVE  \E ip \in Ip : GetLimiter(r, ip)
<1>1. PICK forwarded \in Header, realIP \in Header, remote \in Ip :
         GetLimiter(r, ClientIP(forwarded, realIP, remote))
  BY DEF Arrive
<1>2. ClientIP(forwarded, realIP, remote) \in Ip
  BY DEF ClientIP
<1> QED BY <1>1, <1>2

\* Every step keeps the invariant.
LEMMA NextIInv == IInv /\ [Next]_vars => IInv'
<1> SUFFICES ASSUME IInv, [Next]_vars
             PROVE  IInv'
  OBVIOUS
<1>1. CASE \E r \in Request : Arrive(r)
  BY <1>1, ArriveGetsLimiter, GetLimiterIInv
<1>2. CASE \E r \in Request : Admit(r)
  BY <1>2, AdmitIInv
<1>3. CASE \E r \in Request : Refuse(r)
  BY <1>3, RefuseIInv
<1>4. CASE CleanupSweep
  BY <1>4, SweepIInv
<1>5. CASE Tick
  BY <1>5, TickIInv
<1>6. CASE CleanupWake \/ CleanupStop \/ Cancel \/ UNCHANGED vars
  BY <1>6, OtherIInv
<1> QED BY <1>1, <1>2, <1>3, <1>4, <1>5, <1>6 DEF Next, Cleanup

\* The invariant holds in every behaviour of the rate limiter.
THEOREM Invariance == Spec => []IInv
BY InitIInv, NextIInv, PTL DEF Spec

\* The map of visitors, the limiters and what requests hold are well typed:
\* in particular a limiter never holds more than Burst tokens, nor fewer than
\* none.
THEOREM TypeCorrect == Spec => []TypeOK
<1>1. IInv => TypeOK
  BY DEF IInv
<1> QED BY <1>1, Invariance, PTL

-----------------------------------------------------------------------------
(* The bucket behind the map. *)

\* An address has between none and all of its tokens.
LEMMA LevelRange ==
    ASSUME IInv, NEW ip \in Ip
    PROVE  Level(ip) \in 0 .. Burst
<1>1. CASE visitors[ip] = None
  BY <1>1, RateAssumption DEF Level
<1>2. CASE visitors[ip] # None
  <2>1. visitors[ip].limiter \in LimiterId
    BY <1>2 DEF IInv, TypeOK, Visitor
  <2> QED BY <1>2, <2>1, TokensRange DEF Level, IInv
<1> QED BY <1>1, <1>2

\* A visitor that may be forgotten has a full bucket: what makes forgetting it
\* harmless.
LEMMA IdleIsFull ==
    ASSUME IInv, NEW ip \in Ip, visitors[ip] # None,
           now - visitors[ip].lastSeen > IdleLimit
    PROVE  Level(ip) = Burst
<1> USE RateAssumption
<1> DEFINE l == visitors[ip].limiter
           idle == now - limiters[l].last
           enough == IdleLimit + 1 - MaxLatency
<1>1. l \in LimiterId /\ visitors[ip].lastSeen \in Nat /\ now \in Nat
  BY DEF IInv, TypeOK, Visitor
<1>2. limiters[l].last \in Nat /\ limiters[l].tokens \in Nat
  BY <1>1 DEF IInv, TypeOK, Limiter
<1>3. limiters[l].last <= visitors[ip].lastSeen + MaxLatency
  BY DEF IInv, SeenInTime
<1>4. enough \in Nat /\ idle \in Nat /\ enough <= idle
  BY <1>1, <1>2, <1>3
<1>5. Rate * enough \in Nat /\ Rate * idle \in Nat /\ Rate * enough <= Rate * idle
  BY <1>4, AccrualMonotone
<1>6. Burst <= limiters[l].tokens + Rate * idle
  BY <1>2, <1>5, ForgetsOnlyFull
<1>7. Capped(limiters[l].tokens + Rate * idle) = Burst
  BY <1>2, <1>5, <1>6 DEF Capped
<1> QED BY <1>7 DEF Level, Tokens

\* Looking up a limiter changes no bucket: a new one is full, as the bucket of
\* an address nobody remembers.
LEMMA GetLimiterKeepsLevel ==
    ASSUME IInv, NEW r \in Request, NEW ip \in Ip, GetLimiter(r, ip),
           NEW jp \in Ip
    PROVE  Level(jp)' = Level(jp)
<1> USE RateAssumption
<1>1. PICK l \in LimiterId :
        /\ IF visitors[ip] = None
           THEN Fresh(l) /\ limiters' = [limiters EXCEPT ![l] = Full(now)]
           ELSE l = visitors[ip].limiter /\ UNCHANGED limiters
        /\ visitors' = [visitors EXCEPT ![ip] =
                          [limiter |-> l, lastSeen |-> now]]
  BY DEF GetLimiter
<1>2. now' = now
  BY DEF GetLimiter
<1>3. [limiter |-> l, lastSeen |-> now] # None
  BY DEF IInv, TypeOK
<1>4. CASE jp = ip /\ visitors[ip] = None
  <2>1. Level(jp) = Burst
    BY <1>4 DEF Level
  <2>2. Level(jp)' = Tokens(l)'
    BY <1>1, <1>3, <1>4 DEF Level, IInv, TypeOK, Tokens
  <2>3. limiters'[l] = Full(now)
    BY <1>1, <1>4 DEF IInv, TypeOK
  <2>4. Tokens(l)' = Capped(Burst + Rate * (now - now))
    BY <1>2, <2>3 DEF Tokens, Full, Capped
  <2>5. now - now = 0 /\ Rate * 0 = 0
    BY DEF IInv, TypeOK
  <2>6. Capped(Burst + Rate * (now - now)) = Burst
    BY <2>5 DEF Capped
  <2> QED BY <2>1, <2>2, <2>4, <2>6
<1>5. CASE jp = ip /\ visitors[ip] # None
  <2>1. visitors'[jp] # None /\ visitors'[jp].limiter = visitors[jp].limiter
    BY <1>1, <1>3, <1>5 DEF IInv, TypeOK
  <2>2. limiters' = limiters
    BY <1>1, <1>5
  <2> QED BY <1>2, <1>5, <2>1, <2>2 DEF Level, Tokens, Capped
<1>6. CASE jp # ip
  <2>1. visitors'[jp] = visitors[jp]
    BY <1>1, <1>6 DEF IInv, TypeOK
  <2>2. CASE visitors[jp] = None
    BY <2>1, <2>2 DEF Level
  <2>3. CASE visitors[jp] # None
    <3>1. limiters'[visitors[jp].limiter] = limiters[visitors[jp].limiter]
      <4>1. CASE visitors[ip] = None
        <5>1. visitors[jp].limiter \in LimiterId
          BY <2>3 DEF IInv, TypeOK, Visitor
        <5>2. visitors[jp].limiter # l
          BY <1>1, <2>3, <4>1 DEF Fresh, Referenced
        <5> QED BY <1>1, <4>1, <5>1, <5>2 DEF IInv, TypeOK
      <4>2. CASE visitors[ip] # None
        BY <1>1, <4>2
      <4> QED BY <4>1, <4>2
    <3> QED BY <1>2, <2>1, <2>3, <3>1 DEF Level, Tokens, Capped
  <2> QED BY <2>2, <2>3
<1> QED BY <1>4, <1>5, <1>6

\* Sweeping changes no bucket: it forgets only full ones.
LEMMA SweepKeepsLevel ==
    ASSUME IInv, CleanupSweep, NEW ip \in Ip
    PROVE  Level(ip)' = Level(ip)
<1>1. now' = now /\ limiters' = limiters
  BY DEF CleanupSweep
<1>2. CASE visitors'[ip] = visitors[ip]
  BY <1>1, <1>2 DEF Level, Tokens, Capped
<1>3. CASE visitors'[ip] = None /\ visitors[ip] # None
           /\ now - visitors[ip].lastSeen > IdleLimit
  BY <1>3, IdleIsFull DEF Level
<1> QED BY <1>2, <1>3, SweepForgetsIdle

\* So do a refusal and the steps that touch neither clock, map nor limiter.
LEMMA OtherKeepsLevel ==
    ASSUME UNCHANGED <<now, visitors, limiters>>, NEW ip \in Ip
    PROVE  Level(ip)' = Level(ip)
BY DEF Level, Tokens, Capped

\* An admitted request takes one token of its own address and of no other.
LEMMA AdmitCharges ==
    ASSUME IInv, NEW r \in Request, Admit(r), NEW ip \in Ip
    PROVE  Level(ip)' = IF ip = handle[r].ip THEN Level(ip) - 1 ELSE Level(ip)
<1> USE RateAssumption
<1> DEFINE l == handle[r].limiter
           spent == [tokens |-> Tokens(l) - 1, last |-> now]
<1>1. /\ handle[r] # Idle
      /\ Tokens(l) > 0
      /\ limiters' = [limiters EXCEPT ![l] = spent]
      /\ UNCHANGED <<now, visitors>>
  BY DEF Admit
<1>2. handle[r].ip \in Ip /\ l \in LimiterId
  BY <1>1, HoldingTyped DEF IInv, Holding
<1>3. visitors[handle[r].ip] # None /\ visitors[handle[r].ip].limiter = l
  BY <1>1 DEF IInv, Attached
<1>4. CASE ip = handle[r].ip
  <2>1. Level(ip) = Tokens(l)
    BY <1>3, <1>4 DEF Level
  <2>2. limiters'[l] = spent
    BY <1>1, <1>2 DEF IInv, TypeOK
  <2>3. Level(ip)' = Capped((Tokens(l) - 1) + Rate * (now - now))
    BY <1>1, <1>3, <1>4, <2>2 DEF Level, Tokens, Capped
  <2>4. Tokens(l) \in 0 .. Burst
    BY <1>2, TokensRange DEF IInv
  <2>5. now - now = 0 /\ Rate * 0 = 0
    BY DEF IInv, TypeOK
  <2>6. Capped((Tokens(l) - 1) + Rate * (now - now)) = Tokens(l) - 1
    BY <2>4, <2>5 DEF Capped
  <2> QED BY <1>4, <2>1, <2>3, <2>6
<1>5. CASE ip # handle[r].ip /\ visitors[ip] = None
  BY <1>1, <1>5 DEF Level
<1>6. CASE ip # handle[r].ip /\ visitors[ip] # None
  <2>1. visitors[ip].limiter # l
    BY <1>2, <1>3, <1>6 DEF IInv, Separate
  <2>2. visitors[ip].limiter \in LimiterId
    BY <1>6 DEF IInv, TypeOK, Visitor
  <2>3. limiters'[visitors[ip].limiter] = limiters[visitors[ip].limiter]
    BY <1>1, <2>1, <2>2 DEF IInv, TypeOK
  <2> QED BY <1>1, <1>6, <2>3 DEF Level, Tokens, Capped
<1> QED BY <1>4, <1>5, <1>6

\* A tick refills every bucket by Rate, up to Burst.
LEMMA TickRefills ==
    ASSUME IInv, Tick, NEW ip \in Ip
    PROVE  Level(ip)' = Capped(Level(ip) + Rate)
<1> USE RateAssumption
<1>1. now' = now + 1 /\ UNCHANGED <<visitors, limiters>>
  BY DEF Tick
<1>2. CASE visitors[ip] = None
  BY <1>1, <1>2 DEF Level, Capped
<1>3. CASE visitors[ip] # None
  <2> DEFINE l == visitors[ip].limiter
             idle == now - limiters[l].last
  <2>1. l \in LimiterId
    BY <1>3 DEF IInv, TypeOK, Visitor
  <2>2. limiters[l].tokens \in Nat /\ idle \in Nat
    BY <2>1 DEF IInv, TypeOK, Limiter, Past
  <2>3. (now + 1) - limiters[l].last = idle + 1
    BY <2>1 DEF IInv, TypeOK, Limiter
  <2>4. Rate * idle \in Nat /\ Rate * (idle + 1) = Rate * idle + Rate
    BY <2>2, AccrualStep
  <2>5. Level(ip)' = Capped(limiters[l].tokens + Rate * (idle + 1))
    BY <1>1, <1>3, <2>3 DEF Level, Tokens, Capped
  <2>6. limiters[l].tokens + Rate * (idle + 1) = (limiters[l].tokens + Rate * idle) + Rate
    BY <2>2, <2>4
  <2>7. Level(ip)' = Capped((limiters[l].tokens + Rate * idle) + Rate)
    BY <2>5, <2>6
  <2>8. Level(ip) = Capped(limiters[l].tokens + Rate * idle)
    BY <1>3 DEF Level, Tokens
  <2>9. limiters[l].tokens + Rate * idle \in Nat
    BY <2>2, <2>4
  <2> QED BY <2>7, <2>8, <2>9, CappedTwice
<1> QED BY <1>2, <1>3

-----------------------------------------------------------------------------
\* Every step of the rate limiter is a step of the buckets or none at all.
LEMMA StepSimulates ==
    ASSUME IInv, [Next]_vars
    PROVE  [Bucket!Next]_(<<now, [ip \in Ip |-> Level(ip)]>>)
<1> DEFINE Same == now' = now /\ \A ip \in Ip : Level(ip)' = Level(ip)
<1>1. ASSUME Same
      PROVE  UNCHANGED <<now, [ip \in Ip |-> Level(ip)]>>
  BY <1>1
<1>2. CASE \E r \in Request : Arrive(r)
  <2>1. Same
    BY <1>2, ArriveGetsLimiter, GetLimiterKeepsLevel DEF GetLimiter
  <2> QED BY <1>1, <2>1
<1>3. ASSUME NEW r \in Request, Admit(r)
      PROVE  Bucket!Next
  <2>1. handle[r].ip \in Ip /\ handle[r].limiter \in LimiterId
    BY <1>3, HoldingTyped DEF Admit, IInv, Holding
  <2>2. Level(handle[r].ip) > 0
    BY <1>3 DEF Admit, IInv, Attached, Level
  <2>3. [ip \in Ip |-> Level(ip)]' =
           [[ip \in Ip |-> Level(ip)] EXCEPT ![handle[r].ip] = @ - 1]
    BY <1>3, <2>1, AdmitCharges
  <2>4. Bucket!Admit(handle[r].ip)
    BY <1>3, <2>1, <2>2, <2>3 DEF Bucket!Admit, Admit
  <2> QED BY <2>1, <2>4 DEF Bucket!Next
<1>4. CASE \E r \in Request : Refuse(r)
  <2>1. Same
    BY <1>4, OtherKeepsLevel DEF Refuse
  <2> QED BY <1>1, <2>1
<1>5. CASE CleanupSweep
  <2>1. Same
    BY <1>5, SweepKeepsLevel DEF CleanupSweep
  <2> QED BY <1>1, <2>1
<1>6. CASE CleanupWake \/ CleanupStop \/ Cancel \/ UNCHANGED vars
  <2>1. UNCHANGED <<now, visitors, limiters>>
    BY <1>6 DEF CleanupWake, CleanupStop, Cancel, vars
  <2>2. Same
    BY <2>1, OtherKeepsLevel
  <2> QED BY <1>1, <2>2
<1>7. CASE Tick
  <2>1. \A ip \in Ip : Level(ip)' = Capped(Level(ip) + Rate)
    BY <1>7, TickRefills
  <2>2. Bucket!Tick
    BY <1>7, <2>1 DEF Bucket!Tick, Bucket!Capped, Capped, Tick
  <2> QED BY <2>2 DEF Bucket!Next
<1> QED BY <1>2, <1>3, <1>4, <1>5, <1>6, <1>7 DEF Next, Cleanup

\* The rate limiter implements one bucket per address that is never forgotten
\* and gains tokens with time only, although idle visitors are forgotten and a
\* request uses its limiter after the lock of the map is released.
THEOREM Refinement == Spec => ImplementsTokenBucket
<1>1. Init => Bucket!Init
  BY DEF Init, Bucket!Init, Level
<1>2. IInv /\ [Next]_vars =>
         [Bucket!Next]_(<<now, [ip \in Ip |-> Level(ip)]>>)
  BY StepSimulates
<1> QED BY <1>1, <1>2, Invariance, PTL
        DEF Spec, ImplementsTokenBucket, Bucket!Spec, Bucket!vars

\* A refused request found the one bucket of its own address empty, and an
\* admitted one takes its token from there.
THEOREM Charged == Spec => ChargedToItsAddress
<1> DEFINE OwnBucket ==
             \A r \in Request, ip \in Ip :
                handle[r] # Idle /\ handle[r].ip = ip =>
                   /\ Refuse(r) => Level(ip) = 0
                   /\ Admit(r) => Level(ip)' = Level(ip) - 1
<1>1. IInv /\ [Next]_vars => OwnBucket
  <2> SUFFICES ASSUME IInv, NEW r \in Request, NEW ip \in Ip,
                      handle[r] # Idle, handle[r].ip = ip
               PROVE  /\ Refuse(r) => Level(ip) = 0
                      /\ Admit(r) => Level(ip)' = Level(ip) - 1
    OBVIOUS
  <2>1. Refuse(r) => Level(ip) = 0
    BY DEF Refuse, IInv, Attached, Level
  <2>2. Admit(r) => Level(ip)' = Level(ip) - 1
    BY AdmitCharges
  <2> QED BY <2>1, <2>2
<1>2. IInv /\ [Next]_vars => [OwnBucket]_vars
  BY <1>1
<1> QED BY <1>2, Invariance, PTL DEF Spec, ChargedToItsAddress
=============================================================================
