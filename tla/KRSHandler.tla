----------------------------- MODULE KRSHandler -----------------------------
(***************************************************************************)
(* GET /api/krs (src/internal/handler/krs_handler.go): a request asks      *)
(* the in-memory cache L1, then the file cache L2, then the campus server; *)
(* what it finds below L1 it stores above.  The module composes            *)
(* CacheService and FileStorage: a step of a request is a step of the      *)
(* cache it is inside of, or a decision of the handler between two calls.  *)
(* Requests of the same student run concurrently with nothing to           *)
(* coordinate them.                                                        *)
(*                                                                         *)
(* The request arrives authenticated and with a valid NPM; the middleware  *)
(* in front of the handler is not part of this module.                     *)
(***************************************************************************)
EXTENDS Integers, Sequences

CONSTANTS
    Npm,            \* student numbers; the L1 key of one is "krs:" + NPM
    Request,        \* requests in flight at the same time
    L1TTL,          \* 24 * time.Hour
    FileTTL,        \* 7 * 24 hours
    MaxLatency,     \* bound on the time one phase of a request takes
    ClientTimeout,  \* http.Client.Timeout of the PDF service
    CleanupPeriod,  \* ticker of the L1 sweep
    IoMayFail,      \* file operations may report errors
    MaxVersion,     \* bound on the versions the campus server publishes
    LastAsk,        \* bound: no request is begun after this time
    MaxTime,        \* bound on the clock
    Empty, Torn, Error, None

\* What ProcessKRSFromURL returns for ?nis=n: the plan of student n as the
\* campus server has it; the handler does not look at its content.
Document == [npm : Npm, version : 1 .. MaxVersion]

ASSUME HandlerAssumption ==
    /\ L1TTL \in Nat \ {0}
    /\ FileTTL \in Nat
    /\ MaxLatency \in Nat /\ MaxLatency <= FileTTL
    /\ ClientTimeout \in Nat /\ ClientTimeout <= MaxLatency
    /\ CleanupPeriod \in Nat \ {0}
    /\ IoMayFail \in BOOLEAN
    /\ MaxVersion \in Nat \ {0}
    /\ MaxTime \in Nat /\ LastAsk \in 0 .. MaxTime
    /\ None # Error /\ None \notin Npm \cup Document
    /\ Empty \notin Document /\ Torn \notin Document

VARIABLES
    now,                          \* the clock
    ticker, cache, get, cleanup,  \* the state of CacheService
    files, io,                    \* the state of FileStorage
    published,                    \* per student, when each version came out
    req                           \* per request, the handler's progress

vars == <<now, ticker, cache, get, cleanup, files, io, published, req>>

L1 == INSTANCE CacheService
        WITH Key <- Npm, Doc <- Document, Caller <- Request,
             TTLs <- {L1TTL}, ctxDone <- FALSE

L2 == INSTANCE FileStorage
        WITH Kind <- {"response"}, Nis <- Npm, Doc <- Document,
             Caller <- Request

-----------------------------------------------------------------------------
\* The phases of a request, each bounded by MaxLatency: looking up both
\* caches, fetching, storing in both caches.
Lookup == {"l1", "l1get", "l2", "l2get", "promote"}
Fetch == {"fetch"}
Store == {"set", "store", "saving"}

IdleReq == [pc |-> "idle"]

Active ==
    [pc : Lookup \cup Fetch \cup Store, npm : Npm, doc : Document \cup {None},
     since : 0 .. MaxTime]
Replied ==
    [pc : {"replied"}, npm : Npm, doc : Document \cup {Error}, cached : BOOLEAN]

TypeOK ==
    /\ L1!TypeOK
    /\ L2!TypeOK
    /\ published \in [Npm -> UNION {[1 .. v -> 0 .. MaxTime] : v \in 1 .. MaxVersion}]
    /\ req \in [Request -> {IdleReq} \cup Active \cup Replied]

Init ==
    /\ L1!Init
    /\ L2!Init
    /\ published = [n \in Npm |-> <<0>>]
    /\ req = [r \in Request |-> IdleReq]

-----------------------------------------------------------------------------
At(r, pc) == req[r].pc = pc

\* The request goes on within its phase, enters the next one, or replies.
Goto(r, pc) == req' = [req EXCEPT ![r].pc = pc]

Enter(r, pc, doc) ==
    req' = [req EXCEPT ![r] =
              [pc |-> pc, npm |-> @.npm, doc |-> doc, since |-> now]]

Reply(r, doc, cached) ==
    req' = [req EXCEPT ![r] =
              [pc |-> "replied", npm |-> @.npm, doc |-> doc, cached |-> cached]]

L1Idle == UNCHANGED <<cache, get, cleanup, ticker>>
L2Idle == UNCHANGED <<files, io>>
Elsewhere == UNCHANGED <<now, published>>

\* Mutant of CacheKey: one key for everybody.
CommonKey(n) == CHOOSE k \in Npm : TRUE

\* The key under which L1 keeps a student's document.
CacheKey(n) == n

\* GetKRSByNIS is entered.
Begin(r, n) ==
    /\ At(r, "idle")
    /\ now <= LastAsk
    /\ req' = [req EXCEPT ![r] =
                 [pc |-> "l1", npm |-> n, doc |-> None, since |-> now]]
    /\ L1Idle /\ L2Idle /\ Elsewhere

-----------------------------------------------------------------------------
\* getCachedKRS asks L1; any error of Get is a miss, and L2 is next.
L1Lookup(r) ==
    /\ At(r, "l1")
    /\ L1!GetLookup(r, CacheKey(req[r].npm))
    /\ Goto(r, IF cache[CacheKey(req[r].npm)] = None THEN "l2" ELSE "l1get")
    /\ L2Idle /\ Elsewhere

L1Hit(r) ==
    /\ At(r, "l1get")
    /\ L1!GetHit(r)
    /\ Reply(r, get[r].item.value, TRUE)
    /\ L2Idle /\ Elsewhere

L1Expired(r) ==
    /\ At(r, "l1get")
    /\ L1!GetExpired(r)
    /\ UNCHANGED req
    /\ L2Idle /\ Elsewhere

L1Evict(r) ==
    /\ At(r, "l1get")
    /\ L1!GetEvict(r)
    /\ Goto(r, "l2")
    /\ L2Idle /\ Elsewhere

\* Mutant of L2Lookup: L2 is written and never asked.
L2Skipped(r) ==
    /\ At(r, "l2")
    /\ Enter(r, "fetch", None)
    /\ L1Idle /\ L2Idle /\ Elsewhere

\* getCachedKRS asks L2; nil or an error is a full miss.
L2Lookup(r) ==
    /\ At(r, "l2")
    /\ L2!GetGlob(r, "response", req[r].npm)
    /\ IF L2!Glob("response", req[r].npm) = {}
       THEN Enter(r, "fetch", None)
       ELSE Goto(r, "l2get")
    /\ L1Idle /\ Elsewhere

L2Examine(r) ==
    /\ At(r, "l2get")
    /\ L2!GetSort(r) \/ L2!GetStat(r)
    /\ UNCHANGED req
    /\ L1Idle /\ Elsewhere

L2Miss(r) ==
    /\ At(r, "l2get")
    /\ L2!GetMiss(r)
    /\ Enter(r, "fetch", None)
    /\ L1Idle /\ Elsewhere

\* Mutant of L2Read: the error of Unmarshal is not looked at.
L2ReadUnchecked(r) ==
    /\ At(r, "l2get")
    /\ L2!GetRead(r)
    /\ req' = [req EXCEPT ![r].pc = "promote",
                         ![r].doc = files[io[r].path].data]
    /\ L1Idle /\ Elsewhere

\* The bytes of the file are unmarshalled: what is not a whole document is
\* refused and counts as a full miss.
L2Read(r) ==
    LET data == files[io[r].path].data
    IN  /\ At(r, "l2get")
        /\ L2!GetRead(r)
        /\ IF data \in Document
           THEN req' = [req EXCEPT ![r].pc = "promote", ![r].doc = data]
           ELSE Enter(r, "fetch", None)
        /\ L1Idle /\ Elsewhere

\* A document found in L2 goes into L1 with the full L1 ttl, whatever its age.
Promote(r) ==
    /\ At(r, "promote")
    /\ L1!Set(CacheKey(req[r].npm), req[r].doc, L1TTL)
    /\ Reply(r, req[r].doc, TRUE)
    /\ L2Idle /\ Elsewhere

-----------------------------------------------------------------------------
\* ProcessKRSFromURL succeeds with what the campus server has at that moment.
FetchOK(r) ==
    /\ At(r, "fetch")
    /\ Enter(r, "set",
             [npm |-> req[r].npm, version |-> Len(published[req[r].npm])])
    /\ L1Idle /\ L2Idle /\ Elsewhere

\* It fails: no connection, a bad status, not a PDF, not a study plan.
FetchFails(r) ==
    /\ At(r, "fetch")
    /\ Reply(r, Error, FALSE)
    /\ L1Idle /\ L2Idle /\ Elsewhere

\* Mutant of FetchTimesOut: an http.Client without a Timeout.
NoClientTimeout(r) ==
    /\ FALSE
    /\ Reply(r, Error, FALSE)
    /\ L1Idle /\ L2Idle /\ Elsewhere

\* The server stays silent, and the http.Client gives up.
FetchTimesOut(r) ==
    /\ At(r, "fetch")
    /\ now - req[r].since >= ClientTimeout
    /\ Reply(r, Error, FALSE)
    /\ L1Idle /\ L2Idle /\ Elsewhere

\* The fetched document goes into L1 ...
SetL1(r) ==
    /\ At(r, "set")
    /\ L1!Set(CacheKey(req[r].npm), req[r].doc, L1TTL)
    /\ Goto(r, "store")
    /\ L2Idle /\ Elsewhere

\* ... and then into L2, whose failure is logged and otherwise ignored.
StoreL2(r) ==
    /\ At(r, "store")
    /\ L2!SaveName(r, "response", req[r].npm, req[r].doc)
    /\ Goto(r, "saving")
    /\ L1Idle /\ Elsewhere

Saving(r) ==
    /\ At(r, "saving")
    /\ L2!SaveOpen(r)
    /\ UNCHANGED req
    /\ L1Idle /\ Elsewhere

StoreDone(r) ==
    /\ At(r, "saving")
    /\ L2!SaveWrite(r) \/ L2!SaveError(r)
    /\ Reply(r, req[r].doc, FALSE)
    /\ L1Idle /\ Elsewhere

\* The response is written and the request is over.
Deliver(r) ==
    /\ At(r, "replied")
    /\ req' = [req EXCEPT ![r] = IdleReq]
    /\ L1Idle /\ L2Idle /\ Elsewhere

-----------------------------------------------------------------------------
\* The goroutine that sweeps L1.
Sweep ==
    /\ L1!CleanupWake \/ L1!CleanupSweep
    /\ UNCHANGED req
    /\ L2Idle /\ Elsewhere

\* The process dies at any point and starts again: memory is empty, the files
\* are as the crash left them.
Crash ==
    /\ cache' = [n \in Npm |-> None]
    /\ get' = [r \in Request |-> L1!IdleGet]
    /\ cleanup' = [pc |-> "select", now |-> 0]
    /\ ticker' = FALSE
    /\ L2!Crash
    /\ req' = [r \in Request |-> IdleReq]
    /\ Elsewhere

\* The campus server publishes the next version of a student's plan.
Publish(n) ==
    /\ Len(published[n]) < MaxVersion
    /\ published' = [published EXCEPT ![n] = Append(@, now)]
    /\ UNCHANGED <<now, req>>
    /\ L1Idle /\ L2Idle

\* Time passes, but no phase of a request takes longer than MaxLatency.
MayTick ==
    \A r \in Request :
        req[r].pc \in Lookup \cup Fetch \cup Store =>
            now - req[r].since < MaxLatency

Tick ==
    /\ MayTick
    /\ L1!Tick
    /\ UNCHANGED <<published, req>>
    /\ L2Idle

-----------------------------------------------------------------------------
\* What the request does by itself once begun, the timeout included.
Work(r) ==
    \/ L1Lookup(r) \/ L1Hit(r) \/ L1Expired(r) \/ L1Evict(r)
    \/ L2Lookup(r) \/ L2Examine(r) \/ L2Miss(r) \/ L2Read(r) \/ Promote(r)
    \/ FetchTimesOut(r)
    \/ SetL1(r) \/ StoreL2(r) \/ Saving(r) \/ StoreDone(r)
    \/ Deliver(r)

Next ==
    \/ \E r \in Request, n \in Npm : Begin(r, n)
    \/ \E r \in Request : Work(r)
    \/ \E r \in Request : FetchOK(r) \/ FetchFails(r)
    \/ Sweep
    \/ Crash
    \/ \E n \in Npm : Publish(n)
    \/ Tick

\* Request goroutines are scheduled and time goes on; nothing obliges the
\* campus server to answer.
Fairness ==
    /\ \A r \in Request : WF_vars(Work(r))
    /\ WF_vars(Tick)

Spec == Init /\ [][Next]_vars /\ Fairness

-----------------------------------------------------------------------------
\* How long after it was superseded a version can still be served: it may lie
\* in L2 for FileTTL, be promoted at the last moment and lie in L1 for L1TTL,
\* and the request that stored it and the one that promoted it took a phase.
StaleBound == L1TTL + FileTTL + 2 * MaxLatency

\* The request as its client sees it.
ReqView(r) ==
    IF At(r, "idle") THEN [npm |-> None, reply |-> None, cached |-> FALSE]
    ELSE IF At(r, "replied")
    THEN [npm |-> req[r].npm, reply |-> req[r].doc, cached |-> req[r].cached]
    ELSE [npm |-> req[r].npm, reply |-> None, cached |-> FALSE]

Retrieval ==
    INSTANCE KRSRetrieval WITH
        FreshBound <- MaxLatency,
        req <- [r \in Request |-> ReqView(r)]

\* Whatever the concurrent requests, the races of both caches, the torn files
\* and the crashes: an answer is the asking student's, is complete, and was
\* superseded at most StaleBound ago, or MaxLatency when it is not cached.
ImplementsRetrieval == Retrieval!Spec

\* A request that was begun is over one day, whether or not the campus server
\* ever answers: by a reply, or because the service was restarted.
EveryRequestFinishes ==
    \A r \in Request : req[r] # IdleReq ~> req[r] = IdleReq

\* A complete file of the student that is younger than the TTL.
LiveFile(n) ==
    \E p \in L2!Path :
        /\ p.nis = n
        /\ L2!Exists(p) /\ ~L2!Expired(p)
        /\ files[p].data \in Document

\* With one request of a student at a time and no I/O errors, the campus server
\* is asked only when neither cache has a live document of the student, however
\* often the service was restarted and wherever it crashed.
FetchOnlyWhenNeeded ==
    [][\A r \in Request :
          ~At(r, "fetch") /\ At(r, "fetch")' =>
              /\ ~LiveFile(req[r].npm)
              /\ ~L1!Live(CacheKey(req[r].npm))]_vars

\* The documentation's rule for the 7-day TTL: a document older than FileTTL is
\* not served from a cache, it is fetched again.
ServedWithinFileTTL ==
    [][\A r \in Request :
          ~At(r, "replied") /\ At(r, "replied")' /\ req'[r].cached =>
              Retrieval!SupersededWithin(req[r].npm, req'[r].doc.version,
                                         FileTTL + 2 * MaxLatency)]_vars

=============================================================================
