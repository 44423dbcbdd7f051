# Verification of be-lonceng_unman

`be-lonceng_unman` is a Go service that answers one question for an
authenticated student: "what is my study plan (KRS)?". The plan exists as a PDF
on a campus server; the service downloads it, extracts the text, parses it and
keeps the result in two caches. This directory holds TLA+ models of the service,
the TLC configurations that check them on small instances, and TLAPS proofs of
their central properties for every value of the constants.

Contents: [the system](#the-system), [the models](#the-models),
[the runs](#the-runs), [fairness](#fairness), [the proofs](#the-proofs),
[disagreements with the documentation](#disagreements-with-the-documentation),
[what is left out](#what-is-left-out), [plan](#plan).

## The system

All paths are under `src/`.

| component | source | state | operations | called by |
|---|---|---|---|---|
| In-memory cache, L1 | `internal/services/cache_service.go` | map key → (bytes, expiration) under an `RWMutex`; a sweeping goroutine with an hourly ticker | `Set`, `Get`, `Delete`, `cleanup` | KRS handler |
| File cache, L2 | `internal/storage/file_storage.go` | files `<nis>_<date>_<time>.<ext>` in three directories, no lock | `SavePDF`, `SaveResponse`, `SaveExtractedText`, `GetCachedResponse`, `GetCachedPDF`, `IsCacheValid`, `GetCacheAge`, `CleanupExpired` | KRS handler (`SaveResponse`, `GetCachedResponse`); nobody calls `CleanupExpired` |
| KRS handler | `internal/handler/krs_handler.go` | none of its own; both caches | `GetKRSByNIS`, `getCachedKRS`, `storeKRSToFileStorage` | the router, one goroutine per request |
| PDF pipeline | `internal/services/pdf_service.go` | an `http.Client` with a 30 s timeout | `DownloadPDF`, `ExtractTextFromPDF`, `ProcessKRSFromURL`, `ValidateNIS` | KRS handler |
| KRS parser | `internal/parser/krs_parser.go` | none | `Parse` and its `Extract...` parts | PDF pipeline |
| Error mapping | `internal/model/errors.go`, `error_codes.go` | none | `MapErrorToHTTPStatus` | KRS handler |
| Rate limiter | `internal/middleware/rate_limit.go` | map address → (limiter, last seen) under a `Mutex`; a sweeping goroutine with a ticker of one minute | `getClientIP`, `getLimiter`, `Handle`, `cleanup` | the router, for the routes below `/api/` except `/api/auth/generate` |
| Authentication and routing | `internal/middleware/{api_key,jwt_auth,...}.go`, `internal/handler/auth_handler.go`, `internal/routes/routes.go` | signed tokens that live one hour | API key check, token issue, token check, the order of the middleware | the HTTP server |
| Process life cycle | `cmd/api/main.go` | root context; HTTP server with deadlines | start, signal, `Shutdown` within 30 s | the operating system |
| Configuration | `internal/config/env.go` | values read once at the start | getters | everybody |
| Responses, request ids | `internal/pkg/response`, `internal/model/krs_model.go`, `internal/middleware/request_id.go` | none | formatting | everybody |

How they interact. A request passes the API key check, receives a request id,
asks the rate limiter, passes the token check, and enters the handler with the
student number (NPM) of its token. The handler asks L1 under the key
`krs:<npm>`; on a miss it asks L2, and promotes what it finds there to L1 with
the full 24 hours; on a full miss it fetches from the campus server, stores in
L1, then in L2, and answers. L1 and L2 are shared by all requests; nothing
coordinates two requests of the same student. Cancelling the root context (a
signal) ends both sweeping goroutines; `Shutdown` waits for requests. A crash
loses L1 and leaves L2 as it was.

The hard behaviours, and what correctness means there (`PROJECT.json` lists
them line by line under "hazards"):

- **L1** reads under one lock and deletes under another; between the two
  anything may happen to the key. A live entry must not disappear, an expired
  one must not stay, and the sweep must neither harm live entries nor run on
  after shutdown.
- **L2** has no lock: the listing, the comparator of the sort, the `Stat`, the
  `Remove` and the `ReadFile` of a lookup are five points in time, and
  `WriteFile` truncates before it writes. No reader may take away what is live
  or being written, and a file once settled must not change.
- **The handler** multiplies these races, adds the order of the stores, slow
  requests that overtake each other, crashes between L1 and L2, and two TTLs
  that add up. An answer must be the asking student's own, complete, and not too
  old; every request must end though the campus server may stay silent; and the
  campus server should be asked only when it must be.
- **The rate limiter** forgets idle addresses, and a request uses its limiter
  after the lock is gone. Forgetting must not give anybody extra tokens, nor
  charge a request to another bucket, and the map must not grow forever.
- **The parser** reads a table whose fields come one per line. A line lost or
  added by the extraction shifts every record behind it; the walk resynchronises
  by moving on one line at a time. Damage must stay local, the sum of the credits
  must fit the courses returned, and the walk must end on every text.
- **The PDF pipeline** may fail at every stage, and the same event (a timeout, a
  hang-up) is another error before the headers than in the body. Errors are
  wrapped on their way, and the first matching type of the chain decides the
  status: a timeout must still be told as one, and nothing else may be.
- **Authentication**: a token is checked once, at the door, while connections are
  kept alive and tokens expire. Who is let through must be the student of a live
  token.
- **The server** runs under six deadlines that nobody coordinates: reading (10 s),
  writing (30 s from the headers), idling (120 s), the download (30 s from its
  start), the shutdown (30 s from the signal), and net/http's 5 s for silent
  connections. Nobody may hold a connection for ever, answers must be ready while
  they can be written, and the shutdown must not cut what could still be answered.
- **The configuration** is read once; the base URL is looked at in two places, and
  what does not fit together shows only when the first student asks.

## The models

| module | role | models |
|---|---|---|
| `CacheService` | component | L1 |
| `FileStorage` | component | L2 |
| `KRSRetrieval` | abstract specification | what a client of the KRS endpoint may rely on |
| `KRSHandler` | composition of `CacheService` and `FileStorage`; implements `KRSRetrieval` | the handler, the campus server, crashes |
| `TokenBucket` | abstract specification | the rate limit an address is promised |
| `RateLimit` | component; implements `TokenBucket` | the rate limiter |
| `KRSParser` | component | the parser of the extracted text |
| `KRSErrors` | operators | error chains and `MapErrorToHTTPStatus` |
| `Configuration` | operators | what `LoadConfig` accepts, the hosts that may be asked |
| `PDFPipeline` | component | `ProcessKRSFromURL` |
| `AccessChain` | component | routes, checks, tokens |
| `Server` | composition of `PDFPipeline`, `AccessChain`, `Configuration`, `KRSErrors` | the process, its connections, start and shutdown |
| `CacheServiceProofs`, `FileStorageProofs`, `KRSHandlerProofs`, `KRSParserProofs`, `KRSParserDamageProofs`, `RateLimitProofs`, `KRSErrorsProofs`, `ServerProofs` | theorems | |
| `MCCacheService`, `MCFileStorage`, `MCKRSHandler`, `MCKRSParser`, `MCServer` | instances for TLC | |

Time is a bounded counter `now`; one tick is whatever unit the module's
constants use. Every module that depends on how long a goroutine may take has a
constant `MaxLatency` and lets the clock tick only while nobody exceeds it
(`MayTick`): without such a bound the granularity of file names and the TTLs
would mean nothing.

**CacheService.** `cache` is the map, `get` holds the local variables of each
goroutine inside `Get`, `cleanup` those of the sweep. A step is one critical
section or one decision outside of the lock: `GetLookup` (under `RLock`),
`GetHit`/`GetExpired` (comparison with the clock, no lock), `GetEvict` (delete
under `Lock`), `Set`, `Delete`, `CleanupWake` (the ticker fired and the clock is
read), `CleanupSweep` (under `Lock`, with the earlier reading), `CleanupStop`.
The ticker is a channel of capacity one that drops ticks. `Set` refuses a ttl
that is not positive. JSON marshalling is left out: a document stands for its
bytes.

**FileStorage.** `files` maps a path (directory, student, second of the name)
to its modification time and content, `io` holds each goroutine's progress
inside a call. A step is one system call: `SaveName`, `SaveOpen` (truncates),
`SaveWrite`; `GetGlob`, `GetSort`, `GetStat`, then `GetRemove` or `GetRead`;
`CleanGlob`, `CleanStat`, `CleanUnlink`, `CleanDone`. The sort's comparator
calls `Stat` and answers false on an error, so `First` allows any file to come
first once a listed one has vanished. A file being overwritten by a second
writer may show `Torn` content; a crash or an error in the middle leaves `Empty`
or `Torn`. A writer whose file was unlinked writes into nothing.

**KRSHandler.** A request walks through the phases `Lookup` (L1, then L2),
`Fetch`, `Store` (L1, then L2), each bounded by `MaxLatency`; steps inside of a
cache are that cache's own actions, taken through `INSTANCE`. `Publish` lets
the campus server replace a plan at any time, `FetchOK` returns the current one,
`FetchFails` stands for every error of the pipeline, `FetchTimesOut` for the
timeout of the HTTP client. `Crash` empties memory and drops the requests, the
files stay. The abstract `KRSRetrieval` knows no cache: an answer must be the
asking student's, published, and superseded for at most
`StaleBound = L1TTL + FileTTL + 2 * MaxLatency` (for `MaxLatency` when it is
marked `cached: false`). The mapping hides everything but who asks and the
reply.

**RateLimit.** `visitors` is the map, `limiters` the heap of
`rate.Limiter`s (tokens, and when they were counted), `handle` what a request
holds between `getLimiter` and `Allow`. `Arrive` computes the client address
as `getClientIP` does and takes the lock; `Admit` and `Refuse` are the two
outcomes of `Allow`; `CleanupWake`, `CleanupSweep`, `CleanupStop` the goroutine.
`golang.org/x/time/rate` is external and modelled in whole tokens. The
assumption `ForgetsOnlyFull` (`Burst <= Rate * (IdleLimit + 1 - MaxLatency)`)
is what makes forgetting harmless; the default configuration (10 per second, a
burst of 30, 3 minutes) satisfies it by far, but `RATE_LIMIT_RPS` and
`RATE_LIMIT_BURST` are free, so it is an assumption and stated as one.

**KRSParser.** `text` is what `Parse` is given, line by line; of a trimmed line
the walk sees only its kind: blank, a number, a number with a no-break space
inside, a line of the header, an end marker, or other text. `Start`,
`ExtractMahasiswa`, `ExtractAcademicInfo` and `FindHeader` are the early returns
of `Parse`, in order; whether the regular expressions of the first two find their
fields is left open. `Take` and `Skip` are the iterations of the loop of
`ExtractMataKuliah`, `Finish` its end. `index` is `headerIndex`, `found` the
first lines of the courses taken. The text is a printed plan (`Page`, laid out as
in `test/fixtures/sample_krs_text.go`) with at most one damage: a line dropped, a
line inserted, or the rest cut off. A course's name may be one that the walk would
take for the end marker (`Mahasiswa`, `Ketua` or `Subang` in it).

**KRSErrors, Configuration.** An error is the sequence of the links of its chain,
outermost first; `Cases` are the cases of the `switch` in their order, and
`MapErrorToHTTPStatus` takes the first that some link matches. A URL is what
`url.Parse` says of it, with its hostname and with its host including the port;
`getAllowedPDFHosts` chooses between the named hosts and the hostname of the base.

**PDFPipeline.** `call` holds, per handler, the stage of `ProcessKRSFromURL`:
`waiting` (for the headers), `reading` (the body), `extracting`, `parsing`, then
`failed` with the chain of the error or `parsed`. One action per way a stage can
end; `WaitTimesOut` and `ReadTimesOut` are the client's timeout, which counts from
the start of the request (`asked`) in both stages, `WaitCanceled` and
`ReadCanceled` the context of the request. `cause` records where the failure came
from; the code has no such field, the properties compare it with the status.

**AccessChain.** `issued` is the set of all tokens ever signed, by
`/api/auth/generate` or by `cmd/genjwt`, which takes any text for a student number.
`Admits` has the conditions of a route from the outermost inward (`Protected`: key,
limiter, route, token). All refusals are one: no property tells a 401 from a 429.
What the limiter says is free here. The request id has no influence on anything.

**Server.** `proc` is the process, `conn` the connections: silent in one of three ways
(`new`, `idle`, `reading`), or `active` with a request in a handler, at one of the
stages `admit`, `lookup`, `process` (inside of the pipeline), `store`, `answer`.
A request takes `Admit`, then `Malformed`, `Hit` or `Miss`, then the pipeline, then
`Fails` or `Succeeds` and `Stored`; `Deliver` writes the answer if the write deadline
has not passed, `Lose` gives it up. `Shutdown` is the signal and the call of
`srv.Shutdown`: the listener and idle connections are closed, `ShutdownPolls` closes
what has become idle or has been silent since it was accepted for longer than
`NewGrace`, `ShutdownDone` and `ShutdownTimesOut` end the process. The states of
connections, the deadlines and the polling are net/http's, modelled as `main.go`
configures them. Timers fire on the tick they are due, a handler's own steps take up
to `MaxLatency` each (`MayTick`).

## The runs

`tlc -config X.cfg M` for the module and the configuration of each row.

| run | module, configuration | properties | instance |
|---|---|---|---|
| `cache_service` | `MCCacheService`, `CacheService.cfg` | `TypeOK`, `LiveDropOnlyByRace`, `ExpiredSwept`, `CleanupTerminates` | 2 goroutines on one key, ttls −1 to 2, 4 ticks, sweep every 2 |
| `cache_service_race` | `MCCacheService`, `CacheServiceRace.cfg` | `LiveEntryKept`: **violated** | the same |
| `file_storage` | `MCFileStorage`, `FileStorage.cfg` | `TypeOK`, `OpenFileKept`, `RemovesOnlyExpired`, `SettledIsFinal` | 2 goroutines, 1 student, 1 directory, ttl and latency 1, 3 ticks, I/O errors |
| `file_storage_false_miss` | `MCFileStorage`, `FileStorageFalseMiss.cfg` | `LiveFileServed`: **violated** | the same without I/O errors |
| `krs_stale` | `MCKRSHandler`, `KRSHandlerStale.cfg` | `ImplementsRetrieval`, `EveryRequestFinishes` | 1 request whose phases span ticks, 6 ticks, 2 versions |
| `krs_sequential` | `MCKRSHandler`, `KRSHandlerSequential.cfg` | `ImplementsRetrieval`, `FetchOnlyWhenNeeded` | 2 students, one request at a time, L2 outlives L1, the L1 sweep runs |
| `krs_concurrent` | `MCKRSHandler`, `KRSHandlerConcurrent.cfg` | `TypeOK`, `ImplementsRetrieval` | 2 requests of one student, I/O errors, 2 versions |
| `krs_promoted` | `MCKRSHandler`, `KRSHandlerPromoted.cfg` | `ServedWithinFileTTL`: **violated** | 1 request, 5 ticks |
| `rate_limit` | `RateLimit`, `RateLimit.cfg` | `TypeOK`, `ImplementsTokenBucket`, `ChargedToItsAddress`, `VisitorForgotten` | 1 address, 2 requests, burst 2, 6 ticks |
| `krs_parser` | `MCKRSParser`, `KRSParser.cfg` | `TypeOK`, `IntactPlanExact`, `DamageStaysLocal`, `AnswerAddsUp`, `ParseReturns` | plans of 0 to 3 courses, two forms of credits and of names, every single damage |
| `server` | `MCServer`, `Server.cfg` | `TypeOK`, `Entitled`, `TimeoutTold`, `TimeBound`, `DefaultHostAllowed`, `CutOnlyHopeless`, `ConnectionsFreed` | 2 connections, 5 environments, a token, a malformed number, one signal, 6 ticks |
| `server_timeout` | `MCServer`, `ServerTimeout.cfg` | `TimeoutReported`: **violated** | 1 connection |

What they show:

- `LiveDropOnlyByRace`: a live L1 entry disappears only by `Delete` or by the
  one race of `Get` with `Set`; the sweep, though it works with an old clock
  reading, never drops one. `ExpiredSwept`: expired entries nobody asks for are
  released until shutdown begins. `CleanupTerminates`: the goroutine ends.
- `RemovesOnlyExpired`, `OpenFileKept`, `SettledIsFinal`: although every lookup
  of L2 judges and removes in two system calls, with saves of the same student
  in between, no live file and no file being written is removed, and a file
  whose second has passed by `MaxLatency` never changes again.
- `ImplementsRetrieval`: with all races, errors, torn files and crashes, an
  answer is the student's own, whole and within `StaleBound`. The three runs
  divide the hazards: `krs_stale` reaches the bound exactly (a document is
  written late, promoted at the end of its file's life and served at the end of
  L1's), `krs_sequential` has two students and restarts, `krs_concurrent` two
  requests that race in both caches.
- `EveryRequestFinishes`: a silent campus server delays a request by the
  client's timeout and no more.
- `FetchOnlyWhenNeeded`: one request at a time, the campus server is asked only
  if neither cache has a live, whole document, whatever crashed before.
- `ImplementsTokenBucket`, `ChargedToItsAddress`: forgetting is not observable.
  `VisitorForgotten`: the map does not keep who stays away.
- `IntactPlanExact`, `DamageStaysLocal`: a plan whose table survived is read
  field by field; a missing line costs its course and at most the one behind it
  (unless one of the two has a name with a word of the end marker in it, which may
  cost all behind), an extra line inside of a course that course, an extra line between two courses
  nothing; never more than one course is returned that was not printed (there can
  be one: a shifted record whose credits fall on a number). `AnswerAddsUp`: no line
  is used twice and the total is that of the courses returned. `ParseReturns`: the
  walk ends. Names with a word of the end marker are harmless in an undamaged plan.
- `Entitled`: whoever passes the door began the request under a token issued for that
  number before and not yet expired, on whatever connection; only numbers of ten
  digits reach the campus server or are answered with a plan.
- `TimeoutTold`: through both layers of wrapping and the order of the cases, a failure is
  answered with 504 only when the request has lasted a whole client timeout by then, and
  a download that timed out, before its headers or in its body, is never answered as an
  internal error. It does not say which status a timeout has to have: the code gives two,
  and the documents two others
  (see [disagreements](#disagreements-with-the-documentation)). Nor does it say that the
  answer arrives: that it does not is `TimeoutReported`.
- `TimeBound`: a request is over within one client timeout and the latencies of its own
  steps, at every stage; with the numbers of `main.go` this says which answers are
  ready before the write deadline: all but those of a download of nearly 30 seconds. The
  bound itself is longer than the write deadline.
- `CutOnlyHopeless`: the shutdown gives its requests 30 seconds, the write deadline
  gives them 30 seconds, so a request begun before the signal that is cut could not
  have been answered any more. A request whose headers are complete only after the
  signal, on a connection accepted before, may be cut earlier.
- `DefaultHostAllowed`: a port in the base URL does not lock the service out.
- `ConnectionsFreed`: neither a silent client, nor a silent campus server, nor a panic
  of the PDF library keeps a connection.

Why the bounds are enough. Two goroutines suffice for every race described:
each is between two steps of one call and one other call, and the second
goroutine may make any number of calls in that window. The clocks run for at
least two lifetimes of the longest-lived item plus the latencies involved, so
that an item is created, expires and is replaced (`MaxTime` in each
configuration). Students and keys do not interact except through the key, which
`krs_sequential` checks with two, one request at a time; that requests of different
students running at the same time do not either is no run's but the theorem
`Refinement` of `KRSHandlerProofs`; in L1 and L2 alone one is enough. In
`rate_limit` one address is enough because limiters of different addresses
share nothing, which is `Separate` of the invariant and proved for any number of
them; the three limiters are one more than can be held. In
`krs_parser` the walk forgets everything but `index` and the accumulated result
after each course, so a damaged course with a neighbour on either side is the
whole picture. In `server` two connections let the shutdown meet an idle and a
working connection, and a token be issued on one and used on the other; the clock
runs until a request begun at the last moment allowed (`LastAsk`, plus the time to
read it) has seen its download time out. The client's timeout, the write deadline
and the shutdown's are equal, as in the code, and twice the latency of a step.
Symmetry is used only in runs without liveness properties. `CHECK_DEADLOCK FALSE`:
the clocks are bounded, so every behaviour of the models with time stops at
`MaxTime`, and the parser stops when it has returned.

## Fairness

- `CacheService`, `RateLimit`: weak fairness of `Tick` (time goes on) and of the
  sweeping goroutine's steps; the Go scheduler runs a goroutine that is ready,
  and both mutexes are held for a bounded time only. `RateLimit` adds weak
  fairness of a request that holds its limiter. Nothing makes callers call or
  anybody cancel the context.
- `KRSHandler`: weak fairness of each request's own steps, the timeout included,
  and of `Tick`. `FetchOK` and `FetchFails` are not fair: the campus server owes
  nothing. A weakly fair `Work(r)` suffices since a request in `Fetch` has no
  other step than the timeout, which stays enabled.
- `KRSParser`: weak fairness of `Next`; the parser is a sequential computation
  that nothing interrupts.
- `Server`: weak fairness of the handlers' and of main's steps, strong fairness of
  `Tick`: a busy connection can disable it again and again for a moment, but no number
  of requests makes time stand still. Clients and the campus server owe nothing.
- `FileStorage` has no liveness property and no fairness.

## The proofs

`tlapm X.tla` checks each module; no obligation is left open.

**`CacheServiceProofs`.** `TypeCorrect` and `LiveDrops` (`LiveDropOnlyByRace`).
The inductive invariant is `TypeOK` with `Lagging`: the sweep's clock reading is
not in the future, and a `Get` about to evict holds an item that is expired for
good. From the first, the sweep spares live entries (`SweepSparesLive`): what is
expired at an old reading is expired now. From the second, an evicted live entry
is not the one that was judged (`EvictedLiveIsFresh`).

**`FileStorageProofs`.** `TypeCorrect`, `OpenFiles` (`OpenFileKept`), `Removals`
(`RemovesOnlyExpired`), `Settled` (`SettledIsFinal`), for any number of
goroutines, students and documents. None of the three is inductive by itself:
that a `Remove` hits an expired file depends on what other calls did since the
`Stat`. The invariant adds `Stamped` (a file was last written not before the
second in its name) and `CallOK`: a save in flight is at most `MaxLatency` older
than the name it writes to, and a condemned path has a name older than
`FileTTL`. Since `MaxLatency <= FileTTL`, no save can be under way on a
condemned path, nor start on it again. `StepIInv` is the core: a step that
keeps, saves or drops each file as these conditions allow disturbs no other
goroutine.

**`KRSHandlerProofs`.** `Refinement` (`Spec => ImplementsRetrieval`), `TypeCorrect`,
`FetchesNeeded` and `FetchesNeededInTime` (`FetchOnlyWhenNeeded`), for any number of
students, requests and versions. The invariant `IInv`
says of every document at hand until when, at least, it was the student's current plan
(`Good(doc, n, t)`), and each place adds its delay: a request in `Store` has one from
since its phase began, a file one from at most `MaxLatency` before it was written, a
request about to promote one from at most `FileTTL + MaxLatency` before its phase
began, and an item of L1 one from at most `StaleBound` before it *expires*. The last is
why promotion with the full TTL is sound for `StaleBound` and for nothing smaller.
`Sound(x, g, i)` is this for one request `x` with its calls `g` of L1 and `i` of L2;
about the files it says only that the one about to be read, if it still exists, is not
older than the one judged by `Stat`, which survives any other request's step since
those remove files or write them now (`Touched`, `SoundStays`). A step of one request
is therefore looked at alone (`StepKeeps`), with one lemma per action that gives both
`IInv'` and the abstract step: a reply from L1, from L2 or from the campus server is an
`Answer` (`AnswerMaps`), a failed download a `Refuse`, all else a stutter (`GoesOn`). A
new version arrives now, which is never before the times of `Good` (`PublishGood`).

`FetchOnlyWhenNeeded` is false of the code in general, and `FetchesNeeded` states under
which conditions it holds: no I/O errors; `OnePerStudent`, the requests of one student do
not overlap (those of different students may); and `DistinctTimes`, no two files of a
student have the same modification time. Each is needed: TLC violates the
property when any one is dropped, and finds fetches that satisfy all three. Concurrent misses all download;
and a crash between the open and the write of a save leaves an empty file, which the sort
may put before a whole one of the same time when a latency of one tick or more lets a
file be written in the second after its name. The invariant (`Alone`) says that behind a
live whole file there are only whole ones (`OrderedAt`), so that the newest file tells of
all (`NewestTells`); and of each request (`Undisturbed`) that what it has found out still
holds: no live item in L1 once it is past L1, the file it has chosen is the newest and,
when it is about to be removed, expired; no live file from the download to the end of the
save, which is why emptying the file of that name loses nothing. `FetchesNeededInTime`
replaces `DistinctTimes` by `MaxLatency = 0`, from `Punctual`: a file is last written
within `MaxLatency` of the second in its name.

**`KRSParserProofs`.** `TypeCorrect`, `Disjoint` (`CoursesDisjoint`), `AddsUp`
(`AnswerAddsUp`) and `Terminates`, for plans of any length and any one damage. `IInv` is
`TypeOK`, `CoursesDisjoint`, and that nothing is found before the rows; a course is taken
only where eight lines are left (`EightLeft`), so the walk ends at most one line beyond
the text. The sum in `AnswerAddsUp` is a fold over a set, a function chosen by its recursion
equation. `SumIsStack` shows that the number of items in a stack of `g[m]` items on each
course `m` solves that equation, and that nothing else does: of the sets on which two
solutions differ, a smallest one would do the same. A course more adds its credits
(`SumGrows`). `Terminates` is what termination rests on: a bound, the lines not yet
walked, is a natural number and every step makes it smaller. That a step is taken,
and so `ParseReturns`, is left to TLC.

**`KRSParserDamageProofs`.** `LocalDamage` (`DamageStaysLocal`) and `IntactExact`
(`IntactPlanExact`), for plans of any length, every damage and every stray line. Neither
is inductive. `IDamage` adds what the text is made of (`Given`) and where the walk is
(`DamagedWalk`): before the damage it is at the first line of a course it has not yet
read (`OnPlan`); from there on it may be off the plan, but only within the `Damaged` course
or, when that lacked a line and took the next one's number for its last field, within the
next (`Astray`); soon after it is at
the first line of a course again, now `Shift` lines away from where that was printed
(`OnAgain`). Each course it has passed it has found, those that the damage may cost
excepted, and what it has found that was not printed is one course at most. Where a name
in a disturbed course can be taken for the end marker the walk may stop there, and
`Affected` says so. The proof goes through the places of `Layout` one by one: which line of the
damaged text is which line of the page (`Without`, `With`), hence whether the walk skips it,
takes it or stops.

**`RateLimitProofs`.** `Refinement` (`Spec => ImplementsTokenBucket`), `Charged`
(`ChargedToItsAddress`) and `TypeCorrect`, for any number of addresses, requests
and limiters. The invariant: no two addresses share a limiter (`Separate`); a
limiter was last used at most `MaxLatency` after its address was seen
(`SeenInTime`); the limiter a request holds is still its address's
(`Attached`, since `MaxLatency <= IdleLimit`); recorded times are past. The
lemma that carries the refinement is `IdleIsFull`: who may be forgotten has
regained all tokens, which is where `ForgetsOnlyFull` is used. Each action then
maps to a step of `TokenBucket`: `Admit` takes a token of its address, `Tick`
refills every bucket (accruing lazily in one go equals accruing tick by tick,
`CappedTwice`), the rest are stutters.

**`KRSErrorsProofs`.** `WrappingKeepsStatus`: a link of a concatenation is a link of
one of its parts (`HasConcat`), no case is about the link that wrapping adds, so both
chains match the same cases. `ChainStatus` says which status a chain of the pipeline's
links has; it rests on `LeastMatch` (`Min` finds the first matching case), which
follows from the well-foundedness of the naturals.

**`ServerProofs`.** `TypeCorrect`, `EntitledAlways`, `TimeoutToldAlways`,
`DefaultHostAllowedAlways`, `TimeBoundAlways` and `CutOnlyHopelessAlways`, for any
number of connections, any environments and any timeouts. The invariant `IInv` is
`TypeOK` and, of each connection `x` with the call `y` of its handler, `Sound(x, y)`:

- `Quiet`: a call exists only inside of a request, and has returned when the handler
  goes on;
- `Door`: `Entitled`, of a connection;
- `Blame`: a failure is one of the nine ways in which the pipeline can end (`Ends`) or the
  refusal of the URL, and the answer is what the mapping makes of it. `Entitled` and
  `TimeoutTold` alone are not inductive because they speak of the answer only
  once it is there;
- `Pace`: what had been spent when the request entered its stage, and what it has
  spent there. `TimeBound` is the sum; by itself it does not survive a `Tick`, since
  it does not say how much of a stage is left;
- `Waited`: a download is begun after its request, and a request whose download timed out
  has lasted a client timeout. With what the mapping makes of each way to end
  (`EndStatus`, `RefusalStatus`) this is `TimeoutTold`.

`Sound` depends on nothing of the other connections, on the clock only in `Pace` and
on the tokens only monotonically (`SoundStays`), so a step of one connection is
looked at alone (`StepKeeps`), a step of the process leaves a connection or closes
it (`AllKeep`), and only `Tick` moves all of them (`TickPaces`, `TickWaits`). All actions of the
pipeline are first shown to be one of five continuations (`PipelineContinues`).
`CutOnlyHopeless` needs the types and `WriteTimeout <= Grace` only.

The assumptions are those named in the modules (`CacheAssumption`,
`FileAssumption`, `HandlerAssumption`, `ParserAssumption`, `RateAssumption`,
`ForgetsOnlyFull`, `EnoughLimiters`, `ServerAssumption`), all about constants, and TLC evaluates them in the runs.
`FetchesNeeded` and `FetchesNeededInTime` alone have hypotheses of their own, named in
their statements.

Model-checked only: all liveness properties (`ExpiredSwept`, `CleanupTerminates`,
`EveryRequestFinishes`, `VisitorForgotten`, `ParseReturns`, `ConnectionsFreed`), which
rest on fairness and on a step being enabled, outside of what TLAPS proves. Every
invariant and action property of a run that passes is a theorem.

## Disagreements with the documentation

Four statements in `src/plans` and the code disagree; each has a run whose
counterexample shows it.

- `cache_service_race`: the plan for the cache hierarchy calls concurrent use of
  L1 safe because of the `RWMutex`. `Get` deletes an expired key under a later
  lock without looking again, and may delete what a `Set` has just stored. The
  cost is a lookup in L2 or a download more, never a wrong answer
  (`ImplementsRetrieval` holds with this race in the model).
- `file_storage_false_miss`: "file age < 7 days → return from cache". When a
  listed file vanishes during the sort, the call may pick the vanished one and
  report an error although a live file was listed. Again a download more.
- `krs_promoted`: "file age >= 7 days → download fresh". Promotion to L1 starts a
  new 24 hours, so a document is served for up to 8 days; `StaleBound` is the
  bound that does hold.
- `server_timeout`: "PDF timeout | 30s+ request | 408 + ERR_PDF_TIMEOUT". The write
  deadline (30 s after the headers) passes before the download's timeout (30 s after
  the download began), so the client gets no answer at all.

Not runs, but visible in the models.

The statuses of failures (`Cases` and `Fail` in the models) are often not those of the
documents, because the types that would carry them (`DataNotFoundError`,
`KRSEmptyError`, `PDFExternalUnavailableError`, `PDFTimeoutError`,
`PDFParseFailedError`) are created nowhere in the service:

| event | documented | the code |
|---|---|---|
| the text lacks the student's number or name | "ERR_DATA_NOT_FOUND + 404" (`src/plans/api_error_handling_plan.md:173-174`, also `:237`, `:269`); "Not found karena data mahasiswa tidak lengkap" (`src/plans/Documentation-v1.md:267`) | 500 `ERR_INTERNAL_SERVER`: an error of the parser has no type |
| no course in the plan | "ERR_KRS_EMPTY + 404" (`api_error_handling_plan.md:176-177`, also `:238`); "Not found karena daftar mata kuliah kosong" (`Documentation-v1.md:268`) | 500 `ERR_INTERNAL_SERVER` |
| any other text that is no plan | "Parse failed \| 500 \| ERR_PDF_PARSE_FAILED" (`api_error_handling_plan.md:243`) | 500, but `ERR_INTERNAL_SERVER` |
| the campus server is down or answers 503 | "503 + ERR_PDF_EXTERNAL_UNAVAILABLE" (`api_error_handling_plan.md:270`, also `:240`); "Service unavailable karena upstream error" (`Documentation-v1.md:271`) | 502 `ERR_PDF_DOWNLOAD_FAILED`, as for every status but 200 |
| the download times out | "408 + ERR_PDF_TIMEOUT" (`api_error_handling_plan.md:271`, also `:241`); "Gateway timeout karena context deadline exceeded" (`Documentation-v1.md:272`) | before the headers 502 `ERR_PDF_DOWNLOAD_FAILED`, whose case comes before that of `DeadlineExceeded`; in the body 504 `ERR_PDF_TIMEOUT` |

A connection that breaks inside of the body is answered with 500, as if the service were
at fault. A base URL that is `http`, or an override of the hosts that does not name the
host of the base URL (one with a port never does), lets the process start and every
download fail with 502 `ERR_INVALID_RESPONSE`, as if the campus server were.

A file that is exactly seven days old is expired for the plan ("file age >= 7 days →
Download fresh PDF", `api_error_handling_plan.md:39`) and live for the code, which
compares with `>` (`file_storage.go:99`, `:136`); `OlderThanTTL` follows the code.

The document says of the shutdown that "in-flight requests are completed"
(`src/plans/production_deployment_standards.md:37`), which holds for those that can
still be answered. `GetCachedResponse` removes only the newest
file when it is expired, and `CleanupExpired` has no caller, so a student's older
files stay on disk; two concurrent misses of one student both download; a torn
newest file hides an older whole one until the fetch that follows replaces it.

## What is left out

- JSON encoding, logging, response formatting, header and file name layout:
  abstracted to values. `GetCacheAge` only reads and has no caller.
- The contents of a PDF and of a parsed plan: the handler does not look at them.
- In `Server`: the caches' inner life (a lookup hits or misses), redirects, the bodies
  of requests, HTTP/2. In `Configuration`: numbers with defaults, the search for `.env`,
  `OUTPUT_DIR`, which only a test uses.
- The error types that nothing creates (`PDFTimeoutError` among them) are cases
  of the mapping and no more.
- In the parser: the regular expressions, and `ExtractTanggalCetak`, which cannot
  fail and whose result nothing depends on.
- Several processes over one directory: one process is assumed.
- Clock steps: `time.Now` is taken to be monotonic, file modification times to
  come from the same clock.

## Plan

Done: the models of all components, and the proofs listed above.

Next, in this order:

1. The safety core of the other liveness properties, as `Terminates` is of
   `ParseReturns`: what bounds the steps of a request (`EveryRequestFinishes`) and of a
   connection (`ConnectionsFreed`) between two ticks.
2. `FetchOnlyWhenNeeded` with I/O errors: which of them may cost a download.
