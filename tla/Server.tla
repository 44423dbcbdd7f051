------------------------------- MODULE Server -------------------------------
(***************************************************************************)
(* The process (src/cmd/api/main.go): it loads its configuration, serves   *)
(* connections with net/http and ends by a graceful shutdown.  The module  *)
(* composes Configuration, AccessChain, PDFPipeline and KRSErrors: a       *)
(* connection brings a request, the request passes the door, is answered   *)
(* from a cache or from the campus server, and the answer is written if    *)
(* the deadline of the connection allows it.                               *)
(*                                                                         *)
(* The caches only hit or miss here; KRSHandler models them.               *)
(***************************************************************************)
EXTENDS Integers, FiniteSets, Configuration, KRSErrors

CONSTANTS
    Conn,           \* TCP connections at the same time
    Environments,   \* the environments the process may be started in
    Npm, Student, TokenLife, NoToken,   \* of AccessChain
    ClientTimeout,  \* of PDFPipeline: 30 seconds
    MaxLatency,     \* bound on each step of a handler that waits for nobody
    ReadTimeout,    \* 10 seconds
    WriteTimeout,   \* 30 seconds
    IdleTimeout,    \* 120 seconds
    Grace,          \* the deadline of Shutdown, 30 seconds
    NewGrace,       \* net/http: how long Shutdown spares a silent connection
    MaxTokens,      \* bound on the tokens signed
    LastAsk,        \* bound: nobody outside begins anything after this time
    MaxTime         \* bound on the clock

ASSUME ServerAssumption ==
    /\ {ClientTimeout, MaxLatency, ReadTimeout, WriteTimeout, IdleTimeout, Grace,
        NewGrace, TokenLife, MaxTokens, LastAsk, MaxTime} \subseteq Nat
    /\ Environments \subseteq Environment
    /\ Student \subseteq Npm
    /\ WriteTimeout <= Grace
    /\ LastAsk <= MaxTime

VARIABLES
    now,     \* the clock
    proc,    \* the process
    env,     \* the environment it was started in, read once
    conn,    \* per connection, its state and the request it carries
    call,    \* of PDFPipeline: the handlers inside of ProcessKRSFromURL
    issued   \* of AccessChain: the tokens signed

vars == <<now, proc, env, conn, call, issued>>

P == INSTANCE PDFPipeline WITH Caller <- Conn
A == INSTANCE AccessChain

-----------------------------------------------------------------------------
\* since is when the state was entered.
Process == [state : {"starting", "running", "draining", "exited"}, since : 0 .. MaxTime]

\* net/http's states of a connection.  "reading" is a later request whose
\* first bytes are there; net/http still calls it idle.
Silent == [state : {"new", "idle", "reading"}, since : 0 .. MaxTime]

\* A request inside of its handler: begun when its headers were read, since is
\* when its stage began.
Stage == {"admit", "lookup", "process", "store", "answer"}

\* What is written: a study plan; an error of the handler; or something brief, as
\* a refusal, a token or the health check.
Plan == [status |-> 200, code |-> "plan"]
Brief == [status |-> 0, code |-> "brief"]
NoAnswer == [status |-> 0, code |-> "none"]

Answer == Answers \cup {Plan, Brief, NoAnswer}

Active ==
    [state : {"active"}, at : Stage, begun : 0 .. MaxTime, since : 0 .. MaxTime,
     npm : Npm \cup {A!NoNpm}, answer : Answer]

Closed == [state |-> "closed"]

TypeOK ==
    /\ now \in 0 .. MaxTime
    /\ proc \in Process
    /\ env \in Environments
    /\ conn \in [Conn -> {Closed} \cup Silent \cup Active]
    /\ P!TypeOK
    /\ A!TypeOK

Init ==
    /\ now = 0
    /\ proc = [state |-> "starting", since |-> 0]
    /\ env \in Environments
    /\ conn = [c \in Conn |-> Closed]
    /\ P!Init
    /\ A!Init

-----------------------------------------------------------------------------
State(c) == conn[c].state
At(c, stage) == State(c) = "active" /\ conn[c].at = stage

Become(c, state) == conn' = [conn EXCEPT ![c] = [state |-> state, since |-> now]]
Close(c) == conn' = [conn EXCEPT ![c] = Closed]

\* The handler is gone, and the connection with it.
Free(c) == Close(c) /\ call' = [call EXCEPT ![c] = P!NoCall]

Advance(c, stage) == conn' = [conn EXCEPT ![c].at = stage, ![c].since = now]

AnswerWith(c, answer) ==
    conn' = [conn EXCEPT ![c].at = "answer", ![c].since = now, ![c].answer = answer]

AllowedHosts == getAllowedPDFHosts(env.PDFBaseURL, env.hosts)

EarlyEnough == now <= LastAsk

-----------------------------------------------------------------------------
(* The process. *)

Serving == proc.state \in {"running", "draining"}

Enter(state) == proc' = [state |-> state, since |-> now]

\* os.Exit, or the end of main: every connection is cut.
Exit ==
    /\ Enter("exited")
    /\ conn' = [c \in Conn |-> Closed]
    /\ call' = [c \in Conn |-> P!NoCall]
    /\ UNCHANGED <<now, env, issued>>

Start ==
    /\ proc.state = "starting"
    /\ Enter(IF Complete(env) THEN "running" ELSE "exited")
    /\ UNCHANGED <<now, env, conn, call, issued>>

\* Mutant of ListenFails: ErrServerClosed, which Shutdown causes, is an error.
ListenReturns ==
    /\ Serving
    /\ Exit

\* ListenAndServe returns an error that Shutdown did not cause.
ListenFails ==
    /\ proc.state = "running"
    /\ Exit

\* To Shutdown a connection is idle between two requests, and when it has been
\* silent for too long since it was accepted.
ShutdownCloses(c) ==
    \/ State(c) \in {"idle", "reading"}
    \/ State(c) = "new" /\ now - conn[c].since > NewGrace

CloseIdleConns == conn' = [c \in Conn |-> IF ShutdownCloses(c) THEN Closed ELSE conn[c]]

\* The signal arrives; main calls Shutdown, which closes the listener.
Shutdown ==
    /\ proc.state = "running" /\ EarlyEnough
    /\ Enter("draining")
    /\ CloseIdleConns
    /\ UNCHANGED <<now, env, call, issued>>

\* Shutdown looks again from time to time.
ShutdownPolls ==
    /\ proc.state = "draining"
    /\ \E c \in Conn : ShutdownCloses(c)
    /\ CloseIdleConns
    /\ UNCHANGED <<now, proc, env, call, issued>>

ShutdownDone ==
    /\ proc.state = "draining"
    /\ \A c \in Conn : State(c) = "closed"
    /\ Exit

ShutdownTimesOut ==
    /\ proc.state = "draining" /\ now - proc.since >= Grace
    /\ Exit

-----------------------------------------------------------------------------
(* Connections, as net/http keeps them. *)

Still == UNCHANGED <<now, proc, env, issued>>

Accept(c) ==
    /\ proc.state = "running" /\ EarlyEnough
    /\ State(c) = "closed"
    /\ Become(c, "new")
    /\ UNCHANGED call /\ Still

\* The first bytes of a later request.
NextRequest(c) ==
    /\ State(c) = "idle" /\ EarlyEnough
    /\ Become(c, "reading")
    /\ UNCHANGED call /\ Still

\* The headers are complete; the write deadline starts here.
ReadRequest(c) ==
    /\ State(c) \in {"new", "reading"}
    /\ conn' = [conn EXCEPT ![c] =
         [state |-> "active", at |-> "admit", begun |-> now, since |-> now,
          npm |-> A!NoNpm, answer |-> NoAnswer]]
    /\ UNCHANGED call /\ Still

Limit(c) == IF State(c) = "idle" THEN IdleTimeout ELSE ReadTimeout

\* Mutant of SilenceEnds: no ReadTimeout.
IdleEnds(c) ==
    /\ State(c) = "idle" /\ now - conn[c].since >= IdleTimeout
    /\ Close(c)
    /\ UNCHANGED call /\ Still

\* ReadTimeout or IdleTimeout.
SilenceEnds(c) ==
    /\ State(c) \in {"new", "idle", "reading"} /\ now - conn[c].since >= Limit(c)
    /\ Close(c)
    /\ UNCHANGED call /\ Still

\* The client closes the connection.  During a request this cancels the request's
\* context, which only a download and the writing of the answer take notice of.
HangUp(c) ==
    /\ \/ State(c) \in {"new", "idle", "reading"} /\ Close(c) /\ UNCHANGED call
       \/ At(c, "process") /\ P!Cancel(c) /\ UNCHANGED conn
       \/ At(c, "answer") /\ Free(c)
    /\ Still

-----------------------------------------------------------------------------
(* A request. *)

\* Tokens the client had when it sent the request.
Held(c) == {t \in issued : A!IssuedAt(t) <= conn[c].begun}

CanSign == Cardinality(issued) < MaxTokens

Refuse(c, q, limited) ==
    /\ ~A!Admits(q, limited)
    /\ AnswerWith(c, Brief)
    /\ UNCHANGED issued

Cek(c, q) ==
    /\ q.path = "/cek" /\ A!Admits(q, FALSE)
    /\ AnswerWith(c, Brief)
    /\ UNCHANGED issued

Issue(c, q) ==
    /\ CanSign
    /\ A!GenerateToken(q)
    /\ AnswerWith(c, Brief)

GetKRS(c, q, limited) ==
    /\ q.path = "/api/krs" /\ A!Admits(q, limited)
    /\ conn' = [conn EXCEPT ![c].at = "lookup", ![c].since = now, ![c].npm = q.token.npm]
    /\ UNCHANGED issued

Admit(c) ==
    /\ At(c, "admit")
    /\ \E q \in A!Request(Held(c)), limited \in BOOLEAN :
         Refuse(c, q, limited) \/ Cek(c, q) \/ Issue(c, q) \/ GetKRS(c, q, limited)
    /\ UNCHANGED <<now, proc, env, call>>

Malformed(c) ==
    /\ At(c, "lookup") /\ ~A!ValidateNIS(conn[c].npm)
    /\ AnswerWith(c, Brief)
    /\ UNCHANGED call /\ Still

Hit(c) ==
    /\ At(c, "lookup") /\ A!ValidateNIS(conn[c].npm)
    /\ AnswerWith(c, Plan)
    /\ UNCHANGED call /\ Still

Miss(c) ==
    /\ At(c, "lookup") /\ A!ValidateNIS(conn[c].npm)
    /\ P!Begin(c, env.PDFBaseURL, AllowedHosts)
    /\ Advance(c, "process")
    /\ Still

\* A step of ProcessKRSFromURL: the campus server's, or one of its own.
Fetched(c) ==
    /\ At(c, "process") /\ P!Campus(c)
    /\ UNCHANGED <<now, proc, env, conn, issued>>

Fetching(c) ==
    /\ At(c, "process")
    /\ P!Work(c)
    /\ UNCHANGED <<now, proc, env, conn, issued>>

\* The PDF library panics on some malformed files; net/http recovers and closes
\* the connection without an answer.
Panic(c) ==
    /\ At(c, "process") /\ P!In(c, "extracting")
    /\ Free(c)
    /\ Still

Fails(c) ==
    /\ At(c, "process") /\ P!In(c, "failed")
    /\ AnswerWith(c, MapErrorToHTTPStatus(call[c].error))
    /\ UNCHANGED call /\ Still

Succeeds(c) ==
    /\ At(c, "process") /\ P!In(c, "parsed")
    /\ Advance(c, "store")
    /\ UNCHANGED call /\ Still

\* Both stores, whose errors are only logged.
Stored(c) ==
    /\ At(c, "store")
    /\ AnswerWith(c, Plan)
    /\ UNCHANGED call /\ Still

\* The handler has returned: the answer is written while the write deadline of
\* the connection has not passed.
InTime(c) == now - conn[c].begun < WriteTimeout

HungUp(c) == P!In(c, "failed") /\ call[c].cause = "canceled"

Deliver(c) ==
    /\ At(c, "answer") /\ InTime(c) /\ ~HungUp(c)
    /\ IF proc.state = "draining" THEN Close(c) ELSE Become(c, "idle")
    /\ call' = [call EXCEPT ![c] = P!NoCall]
    /\ Still

Lose(c) ==
    /\ At(c, "answer") /\ (HungUp(c) \/ ~InTime(c))
    /\ Free(c)
    /\ Still

-----------------------------------------------------------------------------
GenJWT ==
    /\ EarlyEnough /\ CanSign
    /\ \E npm \in Npm : A!GenJWT(npm)
    /\ UNCHANGED <<now, proc, env, conn, call>>

\* Nobody in the process is overdue: the deadlines of net/http and of Shutdown
\* are kept to the tick, a handler's own steps take MaxLatency at most.
MayTick ==
    /\ proc.state = "draining" => now - proc.since < Grace
    /\ \A c \in Conn :
         CASE State(c) \in {"new", "idle", "reading"} -> now - conn[c].since < Limit(c)
           [] At(c, "process") -> P!MayTick(c)
           [] State(c) = "active" /\ ~At(c, "process") -> now - conn[c].since < MaxLatency
           [] OTHER -> TRUE

Tick ==
    /\ now < MaxTime /\ MayTick
    /\ now' = now + 1
    /\ UNCHANGED <<proc, env, conn, call, issued>>

\* What the service itself comes to do for a connection.
Handle(c) ==
    \/ SilenceEnds(c) \/ Admit(c) \/ Malformed(c) \/ Hit(c) \/ Miss(c)
    \/ Fetching(c) \/ Panic(c) \/ Fails(c) \/ Succeeds(c) \/ Stored(c)
    \/ Deliver(c) \/ Lose(c)

Main == Start \/ ShutdownPolls \/ ShutdownDone \/ ShutdownTimesOut

Next ==
    \/ Main \/ ListenFails \/ Shutdown \/ GenJWT \/ Tick
    \/ \E c \in Conn :
         Accept(c) \/ NextRequest(c) \/ ReadRequest(c) \/ HangUp(c)
         \/ Handle(c) \/ Fetched(c)

\* Goroutines that can go on do, and no number of requests keeps time from passing.
\* Clients and the campus server owe nothing.
Fairness ==
    /\ SF_vars(Tick)
    /\ WF_vars(Main)
    /\ \A c \in Conn : WF_vars(Handle(c))

Spec == Init /\ [][Next]_vars /\ Fairness

-----------------------------------------------------------------------------
(* Properties. *)

\* Behind the door there is a student: a request that was let through was begun
\* under a token that had been issued for its number before and was still alive,
\* the campus server is asked for well-formed numbers only, and nobody else is
\* answered with a plan.
Entitled ==
    \A c \in Conn : State(c) = "active" =>
        /\ conn[c].npm # A!NoNpm =>
             \E t \in issued : /\ t.npm = conn[c].npm
                             /\ A!IssuedAt(t) <= conn[c].begun /\ conn[c].begun < t.exp
        /\ ~P!In(c, "none") \/ conn[c].answer = Plan => conn[c].npm \in Student

\* A timeout is told as one only when it was one, and never as something else of
\* the service's own.  A failure is answered with 504 only when, by the time it is
\* answered, the request has lasted a whole client timeout, whatever else went
\* wrong with the download, however its error was wrapped and whichever case of
\* MapErrorToHTTPStatus came first; and a download that did time out, before its
\* headers or in its body, is not answered as an internal error.
TimeoutTold ==
    \A c \in Conn : At(c, "answer") /\ P!In(c, "failed") =>
        /\ conn[c].answer.status = 504 => conn[c].since - conn[c].begun >= ClientTimeout
        /\ call[c].cause = "timeout" => conn[c].answer # InternalServer

AskedCampus(c) == ~P!In(c, "none") /\ ~(P!In(c, "failed") /\ call[c].cause = "config")

\* The steps of its own a request has begun at most.
OwnSteps(c) ==
    CASE At(c, "admit") -> 1
      [] At(c, "lookup") \/ (At(c, "process") /\ call[c].stage \in P!Download) -> 2
      [] At(c, "process") /\ call[c].stage \notin P!Download -> 4
      [] At(c, "store") -> 5
      [] At(c, "answer") -> IF AskedCampus(c) THEN 6 ELSE 3

\* However often the campus server stalls, breaks off or refuses, a request has
\* at any time spent no more than one client timeout and the latencies of its own
\* steps; one that did not ask the campus server those latencies only.
TimeBound ==
    \A c \in Conn : State(c) = "active" =>
        now - conn[c].begun <=
            OwnSteps(c) * MaxLatency + (IF AskedCampus(c) THEN ClientTimeout ELSE 0)

\* Shutdown gives up only what is lost anyway: a request begun before the signal
\* that is cut at the end had missed its write deadline by then.
CutOnlyHopeless ==
    [][proc.state = "draining" /\ proc'.state = "exited" =>
         \A c \in Conn :
             State(c) = "active" /\ conn[c].begun <= proc.since => ~InTime(c)]_vars

\* Without named hosts the host of the base URL is allowed, whatever its port:
\* an https base URL is never refused before the campus server is asked.
DefaultHostAllowed ==
    \A c \in Conn :
        P!In(c, "failed") /\ NamedHosts(env.hosts) = {}
        /\ HasHost(env.PDFBaseURL) /\ env.PDFBaseURL.scheme = "https"
        => call[c].cause # "config"

\* No client and no campus server keeps a connection or a handler for ever.
ConnectionsFreed ==
    \A c \in Conn :
        State(c) \in {"new", "reading", "active"} ~> State(c) \in {"idle", "closed"}

\* src/plans/api_error_handling_plan.md:271: a request of which the download
\* times out is answered, so its answer must be there before the write deadline.
TimeoutReported ==
    \A c \in Conn :
        At(c, "answer") /\ P!In(c, "failed") /\ call[c].cause = "timeout" => InTime(c)
=============================================================================
