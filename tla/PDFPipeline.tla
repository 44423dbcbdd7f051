---------------------------- MODULE PDFPipeline ----------------------------
(***************************************************************************)
(* ProcessKRSFromURL (src/internal/services/pdf_service.go): download a    *)
(* study plan from the campus server, extract its text, parse the text.    *)
(* Each caller is a goroutine in the middle of one call.  The campus       *)
(* server, the network and the PDF library are the environment: they       *)
(* answer, fail or stay silent.  The http.Client gives up ClientTimeout    *)
(* after the request was begun, whether it waits for the headers or reads  *)
(* the body; what it returns differs, and so does what becomes of it.      *)
(***************************************************************************)
EXTENDS Integers, Configuration, KRSErrors

CONSTANTS
    Caller,
    ClientTimeout,  \* http.Client.Timeout
    MaxLatency      \* bound on extraction and on parsing, each

VARIABLES
    now,    \* the clock
    call    \* per caller, the progress inside ProcessKRSFromURL

-----------------------------------------------------------------------------
Download == {"waiting", "reading"}
Local == {"extracting", "parsing"}

NoCall == [stage |-> "none"]

\* asked is when the client sent the request, since when the stage began.
Working == [stage : Download \cup Local, asked : Nat, since : Nat]

\* Where a failure comes from.
Cause == {"config", "campus", "timeout", "canceled", "broken", "content", "plan"}

\* What the parts of ProcessKRSFromURL return, before it wraps it once more.
PartError ==
    {Wrap(Plain), InvalidResponse, Wrap(Canceled), Wrap(DeadlineExceeded)} \cup
    {PDFDownloadFailed(e) : e \in {<<>>, Wrap(Plain), Wrap(Canceled), Wrap(DeadlineExceeded)}}

Failed == [stage : {"failed"}, cause : Cause, error : {Wrap(e) : e \in PartError}]
Parsed == [stage |-> "parsed"]

TypeOK == call \in [Caller -> {NoCall, Parsed} \cup Working \cup Failed]

Init == call = [c \in Caller |-> NoCall]

-----------------------------------------------------------------------------
In(c, stage) == call[c].stage = stage

Goto(c, stage) == call' = [call EXCEPT ![c].stage = stage, ![c].since = now]

\* A part of the pipeline returns err, and ProcessKRSFromURL wraps it.
Fail(c, cause, err) ==
    call' = [call EXCEPT ![c] = [stage |-> "failed", cause |-> cause, error |-> Wrap(err)]]

TimedOut(c) == now - call[c].asked >= ClientTimeout

\* What DownloadPDF says of the URL before it asks anybody; <<>> for nothing.
Refusal(url, allowed) ==
    IF ~url.parses THEN Wrap(Plain)
    ELSE IF url.scheme = "https" /\ HasHost(url) /\ url.hostname \in allowed THEN <<>>
    ELSE InvalidResponse

Begin(c, url, allowed) ==
    /\ In(c, "none")
    /\ IF Refusal(url, allowed) # <<>> THEN Fail(c, "config", Refusal(url, allowed))
       ELSE call' = [call EXCEPT ![c] = [stage |-> "waiting", asked |-> now, since |-> now]]

-----------------------------------------------------------------------------
(* client.Do: every error of it becomes a PDFDownloadFailedError. *)

NoConnection(c) ==
    /\ In(c, "waiting")
    /\ Fail(c, "campus", PDFDownloadFailed(Wrap(Plain)))

\* Mutant of WaitTimesOut: an http.Client without a Timeout.
NoClientTimeout(c) == FALSE /\ UNCHANGED call

WaitTimesOut(c) ==
    /\ In(c, "waiting") /\ TimedOut(c)
    /\ Fail(c, "timeout", PDFDownloadFailed(Wrap(DeadlineExceeded)))

\* The client of the request hung up, which cancels its context.
WaitCanceled(c) ==
    /\ In(c, "waiting")
    /\ Fail(c, "canceled", PDFDownloadFailed(Wrap(Canceled)))

\* Mutants of BadStatus: a nil error is wrapped; the request is repeated.
BadStatusNil(c) ==
    /\ In(c, "waiting")
    /\ Fail(c, "campus", <<>>)

BadStatusRetried(c) ==
    /\ In(c, "waiting")
    /\ call' = [call EXCEPT ![c].asked = now]

\* A status other than 200: there is no error to unwrap to.
BadStatus(c) ==
    /\ In(c, "waiting")
    /\ Fail(c, "campus", PDFDownloadFailed(<<>>))

\* The headers name another content type.
NotPDF(c) ==
    /\ In(c, "waiting")
    /\ Fail(c, "content", InvalidResponse)

Headers(c) ==
    /\ In(c, "waiting")
    /\ Goto(c, "reading")

-----------------------------------------------------------------------------
(* io.ReadAll: its errors are wrapped, and are of no type of the model. *)

BodyBreaks(c) ==
    /\ In(c, "reading")
    /\ Fail(c, "broken", Wrap(Plain))

ReadTimesOut(c) ==
    /\ In(c, "reading") /\ TimedOut(c)
    /\ Fail(c, "timeout", Wrap(DeadlineExceeded))

ReadCanceled(c) ==
    /\ In(c, "reading")
    /\ Fail(c, "canceled", Wrap(Canceled))

\* Fewer than 100 bytes, or no %PDF- in front.
NoMagic(c) ==
    /\ In(c, "reading")
    /\ Fail(c, "content", InvalidResponse)

Body(c) ==
    /\ In(c, "reading")
    /\ Goto(c, "extracting")

-----------------------------------------------------------------------------
Unreadable(c) ==
    /\ In(c, "extracting")
    /\ Fail(c, "plan", Wrap(Plain))

NoPages(c) ==
    /\ In(c, "extracting")
    /\ Fail(c, "content", InvalidResponse)

Extracted(c) ==
    /\ In(c, "extracting")
    /\ Goto(c, "parsing")

\* Parse returns errors of no type.
NotAPlan(c) ==
    /\ In(c, "parsing")
    /\ Fail(c, "plan", Wrap(Plain))

Parse(c) ==
    /\ In(c, "parsing")
    /\ call' = [call EXCEPT ![c] = Parsed]

-----------------------------------------------------------------------------
Returned(c) == In(c, "failed") \/ In(c, "parsed")

\* What the environment may do, and what the service itself comes to do.
Campus(c) ==
    NoConnection(c) \/ BadStatus(c) \/ NotPDF(c) \/ Headers(c)
    \/ BodyBreaks(c) \/ NoMagic(c) \/ Body(c)

Cancel(c) == WaitCanceled(c) \/ ReadCanceled(c)

Work(c) ==
    WaitTimesOut(c) \/ ReadTimesOut(c)
    \/ Unreadable(c) \/ NoPages(c) \/ Extracted(c) \/ NotAPlan(c) \/ Parse(c)

\* Time passes only while nobody is overdue.
MayTick(c) ==
    /\ call[c].stage \in Download => ~TimedOut(c)
    /\ call[c].stage \in Local => now - call[c].since < MaxLatency
    /\ ~Returned(c)
=============================================================================
