---------------------------- MODULE ServerProofs ----------------------------
(***************************************************************************)
(* For every set of connections, environments and students and every       *)
(* timeout that satisfies ServerAssumption: the safety of the server.  One *)
(* inductive invariant says of each connection on its own how its call,    *)
(* its token, its answer and the time it has spent go together (Quiet,     *)
(* Door, Blame, Pace, Waited); a step of one connection leaves the others  *)
(* alone.                                                                  *)
(***************************************************************************)
EXTENDS Server, KRSErrorsProofs

\* A record of each kind is told by its first field.
LEMMA ConnKinds ==
    ASSUME TypeOK, NEW c \in Conn
    PROVE  /\ State(c) = "closed" => conn[c] = Closed
           /\ State(c) \in {"new", "idle", "reading"} => conn[c] \in Silent
           /\ State(c) = "active" => conn[c] \in Active
           /\ State(c) \in {"closed", "new", "idle", "reading", "active"}
<1>1. conn[c] \in {Closed} \cup Silent \cup Active
  BY DEF TypeOK
<1>2. CASE conn[c] = Closed
  BY <1>2 DEF State, Closed
<1>3. CASE conn[c] \in Silent
  BY <1>3 DEF State, Silent
<1>4. CASE conn[c] \in Active
  BY <1>4 DEF State, Active
<1> QED BY <1>1, <1>2, <1>3, <1>4

\* So is a record of the pipeline.
LEMMA CallKinds ==
    ASSUME P!TypeOK, NEW c \in Conn
    PROVE  /\ P!In(c, "none") => call[c] = P!NoCall
           /\ call[c].stage \in P!Download \cup P!Local => call[c] \in P!Working
           /\ P!In(c, "failed") => call[c] \in P!Failed
           /\ P!In(c, "parsed") => call[c] = P!Parsed
           /\ call[c].stage \in {"none", "failed", "parsed"} \cup P!Download \cup P!Local
BY DEF P!TypeOK, P!In, P!NoCall, P!Parsed, P!Working, P!Failed, P!Download, P!Local

-----------------------------------------------------------------------------
(* What one step of ProcessKRSFromURL does, apart from when it is enabled. *)

End(cause, err) == [stage |-> "failed", cause |-> cause, error |-> P!Wrap(err)]

\* The failures of ProcessKRSFromURL once the request has been sent.
Ends ==
    { End("campus", P!PDFDownloadFailed(P!Wrap(P!Plain))),
      End("campus", P!PDFDownloadFailed(<<>>)),
      End("content", P!InvalidResponse),
      End("timeout", P!PDFDownloadFailed(P!Wrap(P!DeadlineExceeded))),
      End("timeout", P!Wrap(P!DeadlineExceeded)),
      End("canceled", P!PDFDownloadFailed(P!Wrap(P!Canceled))),
      End("canceled", P!Wrap(P!Canceled)),
      End("broken", P!Wrap(P!Plain)),
      End("plan", P!Wrap(P!Plain)) }

\* How the progress w of a caller may continue.
Continues(w, next) ==
    \/ /\ w.stage = "waiting"
       /\ next = [stage |-> "reading", asked |-> w.asked, since |-> now]
    \/ /\ w.stage = "reading"
       /\ next = [stage |-> "extracting", asked |-> w.asked, since |-> now]
    \/ /\ w.stage = "extracting"
       /\ next = [stage |-> "parsing", asked |-> w.asked, since |-> now]
    \/ w.stage = "parsing" /\ next = P!Parsed
    \/ /\ next \in Ends
       /\ next.cause = "timeout" =>
            w.stage \in P!Download /\ now - w.asked >= ClientTimeout

\* Goto changes the stage and the time it began.
LEMMA GotoContinues ==
    ASSUME NEW c \in Conn, NEW stage, P!TypeOK,
           call[c] \in P!Working, P!Goto(c, stage)
    PROVE  call' = [call EXCEPT ![c] =
                      [stage |-> stage, asked |-> call[c].asked, since |-> now]]
<1>1. call \in [Conn -> {P!NoCall, P!Parsed} \cup P!Working \cup P!Failed]
      /\ call' = [call EXCEPT ![c].stage = stage, ![c].since = now]
  BY DEF P!TypeOK, P!Goto
<1>2. call' = [d \in Conn |-> call'[d]]
  BY <1>1
<1>3. \A d \in Conn : d # c => call'[d] = call[d]
  BY <1>1
<1>4. call'[c] = [[call[c] EXCEPT !.stage = stage] EXCEPT !.since = now]
  BY <1>1
<1>5. call'[c] = [stage |-> stage, asked |-> call[c].asked, since |-> now]
  BY <1>4 DEF P!Working
<1> QED BY <1>1, <1>2, <1>3, <1>5

\* Every action of the pipeline is one of those continuations.
LEMMA PipelineContinues ==
    ASSUME NEW c \in Conn, P!TypeOK,
           P!Campus(c) \/ P!Cancel(c) \/ P!Work(c)
    PROVE  /\ call[c] \in P!Working
           /\ \E next : /\ call' = [call EXCEPT ![c] = next]
                        /\ Continues(call[c], next)
<1>1. call[c] \in P!Working
  <2>1. call[c].stage \in P!Download \cup P!Local
    BY DEF P!Campus, P!Cancel, P!Work, P!NoConnection, P!BadStatus, P!NotPDF, P!Headers,
           P!BodyBreaks, P!NoMagic, P!Body, P!WaitCanceled, P!ReadCanceled, P!WaitTimesOut,
           P!ReadTimesOut, P!Unreadable, P!NoPages, P!Extracted, P!NotAPlan, P!Parse,
           P!In, P!Download, P!Local
  <2> QED BY <2>1, CallKinds
<1>2. ASSUME NEW cause, NEW err, P!Fail(c, cause, err), End(cause, err) \in Ends,
             cause = "timeout" => call[c].stage \in P!Download /\ P!TimedOut(c)
      PROVE  \E next : call' = [call EXCEPT ![c] = next] /\ Continues(call[c], next)
  <2>1. PICK next : next = End(cause, err)
    OBVIOUS
  <2>2. call' = [call EXCEPT ![c] = next]
    BY <1>2, <2>1 DEF P!Fail, End
  <2>3. next.cause = cause
    BY <2>1 DEF End
  <2>4. Continues(call[c], next)
    BY <1>2, <2>1, <2>3 DEF P!TimedOut, Continues
  <2> QED BY <2>2, <2>4
<1>3. ASSUME NEW stage, P!Goto(c, stage),
             \/ call[c].stage = "waiting" /\ stage = "reading"
             \/ call[c].stage = "reading" /\ stage = "extracting"
             \/ call[c].stage = "extracting" /\ stage = "parsing"
      PROVE  \E next : call' = [call EXCEPT ![c] = next] /\ Continues(call[c], next)
  BY <1>1, <1>3, GotoContinues DEF Continues
<1>4. ASSUME P!Campus(c)
      PROVE  \E next : call' = [call EXCEPT ![c] = next] /\ Continues(call[c], next)
  <2>1. CASE P!NoConnection(c)
    BY <1>2, <2>1 DEF P!NoConnection, Ends
  <2>2. CASE P!BadStatus(c)
    BY <1>2, <2>2 DEF P!BadStatus, Ends
  <2>3. CASE P!NotPDF(c)
    BY <1>2, <2>3 DEF P!NotPDF, Ends
  <2>4. CASE P!Headers(c)
    BY <1>3, <2>4 DEF P!Headers, P!In
  <2>5. CASE P!BodyBreaks(c)
    BY <1>2, <2>5 DEF P!BodyBreaks, Ends
  <2>6. CASE P!NoMagic(c)
    BY <1>2, <2>6 DEF P!NoMagic, Ends
  <2>7. CASE P!Body(c)
    BY <1>3, <2>7 DEF P!Body, P!In
  <2> QED BY <1>4, <2>1, <2>2, <2>3, <2>4, <2>5, <2>6, <2>7 DEF P!Campus
<1>5. ASSUME P!Cancel(c)
      PROVE  \E next : call' = [call EXCEPT ![c] = next] /\ Continues(call[c], next)
  BY <1>2, <1>5 DEF P!Cancel, P!WaitCanceled, P!ReadCanceled, Ends
<1>6. ASSUME P!Work(c)
      PROVE  \E next : call' = [call EXCEPT ![c] = next] /\ Continues(call[c], next)
  <2>1. CASE P!WaitTimesOut(c)
    BY <1>2, <2>1 DEF P!WaitTimesOut, P!In, P!Download, Ends
  <2>2. CASE P!ReadTimesOut(c)
    BY <1>2, <2>2 DEF P!ReadTimesOut, P!In, P!Download, Ends
  <2>3. CASE P!Unreadable(c)
    BY <1>2, <2>3 DEF P!Unreadable, Ends
  <2>4. CASE P!NoPages(c)
    BY <1>2, <2>4 DEF P!NoPages, Ends
  <2>5. CASE P!Extracted(c)
    BY <1>3, <2>5 DEF P!Extracted, P!In
  <2>6. CASE P!NotAPlan(c)
    BY <1>2, <2>6 DEF P!NotAPlan, Ends
  <2>7. CASE P!Parse(c)
    BY <2>7 DEF P!Parse, P!In, Continues
  <2> QED BY <1>6, <2>1, <2>2, <2>3, <2>4, <2>5, <2>6, <2>7 DEF P!Work
<1> QED BY <1>1, <1>4, <1>5, <1>6

\* Whatever it continues with is of its type.
LEMMA ContinuesTyped ==
    ASSUME NEW w \in P!Working, NEW next, Continues(w, next), now \in Nat
    PROVE  next \in {P!Parsed} \cup P!Working \cup P!Failed
<1>1. Ends \subseteq P!Failed
  <2>1. /\ P!Wrap(P!Plain) \in P!PartError
        /\ P!InvalidResponse \in P!PartError
        /\ P!Wrap(P!Canceled) \in P!PartError
        /\ P!Wrap(P!DeadlineExceeded) \in P!PartError
        /\ P!PDFDownloadFailed(<<>>) \in P!PartError
        /\ P!PDFDownloadFailed(P!Wrap(P!Plain)) \in P!PartError
        /\ P!PDFDownloadFailed(P!Wrap(P!Canceled)) \in P!PartError
        /\ P!PDFDownloadFailed(P!Wrap(P!DeadlineExceeded)) \in P!PartError
    BY Zenon DEF P!PartError
  <2>2. \A cause \in P!Cause, err \in P!PartError : End(cause, err) \in P!Failed
    BY DEF End, P!Failed
  <2>3. \A k \in {"campus", "content", "timeout", "canceled", "broken", "plan"} : k \in P!Cause
    BY DEF P!Cause
  <2> QED BY <2>1, <2>2, <2>3 DEF Ends
<1>2. CASE next \in Ends \/ next = P!Parsed
  BY <1>1, <1>2
<1>3. CASE ~ (next \in Ends \/ next = P!Parsed)
  BY <1>3 DEF Continues, P!Working, P!Download, P!Local
<1> QED BY <1>2, <1>3

-----------------------------------------------------------------------------
(* What the connection of a request looks like after a step of its handler. *)

Moved(c, at, npm, answer) ==
    [state |-> "active", at |-> at, begun |-> conn[c].begun, since |-> now,
     npm |-> npm, answer |-> answer]

\* Advance changes the stage only.
LEMMA AdvanceMoves ==
    ASSUME TypeOK, NEW c \in Conn, State(c) = "active", NEW stage, Advance(c, stage)
    PROVE  conn' = [conn EXCEPT ![c] = Moved(c, stage, conn[c].npm, conn[c].answer)]
<1>1. conn \in [Conn -> {Closed} \cup Silent \cup Active] /\ conn[c] \in Active
  BY ConnKinds DEF TypeOK
<1>2. conn' = [conn EXCEPT ![c].at = stage, ![c].since = now]
  BY DEF Advance
<1>3. conn' = [d \in Conn |-> conn'[d]]
  BY <1>1, <1>2
<1>4. \A d \in Conn : d # c => conn'[d] = conn[d]
  BY <1>1, <1>2
<1>5. conn'[c] = [[conn[c] EXCEPT !.at = stage] EXCEPT !.since = now]
  BY <1>1, <1>2
<1>6. conn'[c] = Moved(c, stage, conn[c].npm, conn[c].answer)
  BY <1>1, <1>5 DEF Active, Moved
<1> QED BY <1>1, <1>3, <1>4, <1>6

\* AnswerWith goes to the last stage with an answer.
LEMMA AnswerMoves ==
    ASSUME TypeOK, NEW c \in Conn, State(c) = "active", NEW answer, AnswerWith(c, answer)
    PROVE  conn' = [conn EXCEPT ![c] = Moved(c, "answer", conn[c].npm, answer)]
<1>1. conn \in [Conn -> {Closed} \cup Silent \cup Active] /\ conn[c] \in Active
  BY ConnKinds DEF TypeOK
<1>2. conn' = [conn EXCEPT ![c].at = "answer", ![c].since = now, ![c].answer = answer]
  BY DEF AnswerWith
<1>3. conn' = [d \in Conn |-> conn'[d]]
  BY <1>1, <1>2
<1>4. \A d \in Conn : d # c => conn'[d] = conn[d]
  BY <1>1, <1>2
<1>5. conn'[c] = [[[conn[c] EXCEPT !.at = "answer"] EXCEPT !.since = now]
                    EXCEPT !.answer = answer]
  BY <1>1, <1>2
<1>6. conn'[c] = Moved(c, "answer", conn[c].npm, answer)
  BY <1>1, <1>5 DEF Active, Moved
<1> QED BY <1>1, <1>3, <1>4, <1>6

\* A request that the door lets through carries a live token of its number, one
\* the client held when it sent the request.
LEMMA AdmittedHolds ==
    ASSUME NEW tokens, NEW q \in A!Request(tokens), NEW limited,
           q.path = "/api/krs", A!Admits(q, limited)
    PROVE  q.token \in tokens /\ now < q.token.exp /\ q.token.npm # A!NoNpm
<1>1. A!Protected(q, limited)
  BY DEF A!Admits
<1>2. q \in [path : {"/api/krs", "/api/other"}, key : BOOLEAN, token : tokens \cup {NoToken}]
  BY DEF A!Request
<1>3. q.token \in tokens \cup {NoToken}
  BY <1>2
<1>4. q.token # NoToken /\ now < q.token.exp /\ q.token.npm # A!NoNpm
  BY <1>1 DEF A!Protected, A!Valid
<1> QED BY <1>3, <1>4

\* GetKRS takes the number from the token.
LEMMA GetKRSMoves ==
    ASSUME TypeOK, NEW c \in Conn, State(c) = "active",
           NEW q \in A!Request(Held(c)), NEW limited, GetKRS(c, q, limited)
    PROVE  /\ q.token \in Held(c) /\ now < q.token.exp /\ q.token.npm # A!NoNpm
           /\ conn' = [conn EXCEPT ![c] = Moved(c, "lookup", q.token.npm, conn[c].answer)]
<1>1. conn \in [Conn -> {Closed} \cup Silent \cup Active] /\ conn[c] \in Active
  BY ConnKinds DEF TypeOK
<1>2. conn' = [conn EXCEPT ![c].at = "lookup", ![c].since = now, ![c].npm = q.token.npm]
  BY DEF GetKRS
<1>3. conn' = [d \in Conn |-> conn'[d]]
  BY <1>1, <1>2
<1>4. \A d \in Conn : d # c => conn'[d] = conn[d]
  BY <1>1, <1>2
<1>5. conn'[c] = [[[conn[c] EXCEPT !.at = "lookup"] EXCEPT !.since = now]
                    EXCEPT !.npm = q.token.npm]
  BY <1>1, <1>2
<1>6. conn'[c] = Moved(c, "lookup", q.token.npm, conn[c].answer)
  BY <1>1, <1>5 DEF Active, Moved
<1>7. q.path = "/api/krs" /\ A!Admits(q, limited)
  BY DEF GetKRS
<1> QED BY <1>1, <1>3, <1>4, <1>6, <1>7, AdmittedHolds

-----------------------------------------------------------------------------
(* Type correctness. *)

Same == UNCHANGED <<now, proc, env, issued>>

\* A request that has moved is well typed.
LEMMA MovedTyped ==
    ASSUME TypeOK, NEW c \in Conn, State(c) = "active",
           NEW at \in Stage, NEW npm \in Npm \cup {A!NoNpm}, NEW answer \in Answer
    PROVE  Moved(c, at, npm, answer) \in Active
<1>1. conn[c] \in Active /\ now \in 0 .. MaxTime
  BY ConnKinds DEF TypeOK
<1> QED BY <1>1 DEF Moved, Active

\* A change at one connection only.
LEMMA TypedAt ==
    ASSUME TypeOK, NEW c \in Conn,
           NEW x \in {Closed} \cup Silent \cup Active,
           conn' = [conn EXCEPT ![c] = x],
           NEW y \in {P!NoCall, P!Parsed} \cup P!Working \cup P!Failed,
           call' = [call EXCEPT ![c] = y],
           UNCHANGED <<now, proc, env>>, A!TypeOK'
    PROVE  TypeOK'
<1>1. conn' \in [Conn -> {Closed} \cup Silent \cup Active]
  BY DEF TypeOK
<1>2. P!TypeOK'
  BY DEF TypeOK, P!TypeOK
<1> QED BY <1>1, <1>2 DEF TypeOK

\* What does not change stays well typed.
LEMMA CallTyped ==
    ASSUME TypeOK, NEW c \in Conn
    PROVE  /\ call[c] \in {P!NoCall, P!Parsed} \cup P!Working \cup P!Failed
           /\ call = [call EXCEPT ![c] = call[c]]
           /\ conn[c] \in {Closed} \cup Silent \cup Active
           /\ conn = [conn EXCEPT ![c] = conn[c]]
           /\ issued' = issued => A!TypeOK'
BY DEF TypeOK, P!TypeOK, A!TypeOK

-----------------------------------------------------------------------------
(* The inductive invariant, as what holds of a connection x and the call y of *)
(* its handler.                                                            *)

\* A call belongs to the request that makes it, and has returned when the
\* handler goes on.
Quiet(x, y) ==
    /\ x.state # "active" => y.stage = "none"
    /\ x.state = "active" =>
         /\ x.at \in {"admit", "lookup"} => y.stage = "none"
         /\ x.at = "process" => y.stage # "none"
         /\ x.at = "store" => y.stage = "parsed"
         /\ x.at = "answer" => y.stage \in {"none", "failed", "parsed"}
         /\ x.at = "admit" => x.answer # Plan

Door(x, y) ==
    x.state = "active" =>
        /\ x.npm # A!NoNpm =>
             \E t \in issued : /\ t.npm = x.npm
                             /\ A!IssuedAt(t) <= x.begun /\ x.begun < t.exp
        /\ y.stage # "none" \/ x.answer = Plan => x.npm \in Student

Refused == P!Refusal(env.PDFBaseURL, AllowedHosts)

\* A failure is one of the pipeline's own, or the refusal of the URL.
Blame(x, y) ==
    y.stage = "failed" =>
        /\ y \in Ends \/ (Refused # <<>> /\ y = End("config", Refused))
        /\ x.state = "active" /\ x.at = "answer" =>
             x.answer = MapErrorToHTTPStatus(y.error)

Asked(y) == y.stage # "none" /\ ~(y.stage = "failed" /\ y.cause = "config")

\* What a request has spent when it enters its stage, and spends in it.
Pace(x, y) ==
    x.state = "active" =>
        /\ x.begun <= x.since /\ x.since <= now
        /\ x.at # "process" => now - x.since <= MaxLatency
        /\ x.at = "admit" => x.since = x.begun
        /\ x.at = "lookup" => x.since - x.begun <= MaxLatency
        /\ x.at = "process" =>
             /\ y.stage \in P!Download =>
                  /\ y.asked - x.begun <= 2 * MaxLatency
                  /\ now - y.asked <= ClientTimeout
             /\ y.stage = "extracting" =>
                  /\ y.since - x.begun <= 2 * MaxLatency + ClientTimeout
                  /\ now - y.since <= MaxLatency
             /\ y.stage = "parsing" =>
                  /\ y.since - x.begun <= 3 * MaxLatency + ClientTimeout
                  /\ now - y.since <= MaxLatency
             /\ y.stage \in {"failed", "parsed"} =>
                  now - x.begun <=
                    IF Asked(y) THEN 4 * MaxLatency + ClientTimeout ELSE 2 * MaxLatency
        /\ x.at = "store" => x.since - x.begun <= 4 * MaxLatency + ClientTimeout
        /\ x.at = "answer" =>
             x.since - x.begun <=
               IF Asked(y) THEN 5 * MaxLatency + ClientTimeout ELSE 2 * MaxLatency

TimedOut(y) == y.stage = "failed" /\ y.cause = "timeout"

\* A download is begun after its request, and times out a client timeout later.
Waited(x, y) ==
    x.state = "active" =>
        /\ x.at = "process" /\ y.stage \in P!Download => x.begun <= y.asked
        /\ x.at = "process" /\ TimedOut(y) => now - x.begun >= ClientTimeout
        /\ x.at = "answer" /\ TimedOut(y) => x.since - x.begun >= ClientTimeout

Sound(x, y) == Quiet(x, y) /\ Door(x, y) /\ Blame(x, y) /\ Pace(x, y) /\ Waited(x, y)

IInv == TypeOK /\ \A c \in Conn : Sound(conn[c], call[c])

\* A step of one connection, to x and y.
Step(c, x, y) ==
    /\ x \in {Closed} \cup Silent \cup Active
    /\ y \in {P!NoCall, P!Parsed} \cup P!Working \cup P!Failed
    /\ conn' = [conn EXCEPT ![c] = x]
    /\ call' = [call EXCEPT ![c] = y]
    /\ Sound(x, y)

\* The invariant of a connection depends on nothing but the clock and the
\* environment, and on tokens that are never revoked.
LEMMA SoundStays ==
    ASSUME NEW x, NEW y, Sound(x, y), UNCHANGED <<now, env>>, issued \subseteq issued'
    PROVE  Sound(x, y)'
<1>1. Door(x, y)'
  <2>1. Door(x, y)
    BY DEF Sound
  <2> QED BY <2>1 DEF Door
<1>2. Refused' = Refused
  BY DEF Refused, AllowedHosts
<1>3. Blame(x, y)'
  BY <1>2 DEF Sound, Blame
<1>4. Pace(x, y)'
  BY DEF Sound, Pace
<1>5. Quiet(x, y)'
  BY DEF Sound, Quiet
<1>6. Waited(x, y)'
  BY DEF Sound, Waited
<1> QED BY <1>1, <1>3, <1>4, <1>5, <1>6 DEF Sound

\* A step of one connection is enough to look at.
LEMMA StepKeeps ==
    ASSUME IInv, NEW c \in Conn, NEW x, NEW y, Step(c, x, y),
           UNCHANGED <<now, proc, env>>, issued \subseteq issued', A!TypeOK'
    PROVE  IInv'
<1>1. TypeOK'
  BY TypedAt DEF IInv, Step
<1>2. conn'[c] = x /\ call'[c] = y
  BY DEF IInv, TypeOK, P!TypeOK, Step
<1>3. ASSUME NEW d \in Conn, d # c
      PROVE  conn'[d] = conn[d] /\ call'[d] = call[d]
  BY <1>3 DEF IInv, TypeOK, P!TypeOK, Step
<1>4. Sound(x, y)'
  BY SoundStays DEF Step
<1>5. ASSUME NEW d \in Conn
      PROVE  Sound(conn[d], call[d])'
  <2>1. CASE d = c
    BY <1>2, <1>4, <2>1
  <2>2. CASE d # c
    <3>1. PICK u, v : u = conn[d] /\ v = call[d]
      OBVIOUS
    <3>2. Sound(u, v)
      BY <3>1 DEF IInv
    <3>3. Sound(u, v)'
      BY <3>2, SoundStays
    <3>4. conn'[d] = u /\ call'[d] = v
      BY <1>3, <2>2, <3>1
    <3> QED BY <3>3, <3>4
  <2> QED BY <2>1, <2>2
<1> QED BY <1>1, <1>5 DEF IInv

\* Nothing has to be shown of a connection that carries no request.
LEMMA SilentSound ==
    ASSUME NEW x \in {Closed} \cup Silent
    PROVE  Sound(x, P!NoCall)
<1>1. x.state # "active"
  BY DEF Closed, Silent
<1> QED BY <1>1 DEF Sound, Quiet, Door, Blame, Pace, Waited, P!NoCall

-----------------------------------------------------------------------------
(* The steps of a connection keep the invariant. *)

\* In most steps the tokens do not change either.
LEMMA StillKeeps ==
    ASSUME IInv, NEW c \in Conn, NEW x, NEW y, Step(c, x, y), Still
    PROVE  IInv'
<1>1. A!TypeOK'
  BY CallTyped DEF IInv, Still
<1> QED BY <1>1, StepKeeps DEF Still

\* The handler of a connection that carries no request makes no call.
LEMMA NoRequestNoCall ==
    ASSUME IInv, NEW c \in Conn, State(c) # "active"
    PROVE  call[c] = P!NoCall
<1>1. Quiet(conn[c], call[c])
  BY DEF IInv, Sound
<1>2. P!In(c, "none")
  BY <1>1 DEF Quiet, State, P!In
<1> QED BY <1>2, CallKinds DEF IInv, TypeOK

\* A connection falls silent or is closed.
LEMMA BecomeKeeps ==
    ASSUME IInv, NEW c \in Conn, Still,
           \/ \E state \in {"new", "idle", "reading"} : Become(c, state)
           \/ Close(c),
           \/ State(c) # "active" /\ UNCHANGED call
           \/ call' = [call EXCEPT ![c] = P!NoCall]
    PROVE  IInv'
<1>1. PICK x \in {Closed} \cup Silent : conn' = [conn EXCEPT ![c] = x]
  <2>1. now \in 0 .. MaxTime
    BY DEF IInv, TypeOK
  <2>2. ASSUME NEW state \in {"new", "idle", "reading"}
        PROVE  [state |-> state, since |-> now] \in Silent
    BY <2>1 DEF Silent
  <2> QED BY <2>2 DEF Become, Close
<1>2. call' = [call EXCEPT ![c] = P!NoCall]
  BY NoRequestNoCall, CallTyped DEF IInv
<1>3. Step(c, x, P!NoCall)
  BY <1>1, <1>2, SilentSound DEF Step
<1> QED BY <1>3, StillKeeps

\* Connections come, ask again, and are given up.
LEMMA AcceptKeeps ==
    ASSUME IInv, NEW c \in Conn, Accept(c) \/ NextRequest(c) \/ SilenceEnds(c)
    PROVE  IInv'
BY BecomeKeeps DEF Accept, NextRequest, SilenceEnds

\* The handler ends.
LEMMA EndKeeps ==
    ASSUME IInv, NEW c \in Conn, Panic(c) \/ Deliver(c) \/ Lose(c)
    PROVE  IInv'
<1>1. CASE Panic(c)
  BY <1>1, BecomeKeeps DEF Panic, Free
<1>2. CASE Deliver(c)
  BY <1>2, BecomeKeeps DEF Deliver
<1>3. CASE Lose(c)
  BY <1>3, BecomeKeeps DEF Lose, Free
<1> QED BY <1>1, <1>2, <1>3

\* A request begins with nothing spent.
LEMMA ReadRequestKeeps ==
    ASSUME IInv, NEW c \in Conn, ReadRequest(c)
    PROVE  IInv'
<1> DEFINE x == [state |-> "active", at |-> "admit", begun |-> now, since |-> now,
                 npm |-> A!NoNpm, answer |-> NoAnswer]
<1>1. call[c] = P!NoCall
  BY NoRequestNoCall DEF ReadRequest
<1>2. now \in 0 .. MaxTime /\ now \in Nat /\ MaxLatency \in Nat
  BY ServerAssumption DEF IInv, TypeOK
<1>3. x \in Active
  <2>1. NoAnswer \in Answer /\ "admit" \in Stage /\ A!NoNpm \in Npm \cup {A!NoNpm}
    BY DEF Answer, Stage
  <2> QED BY <1>2, <2>1 DEF Active
<1>4. NoAnswer # Plan
  BY DEF NoAnswer, Plan
<1>5. Sound(x, P!NoCall)
  <2>1. Pace(x, P!NoCall)
    BY <1>2 DEF Pace
  <2>2. Quiet(x, P!NoCall) /\ Door(x, P!NoCall) /\ Blame(x, P!NoCall)
    BY <1>4 DEF Quiet, Door, Blame, P!NoCall
  <2>3. Waited(x, P!NoCall)
    BY DEF Waited
  <2> QED BY <2>1, <2>2, <2>3 DEF Sound
<1>6. call' = [call EXCEPT ![c] = P!NoCall] /\ conn' = [conn EXCEPT ![c] = x] /\ Still
  BY <1>1, CallTyped DEF ReadRequest, IInv
<1>7. Step(c, x, P!NoCall)
  BY <1>3, <1>5, <1>6 DEF Step
<1> QED BY <1>6, <1>7, StillKeeps

\* A request in its handler, with the types a step starts from.
LEMMA AtTyped ==
    ASSUME IInv, NEW c \in Conn, NEW stage, At(c, stage)
    PROVE  /\ conn[c] \in Active /\ State(c) = "active" /\ conn[c].at = stage
           /\ conn[c].begun \in Nat /\ conn[c].since \in Nat /\ now \in Nat
           /\ conn[c].npm \in Npm \cup {A!NoNpm} /\ conn[c].answer \in Answer
           /\ MaxLatency \in Nat /\ ClientTimeout \in Nat
<1>1. State(c) = "active" /\ conn[c].at = stage
  BY DEF At
<1>2. conn[c] \in Active /\ now \in Nat
  BY <1>1, ConnKinds DEF IInv, TypeOK
<1>3. MaxLatency \in Nat /\ ClientTimeout \in Nat
  BY ServerAssumption
<1>4. /\ conn[c].begun \in Nat /\ conn[c].since \in Nat
      /\ conn[c].npm \in Npm \cup {A!NoNpm} /\ conn[c].answer \in Answer
  BY <1>2 DEF Active
<1> QED BY <1>1, <1>2, <1>3, <1>4

\* A stage of the handler that makes no call follows another.
LEMMA MovedSound ==
    ASSUME IInv, NEW c \in Conn, NEW stage, At(c, stage),
           \/ stage = "admit"
           \/ stage = "lookup",
           NEW at \in {"lookup", "answer"}, stage = "admit" \/ at # "lookup",
           NEW npm \in Npm \cup {A!NoNpm}, NEW answer \in Answer,
           npm # A!NoNpm => \E t \in issued : /\ t.npm = npm
                                       /\ A!IssuedAt(t) <= conn[c].begun
                                       /\ conn[c].begun < t.exp,
           answer = Plan => npm \in Student
    PROVE  /\ Moved(c, at, npm, answer) \in Active
           /\ Sound(Moved(c, at, npm, answer), call[c])
<1> DEFINE x == Moved(c, at, npm, answer)
<1>1. /\ x.state = "active" /\ x.at = at /\ x.begun = conn[c].begun
      /\ x.since = now /\ x.npm = npm /\ x.answer = answer
  BY DEF Moved
<1>2. x \in Active
  BY MovedTyped, AtTyped DEF IInv, Stage
<1>3. /\ conn[c].state = "active" /\ conn[c].at = stage
      /\ conn[c].begun \in Nat /\ conn[c].since \in Nat /\ now \in Nat
      /\ MaxLatency \in Nat
  BY AtTyped DEF State
<1>4. call[c].stage = "none"
  BY <1>3 DEF IInv, Sound, Quiet
<1> HIDE DEF x
<1>5. Quiet(x, call[c])
  BY <1>1, <1>4 DEF Quiet
<1>6. Door(x, call[c])
  BY <1>1, <1>4 DEF Door
<1>7. Blame(x, call[c])
  BY <1>4 DEF Blame
<1>8. Pace(x, call[c])
  <2>1. Pace(conn[c], call[c])
    BY DEF IInv, Sound
  <2>2. /\ conn[c].begun <= conn[c].since /\ conn[c].since <= now
        /\ now - conn[c].since <= MaxLatency
        /\ stage = "admit" => conn[c].since = conn[c].begun
        /\ stage = "lookup" => conn[c].since - conn[c].begun <= MaxLatency
    BY <1>3, <2>1 DEF Pace
  <2>3. /\ at = "lookup" => now - conn[c].begun <= MaxLatency
        /\ now - conn[c].begun <= 2 * MaxLatency
        /\ conn[c].begun <= now
    <3>1. CASE stage = "admit"
      BY <1>3, <2>2, <3>1
    <3>2. CASE stage = "lookup"
      BY <1>3, <2>2, <3>2
    <3> QED BY <3>1, <3>2
  <2>4. ~ Asked(call[c])
    BY <1>4 DEF Asked
  <2>5. x.at # "process" /\ x.at # "admit" /\ x.at # "store"
    BY <1>1
  <2>6. now - now <= MaxLatency
    BY <1>3
  <2> QED BY <1>1, <1>3, <2>3, <2>4, <2>5, <2>6 DEF Pace
<1>9. Waited(x, call[c])
  BY <1>1, <1>4 DEF Waited, TimedOut
<1> QED BY <1>2, <1>5, <1>6, <1>7, <1>8, <1>9 DEF Sound, x

\* What the door lets a request do.
LEMMA AdmitKeeps ==
    ASSUME IInv, NEW c \in Conn, Admit(c)
    PROVE  IInv'
<1>1. At(c, "admit") /\ State(c) = "active" /\ UNCHANGED <<now, proc, env, call>>
  BY DEF Admit, At
<1>2. PICK q \in A!Request(Held(c)), limited \in BOOLEAN :
        Refuse(c, q, limited) \/ Cek(c, q) \/ Issue(c, q) \/ GetKRS(c, q, limited)
  BY DEF Admit
<1>3. TypeOK /\ Sound(conn[c], call[c]) /\ now \in Nat /\ TokenLife \in Nat
  BY ServerAssumption DEF IInv, TypeOK
<1>4. /\ conn[c].npm \in Npm \cup {A!NoNpm} /\ conn[c].answer \in Answer
      /\ conn[c].begun \in Nat /\ conn[c].since \in Nat
  BY <1>1, AtTyped
<1>5. /\ Brief \in Answer /\ Brief # Plan /\ conn[c].answer # Plan
      /\ conn[c].npm # A!NoNpm =>
             \E t \in issued : /\ t.npm = conn[c].npm
                             /\ A!IssuedAt(t) <= conn[c].begun
                             /\ conn[c].begun < t.exp
  <2>1. Brief \in Answer /\ Brief # Plan
    BY DEF Answer, Brief, Plan
  <2>2. conn[c].answer # Plan
    BY <1>1, <1>3 DEF Sound, Quiet, At, State
  <2>3. Door(conn[c], call[c]) /\ conn[c].state = "active"
    BY <1>1, <1>3 DEF Sound, State
  <2> QED BY <2>1, <2>2, <2>3, Zenon DEF Door
<1>6. ASSUME NEW x, x \in Active, Sound(x, call[c]),
             conn' = [conn EXCEPT ![c] = x], issued \subseteq issued', A!TypeOK'
      PROVE  IInv'
  <2>1. Step(c, x, call[c])
    BY <1>1, <1>3, <1>6, CallTyped DEF Step
  <2> QED BY <1>1, <1>6, <2>1, StepKeeps
<1>7. ASSUME AnswerWith(c, Brief), issued \subseteq issued', A!TypeOK'
      PROVE  IInv'
  <2> DEFINE x == Moved(c, "answer", conn[c].npm, Brief)
  <2>1. x \in Active /\ Sound(x, call[c])
    BY <1>1, <1>4, <1>5, MovedSound
  <2>2. conn' = [conn EXCEPT ![c] = x]
    BY <1>1, <1>3, <1>7, AnswerMoves
  <2> QED BY <1>6, <1>7, <2>1, <2>2
<1>8. A!TypeOK /\ (issued' = issued => A!TypeOK')
  BY <1>3 DEF TypeOK, A!TypeOK
<1>9. CASE Refuse(c, q, limited) \/ Cek(c, q)
  BY <1>7, <1>8, <1>9 DEF Refuse, Cek
<1>10. CASE Issue(c, q)
  <2>1. A!GenerateToken(q) /\ AnswerWith(c, Brief)
    BY <1>10 DEF Issue
  <2>2. q.npm \in Npm
    BY <2>1, ServerAssumption DEF A!GenerateToken, A!Admits, A!ValidateNIS
  <2>3. A!Signed(q.npm) \in A!Token
    BY <1>3, <2>2 DEF A!Signed, A!Token
  <2>4. issued' = issued \cup {A!Signed(q.npm)}
    BY <2>1 DEF A!GenerateToken
  <2>5. A!TypeOK'
    BY <1>8, <2>3, <2>4 DEF A!TypeOK
  <2> QED BY <1>7, <2>1, <2>4, <2>5
<1>11. CASE GetKRS(c, q, limited)
  <2>1. /\ q.token \in Held(c) /\ now < q.token.exp /\ q.token.npm # A!NoNpm
        /\ conn' = [conn EXCEPT ![c] = Moved(c, "lookup", q.token.npm, conn[c].answer)]
    BY <1>1, <1>3, <1>11, GetKRSMoves
  <2>2. q.token \in issued /\ A!IssuedAt(q.token) <= conn[c].begun
    BY <2>1 DEF Held
  <2>3. q.token.npm \in Npm \cup {A!NoNpm} /\ q.token.exp \in Nat
    BY <1>8, <2>2 DEF A!TypeOK, A!Token
  <2>4. conn[c].begun < q.token.exp
    <3>1. Pace(conn[c], call[c]) /\ conn[c].state = "active"
      BY <1>1, <1>3 DEF Sound, State
    <3>2. conn[c].begun <= conn[c].since /\ conn[c].since <= now
      BY <3>1 DEF Pace
    <3> QED BY <1>3, <1>4, <2>1, <2>3, <3>2
  <2>5. \E t \in issued : /\ t.npm = q.token.npm
                          /\ A!IssuedAt(t) <= conn[c].begun
                          /\ conn[c].begun < t.exp
    BY <2>2, <2>4
  <2> DEFINE x == Moved(c, "lookup", q.token.npm, conn[c].answer)
  <2>6. x \in Active /\ Sound(x, call[c])
    BY <1>1, <1>4, <1>5, <2>3, <2>5, MovedSound
  <2> QED BY <1>6, <1>8, <1>11, <2>1, <2>6 DEF GetKRS
<1> QED BY <1>2, <1>9, <1>10, <1>11

\* Without a download the answer is a plan only for a well-formed number.
LEMMA LookupKeeps ==
    ASSUME IInv, NEW c \in Conn, Malformed(c) \/ Hit(c)
    PROVE  IInv'
<1>1. At(c, "lookup") /\ State(c) = "active" /\ Still /\ UNCHANGED call
  BY DEF Malformed, Hit, At
<1>2. PICK answer \in {Brief, Plan} :
        AnswerWith(c, answer) /\ (answer = Plan => conn[c].npm \in Student)
  <2>1. Brief # Plan
    BY DEF Brief, Plan
  <2> QED BY <2>1 DEF Malformed, Hit, A!ValidateNIS
<1>3. answer \in Answer
  BY DEF Answer
<1>4. conn[c].npm \in Npm \cup {A!NoNpm}
  BY <1>1, AtTyped
<1>5. conn[c].npm # A!NoNpm =>
             \E t \in issued : /\ t.npm = conn[c].npm
                             /\ A!IssuedAt(t) <= conn[c].begun
                             /\ conn[c].begun < t.exp
  <2>1. Door(conn[c], call[c]) /\ conn[c].state = "active"
    BY <1>1 DEF IInv, Sound, State
  <2> QED BY <2>1, Zenon DEF Door
<1> DEFINE x == Moved(c, "answer", conn[c].npm, answer)
<1>6. x \in Active /\ Sound(x, call[c])
  BY <1>1, <1>2, <1>3, <1>4, <1>5, MovedSound
<1>7. conn' = [conn EXCEPT ![c] = x]
  BY <1>1, <1>2, AnswerMoves DEF IInv
<1>8. Step(c, x, call[c])
  BY <1>1, <1>6, <1>7, CallTyped DEF Step, IInv
<1> QED BY <1>1, <1>8, StillKeeps

\* A miss sends the request to the campus server, or is refused at once.
LEMMA MissKeeps ==
    ASSUME IInv, NEW c \in Conn, Miss(c)
    PROVE  IInv'
<1> DEFINE x == Moved(c, "process", conn[c].npm, conn[c].answer)
           w == [stage |-> "waiting", asked |-> now, since |-> now]
           r == End("config", Refused)
<1>1. /\ At(c, "lookup") /\ State(c) = "active" /\ conn[c].state = "active" /\ Still
      /\ conn[c].npm \in Student
      /\ P!Begin(c, env.PDFBaseURL, AllowedHosts) /\ Advance(c, "process")
  BY DEF Miss, At, A!ValidateNIS, State
<1>2. /\ conn[c].npm \in Npm \cup {A!NoNpm} /\ conn[c].answer \in Answer
      /\ conn[c].begun \in Nat /\ conn[c].since \in Nat /\ now \in Nat
      /\ MaxLatency \in Nat /\ ClientTimeout \in Nat
  BY <1>1, AtTyped
<1>3. x \in Active /\ conn' = [conn EXCEPT ![c] = x]
  BY <1>1, <1>2, MovedTyped, AdvanceMoves DEF IInv, Stage
<1>4. \/ call' = [call EXCEPT ![c] = w]
      \/ Refused # <<>> /\ call' = [call EXCEPT ![c] = r]
  BY <1>1 DEF P!Begin, P!Fail, Refused, End
<1>5. w \in P!Working
  BY <1>2 DEF P!Working, P!Download
<1>6. Refused # <<>> => r \in P!Failed
  <2>1. Refused # <<>> => Refused \in P!PartError
    BY Zenon DEF Refused, P!Refusal, P!PartError
  <2>2. "config" \in P!Cause
    BY DEF P!Cause
  <2> QED BY <2>1, <2>2 DEF End, P!Failed
<1>7. /\ x.state = "active" /\ x.at = "process" /\ x.begun = conn[c].begun
      /\ x.since = now /\ x.npm = conn[c].npm /\ x.answer = conn[c].answer
  BY DEF Moved
<1>8. w.stage = "waiting" /\ w.asked = now /\ r.stage = "failed" /\ r.cause = "config"
  BY DEF End
<1>9. /\ conn[c].begun <= now /\ now - conn[c].begun <= 2 * MaxLatency
      /\ now - now <= ClientTimeout
  <2>1. Pace(conn[c], call[c]) /\ conn[c].at = "lookup"
    BY <1>1 DEF IInv, Sound, At
  <2>2. /\ conn[c].begun <= conn[c].since /\ conn[c].since <= now
        /\ now - conn[c].since <= MaxLatency
        /\ conn[c].since - conn[c].begun <= MaxLatency
    BY <1>1, <2>1 DEF Pace
  <2> QED BY <1>2, <2>2
<1>10. Door(conn[c], call[c])
  BY DEF IInv, Sound
<1> HIDE DEF x, w, r
<1>11. ASSUME NEW y, y.stage # "none"
       PROVE  Quiet(x, y) /\ Door(x, y)
  BY <1>1, <1>7, <1>10, <1>11, Zenon DEF Quiet, Door
<1>12. Pace(x, w)
  <2>1. w.stage \in P!Download /\ w.stage # "extracting" /\ w.stage # "parsing"
        /\ w.stage \notin {"failed", "parsed"}
    BY <1>8 DEF P!Download
  <2> QED BY <1>2, <1>7, <1>8, <1>9, <2>1 DEF Pace
<1>13. Pace(x, r)
  <2>1. ~ Asked(r)
    BY <1>8 DEF Asked
  <2>2. r.stage \notin P!Download /\ r.stage # "extracting" /\ r.stage # "parsing"
    BY <1>8 DEF P!Download
  <2> QED BY <1>2, <1>7, <1>8, <1>9, <2>1, <2>2 DEF Pace
<1>14. CASE call' = [call EXCEPT ![c] = w]
  <2>1. Blame(x, w) /\ Waited(x, w)
    BY <1>7, <1>8, <1>9 DEF Blame, Waited, TimedOut
  <2>2. Sound(x, w)
    BY <1>8, <1>11, <1>12, <2>1 DEF Sound
  <2>3. Step(c, x, w)
    BY <1>3, <1>5, <1>14, <2>2 DEF Step
  <2> QED BY <1>1, <2>3, StillKeeps
<1>15. CASE Refused # <<>> /\ call' = [call EXCEPT ![c] = r]
  <2>1. Blame(x, r) /\ Waited(x, r)
    BY <1>7, <1>8, <1>15 DEF Blame, Waited, TimedOut, P!Download, r
  <2>2. Sound(x, r)
    BY <1>8, <1>11, <1>13, <2>1 DEF Sound
  <2>3. Step(c, x, r)
    BY <1>3, <1>6, <1>15, <2>2 DEF Step
  <2> QED BY <1>1, <2>3, StillKeeps
<1> QED BY <1>4, <1>14, <1>15

\* A step inside of ProcessKRSFromURL leaves the connection as it is.
LEMMA PipelineKeeps ==
    ASSUME IInv, NEW c \in Conn, At(c, "process"), UNCHANGED conn, Still,
           P!Campus(c) \/ P!Cancel(c) \/ P!Work(c)
    PROVE  IInv'
<1>1. PICK y : /\ call' = [call EXCEPT ![c] = y]
               /\ Continues(call[c], y)
  BY PipelineContinues DEF IInv, TypeOK
<1> DEFINE x == conn[c]
           w == call[c]
<1>2. w \in P!Working
  BY PipelineContinues DEF IInv, TypeOK
<1>3. /\ x \in Active /\ x.state = "active" /\ x.at = "process"
      /\ x.begun \in Nat /\ x.since \in Nat /\ now \in Nat
      /\ MaxLatency \in Nat /\ ClientTimeout \in Nat
  BY AtTyped DEF State
<1>4. y \in {P!Parsed} \cup P!Working \cup P!Failed
  BY <1>1, <1>2, <1>3, ContinuesTyped
<1>5. Quiet(x, w) /\ Door(x, w) /\ Pace(x, w) /\ Waited(x, w)
  BY DEF IInv, Sound
<1>6. w.asked \in Nat /\ w.since \in Nat
  BY <1>2 DEF P!Working
<1>7. /\ w.stage \in P!Download =>
           w.asked - x.begun <= 2 * MaxLatency /\ now - w.asked <= ClientTimeout
      /\ w.stage = "extracting" =>
           w.since - x.begun <= 2 * MaxLatency + ClientTimeout /\ now - w.since <= MaxLatency
      /\ w.stage = "parsing" =>
           w.since - x.begun <= 3 * MaxLatency + ClientTimeout /\ now - w.since <= MaxLatency
      /\ x.begun <= x.since /\ x.since <= now
  BY <1>3, <1>5 DEF Pace
<1>8. \A z \in Ends : z.stage = "failed" /\ z.cause # "config"
  BY DEF Ends, End
<1>9. y.stage # "none"
  BY <1>1, <1>8 DEF Continues, P!Parsed
<1>10. w.stage # "none"
  BY <1>2 DEF P!Working, P!Download, P!Local
<1> HIDE DEF x, w
<1>11. Quiet(x, y)
  BY <1>3, <1>9 DEF Quiet
<1>12. Door(x, y)
  BY <1>3, <1>5, <1>10, Zenon DEF Door
<1>13. Blame(x, y)
  <2>1. y.stage = "failed" => y \in Ends
    BY <1>1 DEF Continues, P!Parsed, w
  <2> QED BY <1>3, <2>1 DEF Blame
<1>14. Pace(x, y)
  <2>1. w.stage \in P!Download \cup P!Local => now - x.begun <= 4 * MaxLatency + ClientTimeout
    <3>1. CASE w.stage \in P!Download
      BY <1>3, <1>6, <1>7, <3>1
    <3>2. CASE w.stage = "extracting"
      BY <1>3, <1>6, <1>7, <3>2
    <3>3. CASE w.stage = "parsing"
      BY <1>3, <1>6, <1>7, <3>3
    <3> QED BY <3>1, <3>2, <3>3 DEF P!Local
  <2>2. w.stage \in P!Download \cup P!Local
    BY <1>2 DEF P!Working, w
  <2>3. CASE y \in Ends \/ y = P!Parsed
    <3>1. y.stage \in {"failed", "parsed"} /\ Asked(y)
      BY <1>8, <2>3 DEF P!Parsed, Asked
    <3>2. /\ y.stage \notin P!Download /\ y.stage # "extracting" /\ y.stage # "parsing"
      BY <3>1 DEF P!Download
    <3> QED BY <1>3, <1>7, <2>1, <2>2, <3>1, <3>2 DEF Pace
  <2>4. CASE w.stage = "waiting" /\ y = [stage |-> "reading", asked |-> w.asked, since |-> now]
    <3>1. w.stage \in P!Download /\ y.stage \in P!Download /\ y.asked = w.asked
          /\ y.stage = "reading"
      BY <2>4 DEF P!Download
    <3> QED BY <1>3, <1>7, <3>1 DEF Pace
  <2>5. CASE w.stage = "reading" /\ y = [stage |-> "extracting", asked |-> w.asked, since |-> now]
    <3>1. w.stage \in P!Download /\ y.stage = "extracting" /\ y.since = now
          /\ y.stage \notin P!Download
      BY <2>5 DEF P!Download
    <3>2. now - x.begun <= 2 * MaxLatency + ClientTimeout /\ now - now <= MaxLatency
      BY <1>3, <1>6, <1>7, <3>1
    <3> QED BY <1>3, <1>7, <3>1, <3>2 DEF Pace
  <2>6. CASE w.stage = "extracting" /\ y = [stage |-> "parsing", asked |-> w.asked, since |-> now]
    <3>1. y.stage = "parsing" /\ y.since = now /\ y.stage \notin P!Download
      BY <2>6 DEF P!Download
    <3>2. now - x.begun <= 3 * MaxLatency + ClientTimeout /\ now - now <= MaxLatency
      BY <1>3, <1>6, <1>7, <2>6
    <3> QED BY <1>3, <1>7, <3>1, <3>2 DEF Pace
  <2> QED BY <1>1, <2>3, <2>4, <2>5, <2>6 DEF Continues, w
<1>15. Waited(x, y)
  <2>1. /\ y.stage \in P!Download => w.stage \in P!Download /\ y.asked = w.asked
        /\ TimedOut(y) => w.stage \in P!Download /\ now - w.asked >= ClientTimeout
    BY <1>1, <1>8 DEF Continues, TimedOut, P!Parsed, P!Download, w
  <2>2. w.stage \in P!Download => x.begun <= w.asked
    BY <1>3, <1>5 DEF Waited
  <2>3. TimedOut(y) => now - x.begun >= ClientTimeout
    BY <1>3, <1>6, <2>1, <2>2
  <2> QED BY <1>3, <2>1, <2>2, <2>3 DEF Waited
<1>16. Sound(x, y)
  BY <1>11, <1>12, <1>13, <1>14, <1>15 DEF Sound
<1>17. conn' = [conn EXCEPT ![c] = x]
  BY CallTyped DEF IInv, x
<1>18. Step(c, x, y)
  BY <1>1, <1>3, <1>4, <1>16, <1>17 DEF Step
<1> QED BY <1>18, StillKeeps

\* The handler goes on with what ProcessKRSFromURL returned.
LEMMA ReturnedKeeps ==
    ASSUME IInv, NEW c \in Conn, Fails(c) \/ Succeeds(c) \/ Stored(c)
    PROVE  IInv'
<1> DEFINE w == call[c]
<1>1. PICK stage \in {"process", "store"} : At(c, stage)
  BY DEF Fails, Succeeds, Stored
<1>2. /\ State(c) = "active" /\ conn[c].state = "active" /\ conn[c].at = stage
      /\ Still /\ UNCHANGED call
  BY <1>1 DEF Fails, Succeeds, Stored, At, State
<1>3. /\ conn[c].npm \in Npm \cup {A!NoNpm} /\ conn[c].answer \in Answer
      /\ conn[c].begun \in Nat /\ conn[c].since \in Nat /\ now \in Nat
      /\ MaxLatency \in Nat /\ ClientTimeout \in Nat
  BY <1>1, AtTyped
<1>4. /\ Door(conn[c], w) /\ Pace(conn[c], w) /\ Quiet(conn[c], w) /\ Blame(conn[c], w)
      /\ Waited(conn[c], w)
  BY DEF IInv, Sound
<1>5. ASSUME NEW at \in {"store", "answer"}, NEW answer \in Answer,
             conn' = [conn EXCEPT ![c] = Moved(c, at, conn[c].npm, answer)],
             w.stage \in {"failed", "parsed"},
             w.stage # "parsed" => at # "store",
             w.stage = "failed" => stage = "process",
             at = "store" => stage = "process",
             w.stage = "failed" => answer = MapErrorToHTTPStatus(w.error)
      PROVE  IInv'
  <2> DEFINE x == Moved(c, at, conn[c].npm, answer)
  <2>1. /\ x.state = "active" /\ x.at = at /\ x.begun = conn[c].begun
        /\ x.since = now /\ x.npm = conn[c].npm /\ x.answer = answer
    BY DEF Moved
  <2>2. x \in Active
    BY <1>2, <1>3, MovedTyped DEF IInv, Stage
  <2> HIDE DEF x
  <2>3. Quiet(x, w)
    BY <1>5, <2>1 DEF Quiet
  <2>4. Door(x, w)
    BY <1>2, <1>4, <1>5, <2>1, Zenon DEF Door
  <2>5. Blame(x, w)
    BY <1>4, <1>5, <2>1, Zenon DEF Blame
  <2>6. Pace(x, w)
    <3>1. conn[c].begun <= conn[c].since /\ conn[c].since <= now
      BY <1>2, <1>4 DEF Pace
    <3>2. CASE stage = "process"
      <4>1. now - conn[c].begun <=
              IF Asked(w) THEN 4 * MaxLatency + ClientTimeout ELSE 2 * MaxLatency
        BY <1>2, <1>4, <1>5, <3>2 DEF Pace
      <4>2. w.stage = "parsed" => Asked(w)
        BY DEF Asked
      <4> QED BY <1>3, <1>5, <2>1, <3>1, <4>1, <4>2 DEF Pace
    <3>3. CASE stage = "store"
      <4>1. w.stage = "parsed" /\ Asked(w)
        BY <1>5, <3>3 DEF Asked
      <4>2. /\ conn[c].since - conn[c].begun <= 4 * MaxLatency + ClientTimeout
            /\ now - conn[c].since <= MaxLatency
        BY <1>2, <1>4, <3>3 DEF Pace
      <4> QED BY <1>3, <1>5, <2>1, <3>1, <3>3, <4>1, <4>2 DEF Pace
    <3> QED BY <3>2, <3>3
  <2>7. Waited(x, w)
    <3>1. TimedOut(w) => now - conn[c].begun >= ClientTimeout
      BY <1>2, <1>4, <1>5 DEF Waited, TimedOut
    <3> QED BY <2>1, <3>1 DEF Waited
  <2>8. Sound(x, w)
    BY <2>3, <2>4, <2>5, <2>6, <2>7 DEF Sound
  <2>9. Step(c, x, w)
    BY <1>2, <1>5, <2>2, <2>8, CallTyped DEF Step, IInv, x
  <2> QED BY <1>2, <2>9, StillKeeps
<1>6. CASE Fails(c)
  <2>1. At(c, "process") /\ w.stage = "failed" /\ AnswerWith(c, MapErrorToHTTPStatus(w.error))
    BY <1>6 DEF Fails, P!In
  <2>2. stage = "process"
    BY <1>2, <2>1 DEF At
  <2>3. MapErrorToHTTPStatus(w.error) \in Answer
    BY AnswerTyped DEF Answer
  <2>4. conn' = [conn EXCEPT ![c] =
                    Moved(c, "answer", conn[c].npm, MapErrorToHTTPStatus(w.error))]
    BY <1>2, <2>1, AnswerMoves DEF IInv
  <2> QED BY <1>5, <2>1, <2>2, <2>3, <2>4
<1>7. CASE Succeeds(c)
  <2>1. At(c, "process") /\ w.stage = "parsed" /\ Advance(c, "store")
    BY <1>7 DEF Succeeds, P!In
  <2>2. stage = "process"
    BY <1>2, <2>1 DEF At
  <2>3. conn' = [conn EXCEPT ![c] = Moved(c, "store", conn[c].npm, conn[c].answer)]
    BY <1>2, <2>1, AdvanceMoves DEF IInv
  <2> QED BY <1>3, <1>5, <2>1, <2>2, <2>3
<1>8. CASE Stored(c)
  <2>1. At(c, "store") /\ AnswerWith(c, Plan)
    BY <1>8 DEF Stored
  <2>2. stage = "store"
    BY <1>2, <2>1 DEF At
  <2>3. w.stage = "parsed"
    BY <1>2, <1>4, <2>2 DEF Quiet
  <2>4. Plan \in Answer
    BY DEF Answer
  <2>5. conn' = [conn EXCEPT ![c] = Moved(c, "answer", conn[c].npm, Plan)]
    BY <1>2, <2>1, AnswerMoves DEF IInv
  <2> QED BY <1>5, <2>3, <2>4, <2>5
<1> QED BY <1>6, <1>7, <1>8

\* A client that hangs up.
LEMMA HangUpKeeps ==
    ASSUME IInv, NEW c \in Conn, HangUp(c)
    PROVE  IInv'
<1>1. Still
  BY DEF HangUp
<1>2. CASE State(c) \in {"new", "idle", "reading"} /\ Close(c) /\ UNCHANGED call
  BY <1>1, <1>2, BecomeKeeps
<1>3. CASE At(c, "process") /\ P!Cancel(c) /\ UNCHANGED conn
  BY <1>1, <1>3, PipelineKeeps
<1>4. CASE At(c, "answer") /\ Free(c)
  BY <1>1, <1>4, BecomeKeeps DEF Free
<1> QED BY <1>2, <1>3, <1>4 DEF HangUp

\* All steps of a connection.
LEMMA ConnKeeps ==
    ASSUME IInv, NEW c \in Conn,
           Accept(c) \/ NextRequest(c) \/ ReadRequest(c) \/ HangUp(c) \/ Handle(c) \/ Fetched(c)
    PROVE  IInv'
<1>1. CASE Fetched(c) \/ Fetching(c)
  <2>1. At(c, "process") /\ UNCHANGED conn /\ Still /\ (P!Campus(c) \/ P!Work(c))
    BY <1>1 DEF Fetched, Fetching, Still
  <2> QED BY <2>1, PipelineKeeps
<1> QED BY <1>1, AcceptKeeps, ReadRequestKeeps, HangUpKeeps, AdmitKeeps, LookupKeeps,
           MissKeeps, ReturnedKeeps, EndKeeps DEF Handle

-----------------------------------------------------------------------------
(* The steps of the process and of the clock keep the invariant. *)

\* Every connection stays as it is or is closed, its handler gone.
LEMMA AllKeep ==
    ASSUME IInv, UNCHANGED <<now, env>>, proc' \in Process,
           issued \subseteq issued', A!TypeOK',
           conn' = [c \in Conn |-> conn'[c]], call' = [c \in Conn |-> call'[c]],
           \A c \in Conn : \/ conn'[c] = conn[c] /\ call'[c] = call[c]
                           \/ conn'[c] = Closed /\ call'[c] = P!NoCall
    PROVE  IInv'
<1>1. ASSUME NEW c \in Conn
      PROVE  /\ conn'[c] \in {Closed} \cup Silent \cup Active
             /\ call'[c] \in {P!NoCall, P!Parsed} \cup P!Working \cup P!Failed
  BY CallTyped DEF IInv
<1>2. conn' \in [Conn -> {Closed} \cup Silent \cup Active]
  BY <1>1
<1>3. call' \in [Conn -> {P!NoCall, P!Parsed} \cup P!Working \cup P!Failed]
  BY <1>1
<1>4. TypeOK'
  <2>1. P!TypeOK'
    BY <1>3 DEF P!TypeOK
  <2> QED BY <1>2, <2>1 DEF IInv, TypeOK
<1>5. ASSUME NEW c \in Conn
      PROVE  Sound(conn[c], call[c])'
  <2>1. PICK u, v : u = conn'[c] /\ v = call'[c]
    OBVIOUS
  <2>2. Sound(u, v)
    <3>1. CASE conn'[c] = conn[c] /\ call'[c] = call[c]
      BY <2>1, <3>1 DEF IInv
    <3>2. CASE conn'[c] = Closed /\ call'[c] = P!NoCall
      BY <2>1, <3>2, SilentSound
    <3> QED BY <3>1, <3>2
  <2>3. Sound(u, v)'
    BY <2>2, SoundStays
  <2> QED BY <2>1, <2>3
<1> QED BY <1>4, <1>5 DEF IInv

\* Shutdown closes only connections that carry no request.
LEMMA CloseIdleKeeps ==
    ASSUME IInv, CloseIdleConns, proc' \in Process, UNCHANGED <<now, env, call, issued>>
    PROVE  IInv'
<1>1. A!TypeOK'
  BY DEF IInv, TypeOK, A!TypeOK
<1>2. call' = [c \in Conn |-> call'[c]]
  BY DEF IInv, TypeOK, P!TypeOK
<1>3. conn' = [c \in Conn |-> conn'[c]]
  BY DEF CloseIdleConns
<1>4. ASSUME NEW c \in Conn
      PROVE  \/ conn'[c] = conn[c] /\ call'[c] = call[c]
             \/ conn'[c] = Closed /\ call'[c] = P!NoCall
  <2>1. CASE ShutdownCloses(c)
    <3>1. State(c) # "active"
      BY <2>1 DEF ShutdownCloses
    <3>2. call[c] = P!NoCall
      BY <3>1, NoRequestNoCall
    <3> QED BY <2>1, <3>2 DEF CloseIdleConns
  <2>2. CASE ~ ShutdownCloses(c)
    BY <2>2 DEF CloseIdleConns
  <2> QED BY <2>1, <2>2
<1> QED BY <1>1, <1>2, <1>3, <1>4, AllKeep

\* The end of the process cuts everything.
LEMMA ExitKeeps ==
    ASSUME IInv, Exit
    PROVE  IInv'
<1>1. A!TypeOK' /\ proc' \in Process
  BY DEF IInv, TypeOK, A!TypeOK, Exit, Enter, Process
<1>2. /\ conn' = [c \in Conn |-> Closed] /\ call' = [c \in Conn |-> P!NoCall]
      /\ UNCHANGED <<now, env, issued>>
  BY DEF Exit
<1>3. conn' = [c \in Conn |-> conn'[c]] /\ call' = [c \in Conn |-> call'[c]]
  BY <1>2
<1>4. \A c \in Conn : conn'[c] = Closed /\ call'[c] = P!NoCall
  BY <1>2
<1> QED BY <1>1, <1>2, <1>3, <1>4, AllKeep

\* All steps of the process, and tokens signed by hand.
LEMMA ProcessKeeps ==
    ASSUME IInv, Main \/ ListenFails \/ Shutdown \/ GenJWT
    PROVE  IInv'
<1>1. ASSUME NEW state \in {"running", "draining", "exited"}, Enter(state)
      PROVE  proc' \in Process
  BY <1>1 DEF IInv, TypeOK, Enter, Process
<1>2. /\ conn = [c \in Conn |-> conn[c]] /\ call = [c \in Conn |-> call[c]]
      /\ proc \in Process /\ A!TypeOK
  BY DEF IInv, TypeOK, P!TypeOK
<1>3. CASE Start
  <2>1. proc' \in Process
    BY <1>1, <1>3 DEF Start
  <2>2. A!TypeOK'
    BY <1>2, <1>3 DEF A!TypeOK, Start
  <2> QED BY <1>2, <1>3, <2>1, <2>2, AllKeep DEF Start
<1>4. CASE ShutdownPolls
  BY <1>2, <1>4, CloseIdleKeeps DEF ShutdownPolls
<1>5. CASE ShutdownDone \/ ShutdownTimesOut \/ ListenFails
  BY <1>5, ExitKeeps DEF ShutdownDone, ShutdownTimesOut, ListenFails
<1>6. CASE Shutdown
  BY <1>1, <1>6, CloseIdleKeeps DEF Shutdown
<1>7. CASE GenJWT
  <2>1. PICK npm \in Npm : issued' = issued \cup {A!Signed(npm)}
    BY <1>7 DEF GenJWT, A!GenJWT
  <2>2. A!Signed(npm) \in A!Token
    <3>1. now \in Nat /\ TokenLife \in Nat
      BY ServerAssumption DEF IInv, TypeOK
    <3> QED BY <3>1 DEF A!Signed, A!Token
  <2>3. A!TypeOK'
    BY <1>2, <2>1, <2>2 DEF A!TypeOK
  <2> QED BY <1>2, <1>7, <2>1, <2>3, AllKeep DEF GenJWT
<1> QED BY <1>3, <1>4, <1>5, <1>6, <1>7 DEF Main

\* While time may pass, nobody is at the end of what a stage may take.
LEMMA TickPaces ==
    ASSUME IInv, Tick, NEW c \in Conn
    PROVE  Pace(conn[c], call[c])'
<1> DEFINE x == conn[c]
           y == call[c]
<1>1. now' = now + 1 /\ x' = x /\ y' = y
  BY DEF Tick
<1> SUFFICES ASSUME x.state = "active"
             PROVE  Pace(x, y)'
  BY <1>1 DEF Pace
<1>2. State(c) = "active" /\ At(c, x.at)
  BY DEF State, At
<1>3. /\ x.begun \in Nat /\ x.since \in Nat /\ now \in Nat
      /\ MaxLatency \in Nat /\ ClientTimeout \in Nat
  BY <1>2, AtTyped
<1>4. Pace(x, y) /\ Quiet(x, y)
  BY DEF IInv, Sound
<1>5. CASE x.at = "process"
  <2>1. P!MayTick(c)
    BY <1>2, <1>5 DEF Tick, MayTick
  <2>2. y.stage \notin {"failed", "parsed"}
    BY <2>1 DEF P!MayTick, P!Returned, P!In
  <2>3. y.stage \in P!Download \cup P!Local
    BY <1>4, <1>5, <2>2, CallKinds DEF IInv, TypeOK, Quiet
  <2>4. y.asked \in Nat /\ y.since \in Nat
    BY <2>3, CallKinds DEF IInv, TypeOK, P!Working
  <2>5. CASE y.stage \in P!Download
    <3>1. now - y.asked < ClientTimeout
      <4>1. ~ (now - y.asked >= ClientTimeout)
        BY <2>1, <2>5 DEF P!MayTick, P!TimedOut
      <4> QED BY <1>3, <2>4, <4>1
    <3>2. /\ y.stage # "extracting" /\ y.stage # "parsing"
          /\ y.stage \notin {"failed", "parsed"}
      BY <2>5 DEF P!Download
    <3> QED BY <1>1, <1>3, <1>4, <1>5, <2>4, <2>5, <3>1, <3>2 DEF Pace
  <2>6. CASE y.stage \in P!Local
    <3>1. now - y.since < MaxLatency
      BY <2>1, <2>6 DEF P!MayTick
    <3>2. y.stage \notin P!Download /\ y.stage \in {"extracting", "parsing"}
      BY <2>6 DEF P!Download, P!Local
    <3> QED BY <1>1, <1>3, <1>4, <1>5, <2>4, <3>1, <3>2 DEF Pace
  <2> QED BY <2>3, <2>5, <2>6
<1>6. CASE x.at # "process"
  <2>1. now - x.since < MaxLatency
    BY <1>2, <1>6 DEF Tick, MayTick, At
  <2> QED BY <1>1, <1>3, <1>4, <1>6, <2>1 DEF Pace, Asked
<1> QED BY <1>5, <1>6

\* Who has waited long enough still has.
LEMMA TickWaits ==
    ASSUME IInv, Tick, NEW c \in Conn
    PROVE  Waited(conn[c], call[c])'
<1> DEFINE x == conn[c]
           y == call[c]
<1>1. now' = now + 1 /\ x' = x /\ y' = y
  BY DEF Tick
<1> SUFFICES ASSUME x.state = "active"
             PROVE  Waited(x, y)'
  BY <1>1 DEF Waited
<1>2. State(c) = "active" /\ At(c, x.at)
  BY DEF State, At
<1>3. x.begun \in Nat /\ now \in Nat /\ ClientTimeout \in Nat
  BY <1>2, AtTyped
<1>4. Waited(x, y)
  BY DEF IInv, Sound
<1>5. now - x.begun >= ClientTimeout => now' - x.begun >= ClientTimeout
  BY <1>1, <1>3
<1>6. TimedOut(y)' <=> TimedOut(y)
  BY <1>1 DEF TimedOut
<1> HIDE DEF x, y
<1> QED BY <1>1, <1>4, <1>5, <1>6 DEF Waited

\* The clock keeps the invariant.
LEMMA TickKeeps ==
    ASSUME IInv, Tick
    PROVE  IInv'
<1>1. /\ UNCHANGED <<proc, env, conn, call, issued>> /\ now' = now + 1 /\ now < MaxTime
  BY DEF Tick
<1>2. now' \in 0 .. MaxTime
  BY <1>1, ServerAssumption DEF IInv, TypeOK
<1>3. TypeOK'
  <2>1. P!TypeOK'
    BY <1>1 DEF IInv, TypeOK, P!TypeOK
  <2>2. A!TypeOK'
    BY <1>1 DEF IInv, TypeOK, A!TypeOK
  <2> QED BY <1>1, <1>2, <2>1, <2>2 DEF IInv, TypeOK
<1>4. ASSUME NEW c \in Conn
      PROVE  Sound(conn[c], call[c])'
  <2>1. Quiet(conn[c], call[c]) /\ Door(conn[c], call[c]) /\ Blame(conn[c], call[c])
    BY DEF IInv, Sound
  <2>2. Quiet(conn[c], call[c])'
    BY <1>1, <2>1 DEF Quiet
  <2>3. Door(conn[c], call[c])'
    BY <1>1, <2>1 DEF Door
  <2>4. Blame(conn[c], call[c])'
    <3>1. Refused' = Refused
      BY <1>1 DEF Refused, AllowedHosts
    <3> QED BY <1>1, <2>1, <3>1 DEF Blame
  <2>5. Pace(conn[c], call[c])'
    BY TickPaces
  <2>6. Waited(conn[c], call[c])'
    BY TickWaits
  <2> QED BY <2>2, <2>3, <2>4, <2>5, <2>6 DEF Sound
<1> QED BY <1>3, <1>4 DEF IInv

-----------------------------------------------------------------------------
(* The theorems. *)

\* It holds of the process that starts.
LEMMA InitIInv == Init => IInv
<1> SUFFICES ASSUME Init
             PROVE  IInv
  OBVIOUS
<1>1. now \in 0 .. MaxTime /\ proc \in Process /\ env \in Environments
  BY ServerAssumption DEF Init, Process
<1>2. conn = [c \in Conn |-> Closed] /\ call = [c \in Conn |-> P!NoCall]
  BY DEF Init, P!Init
<1>3. A!TypeOK
  BY DEF Init, A!Init, A!TypeOK
<1>4. conn \in [Conn -> {Closed} \cup Silent \cup Active] /\ P!TypeOK
  BY <1>2 DEF P!TypeOK
<1>5. \A c \in Conn : Sound(conn[c], call[c])
  BY <1>2, SilentSound
<1> QED BY <1>1, <1>3, <1>4, <1>5 DEF IInv, TypeOK

\* Every step keeps it.
LEMMA StepIInv == IInv /\ [Next]_vars => IInv'
<1> SUFFICES ASSUME IInv, [Next]_vars
             PROVE  IInv'
  OBVIOUS
<1>1. CASE Next
  BY <1>1, ProcessKeeps, TickKeeps, ConnKeeps DEF Next
<1>2. CASE UNCHANGED vars
  <2>1. UNCHANGED <<now, proc, env, conn, call, issued>>
    BY <1>2 DEF vars
  <2>2. /\ conn = [c \in Conn |-> conn[c]] /\ call = [c \in Conn |-> call[c]]
        /\ proc \in Process /\ A!TypeOK
    BY DEF IInv, TypeOK, P!TypeOK
  <2>3. A!TypeOK'
    BY <2>1, <2>2 DEF A!TypeOK
  <2> QED BY <2>1, <2>2, <2>3, AllKeep
<1> QED BY <1>1, <1>2

\* So it always holds.
LEMMA Invariance == Spec => []IInv
BY InitIInv, StepIInv, PTL DEF Spec

\* Everything is of its type in every reachable state.
THEOREM TypeCorrect == Spec => []TypeOK
<1>1. IInv => TypeOK
  BY DEF IInv
<1> QED BY <1>1, Invariance, PTL

\* Entitled: no interleaving of requests, tokens and the clock lets a request of
\* no living token past JWTAuth.Handle, or one of a malformed number further.
THEOREM EntitledAlways == Spec => []Entitled
<1>1. IInv => Entitled
  <2> SUFFICES ASSUME IInv, NEW c \in Conn, State(c) = "active"
               PROVE  /\ conn[c].npm # A!NoNpm =>
                           \E t \in issued : /\ t.npm = conn[c].npm
                                           /\ A!IssuedAt(t) <= conn[c].begun
                                           /\ conn[c].begun < t.exp
                      /\ ~P!In(c, "none") \/ conn[c].answer = Plan => conn[c].npm \in Student
    BY Zenon DEF Entitled
  <2>1. Door(conn[c], call[c]) /\ conn[c].state = "active"
    BY DEF IInv, Sound, State
  <2> QED BY <2>1, Zenon DEF Door, P!In
<1> QED BY <1>1, Invariance, PTL

\* The answer of a failure of the pipeline tells whether it timed out.
LEMMA EndStatus ==
    ASSUME NEW y \in Ends
    PROVE  /\ y.cause = "timeout" => MapErrorToHTTPStatus(y.error).status \in {502, 504}
           /\ y.cause # "timeout" => MapErrorToHTTPStatus(y.error).status \in {500, 502}
<1>1. /\ <<"plain">> \in Chain /\ \A link : Has(<<"plain">>, link) <=> link = "plain"
      /\ <<"canceled">> \in Chain /\ \A link : Has(<<"canceled">>, link) <=> link = "canceled"
      /\ <<"deadline">> \in Chain /\ \A link : Has(<<"deadline">>, link) <=> link = "deadline"
      /\ <<"InvalidResponse">> \in Chain
      /\ \A link : Has(<<"InvalidResponse">>, link) <=> link = "InvalidResponse"
      /\ <<>> \in Chain /\ \A link : ~ Has(<<>>, link)
  <2>1. <<>> \in Chain /\ \A link : ~ Has(<<>>, link)
    BY DEF Chain, Has
  <2> QED BY <2>1, SingleLink
<1>2. /\ P!Plain = <<"plain">> /\ P!Canceled = <<"canceled">>
      /\ P!DeadlineExceeded = <<"deadline">> /\ P!InvalidResponse = <<"InvalidResponse">>
      /\ \A e : P!Wrap(e) = Wrap(e)
      /\ \A e : P!PDFDownloadFailed(e) = PDFDownloadFailed(e)
  BY DEF P!Plain, P!Canceled, P!DeadlineExceeded, P!InvalidResponse, P!Wrap, Wrap,
         P!PDFDownloadFailed, PDFDownloadFailed
<1>3. ASSUME NEW e \in Chain
      PROVE  MapErrorToHTTPStatus(Wrap(PDFDownloadFailed(e))).status = 502
  <2>1. Wrap(PDFDownloadFailed(e)) \in Chain
        /\ Has(Wrap(PDFDownloadFailed(e)), "PDFDownloadFailed")
    BY WrapLinks
  <2> QED BY <2>1, ChainStatus
<1>4. MapErrorToHTTPStatus(Wrap(InvalidResponse)).status = 502
  <2>1. Wrap(<<"InvalidResponse">>) \in Chain
        /\ Has(Wrap(<<"InvalidResponse">>), "InvalidResponse")
    BY <1>1, WrapLinks
  <2> QED BY <2>1, ChainStatus DEF InvalidResponse
<1>5. MapErrorToHTTPStatus(Wrap(Wrap(<<"deadline">>))).status = 504
  <2>1. Wrap(Wrap(<<"deadline">>)) \in Chain
        /\ \A link : Has(Wrap(Wrap(<<"deadline">>)), link) <=> link \in {"wrap", "deadline"}
    BY <1>1, WrapLinks
  <2> QED BY <2>1, ChainStatus
<1>6. ASSUME NEW last \in {"plain", "canceled"}
      PROVE  MapErrorToHTTPStatus(Wrap(Wrap(<<last>>))).status = 500
  <2>1. <<last>> \in Chain /\ \A link : Has(<<last>>, link) <=> link = last
    BY SingleLink
  <2>2. Wrap(Wrap(<<last>>)) \in Chain
        /\ \A link : Has(Wrap(Wrap(<<last>>)), link) <=> link \in {"wrap", last}
    BY <2>1, WrapLinks
  <2> QED BY <2>2, ChainStatus
<1>7. Wrap(<<"plain">>) \in Chain /\ Wrap(<<"canceled">>) \in Chain /\ Wrap(<<"deadline">>) \in Chain
  BY <1>1, WrapLinks
<1> QED BY <1>1, <1>2, <1>3, <1>4, <1>5, <1>6, <1>7 DEF Ends, End, InvalidResponse

\* So does that of the refusal of the URL.
LEMMA RefusalStatus ==
    ASSUME Refused # <<>>
    PROVE  MapErrorToHTTPStatus(End("config", Refused).error).status \in {500, 502}
<1>1. Refused = P!InvalidResponse \/ Refused = P!Wrap(P!Plain)
  BY DEF Refused, P!Refusal
<1>2. End("content", P!InvalidResponse) \in Ends /\ End("plan", P!Wrap(P!Plain)) \in Ends
  BY DEF Ends
<1>3. /\ MapErrorToHTTPStatus(End("content", P!InvalidResponse).error).status \in {500, 502}
      /\ MapErrorToHTTPStatus(End("plan", P!Wrap(P!Plain)).error).status \in {500, 502}
  BY <1>2, EndStatus DEF End
<1> QED BY <1>1, <1>3 DEF End

\* TimeoutTold: through every path of ProcessKRSFromURL and its layers of wrapping
\* MapErrorToHTTPStatus answers with 504 only what has lasted a client timeout, and
\* no download that timed out with an internal error.
THEOREM TimeoutToldAlways == Spec => []TimeoutTold
<1>1. IInv => TimeoutTold
  <2> SUFFICES ASSUME IInv, NEW c \in Conn, At(c, "answer"), P!In(c, "failed")
               PROVE  /\ conn[c].answer.status = 504 =>
                           conn[c].since - conn[c].begun >= ClientTimeout
                      /\ call[c].cause = "timeout" => conn[c].answer # InternalServer
    BY Zenon DEF TimeoutTold
  <2> DEFINE y == call[c]
  <2>1. /\ y \in Ends \/ (Refused # <<>> /\ y = End("config", Refused))
        /\ conn[c].answer = MapErrorToHTTPStatus(y.error)
    BY DEF IInv, Sound, Blame, At, State, P!In
  <2>2. /\ conn[c].answer.status = 504 => y.cause = "timeout"
        /\ y.cause = "timeout" => conn[c].answer.status # 500
    <3>1. CASE y \in Ends
      BY <2>1, <3>1, EndStatus
    <3>2. CASE Refused # <<>> /\ y = End("config", Refused)
      BY <2>1, <3>2, RefusalStatus DEF End
    <3> QED BY <2>1, <3>1, <3>2
  <2>3. y.cause = "timeout" => conn[c].since - conn[c].begun >= ClientTimeout
    BY DEF IInv, Sound, Waited, TimedOut, At, State, P!In
  <2> QED BY <2>2, <2>3 DEF InternalServer
<1> QED BY <1>1, Invariance, PTL

\* DefaultHostAllowed: getAllowedPDFHosts and the check of DownloadPDF agree on
\* what the host of the base URL is.
THEOREM DefaultHostAllowedAlways == Spec => []DefaultHostAllowed
<1>1. IInv => DefaultHostAllowed
  <2> SUFFICES ASSUME IInv, NEW c \in Conn,
                      P!In(c, "failed"), NamedHosts(env.hosts) = {},
                      HasHost(env.PDFBaseURL), env.PDFBaseURL.scheme = "https"
               PROVE  call[c].cause # "config"
    BY DEF DefaultHostAllowed
  <2>1. call[c] \in Ends \/ Refused # <<>>
    BY DEF IInv, Sound, Blame, P!In
  <2>2. AllowedHosts = {env.PDFBaseURL.hostname}
    BY DEF AllowedHosts, getAllowedPDFHosts
  <2>3. Refused = <<>>
    BY <2>2 DEF Refused, P!Refusal, P!HasHost, HasHost
  <2> QED BY <2>1, <2>3 DEF Ends, End
<1> QED BY <1>1, Invariance, PTL

\* TimeBound: the client timeout is spent once, however the download ends.
THEOREM TimeBoundAlways == Spec => []TimeBound
<1>1. IInv => TimeBound
  <2> SUFFICES ASSUME IInv, NEW c \in Conn, State(c) = "active"
               PROVE  now - conn[c].begun <=
                        OwnSteps(c) * MaxLatency
                          + (IF AskedCampus(c) THEN ClientTimeout ELSE 0)
    BY DEF TimeBound
  <2> DEFINE x == conn[c]
             y == call[c]
  <2>1. At(c, x.at) /\ x.state = "active"
    BY DEF At, State
  <2>2. /\ x.begun \in Nat /\ x.since \in Nat /\ now \in Nat
        /\ MaxLatency \in Nat /\ ClientTimeout \in Nat /\ x \in Active
    BY <2>1, AtTyped
  <2>3. Quiet(x, y) /\ Pace(x, y)
    BY DEF IInv, Sound
  <2>4. AskedCampus(c) <=> Asked(y)
    BY DEF AskedCampus, Asked, P!In
  <2>5. x.begun <= x.since /\ x.since <= now
        /\ (x.at # "process" => now - x.since <= MaxLatency)
    BY <2>1, <2>3 DEF Pace
  <2>6. x.at \in Stage
    BY <2>2 DEF Active
  <2>7. CASE x.at = "admit"
    <3>1. y.stage = "none" /\ ~ Asked(y) /\ x.since = x.begun /\ OwnSteps(c) = 1
      BY <2>1, <2>3, <2>7 DEF Quiet, Pace, Asked, OwnSteps, At
    <3> QED BY <2>2, <2>4, <2>5, <2>7, <3>1
  <2>8. CASE x.at = "lookup"
    <3>1. y.stage = "none" /\ ~ Asked(y) /\ x.since - x.begun <= MaxLatency
      BY <2>1, <2>3, <2>8 DEF Quiet, Pace, Asked
    <3>2. OwnSteps(c) = 2
      BY <2>1, <2>8 DEF OwnSteps, At
    <3> QED BY <2>2, <2>4, <2>5, <2>8, <3>1, <3>2
  <2>9. CASE x.at = "process"
    <3>1. y.stage # "none"
      BY <2>1, <2>3, <2>9 DEF Quiet
    <3>2. CASE y.stage \in P!Download
      <4>1. y.asked \in Nat
        BY <3>2, CallKinds DEF IInv, TypeOK, P!Working
      <4>2. Asked(y) /\ OwnSteps(c) = 2
        BY <2>1, <2>9, <3>2 DEF Asked, OwnSteps, At, P!Download
      <4>3. y.asked - x.begun <= 2 * MaxLatency /\ now - y.asked <= ClientTimeout
        BY <2>1, <2>3, <2>9, <3>2 DEF Pace
      <4> QED BY <2>2, <2>4, <4>1, <4>2, <4>3
    <3>3. CASE y.stage \in P!Local
      <4>1. y.since \in Nat /\ y.stage \in {"extracting", "parsing"}
        BY <3>3, CallKinds DEF IInv, TypeOK, P!Working, P!Local
      <4>2. Asked(y) /\ OwnSteps(c) = 4
        BY <2>1, <2>9, <4>1 DEF Asked, OwnSteps, At, P!Download
      <4>3. /\ y.since - x.begun <= 3 * MaxLatency + ClientTimeout
            /\ now - y.since <= MaxLatency
        BY <2>1, <2>2, <2>3, <2>9, <4>1 DEF Pace
      <4> QED BY <2>2, <2>4, <4>1, <4>2, <4>3
    <3>4. CASE y.stage \in {"failed", "parsed"}
      <4>1. OwnSteps(c) = 4
        BY <2>1, <2>9, <3>4 DEF OwnSteps, At, P!Download
      <4>2. now - x.begun <=
              IF Asked(y) THEN 4 * MaxLatency + ClientTimeout ELSE 2 * MaxLatency
        BY <2>1, <2>3, <2>9, <3>4 DEF Pace
      <4> QED BY <2>2, <2>4, <4>1, <4>2
    <3> QED BY <3>1, <3>2, <3>3, <3>4, CallKinds DEF IInv, TypeOK
  <2>10. CASE x.at = "store"
    <3>1. y.stage = "parsed" /\ Asked(y) /\ OwnSteps(c) = 5
      BY <2>1, <2>3, <2>10 DEF Quiet, Asked, OwnSteps, At
    <3>2. x.since - x.begun <= 4 * MaxLatency + ClientTimeout
      BY <2>1, <2>3, <2>10 DEF Pace
    <3> QED BY <2>2, <2>4, <2>5, <2>10, <3>1, <3>2
  <2>11. CASE x.at = "answer"
    <3>1. OwnSteps(c) = IF Asked(y) THEN 6 ELSE 3
      BY <2>1, <2>4, <2>11 DEF OwnSteps, At
    <3>2. x.since - x.begun <=
            IF Asked(y) THEN 5 * MaxLatency + ClientTimeout ELSE 2 * MaxLatency
      BY <2>1, <2>3, <2>11 DEF Pace
    <3> QED BY <2>2, <2>4, <2>5, <2>11, <3>1, <3>2
  <2> QED BY <2>6, <2>7, <2>8, <2>9, <2>10, <2>11 DEF Stage
<1> QED BY <1>1, Invariance, PTL

\* CutOnlyHopeless: because main gives Shutdown as long as WriteTimeout gives an
\* answer, a request it cuts off could not have been answered any more.
THEOREM CutOnlyHopelessAlways == Spec => CutOnlyHopeless
<1> DEFINE Cut == proc.state = "draining" /\ proc'.state = "exited" =>
                    \A c \in Conn :
                      State(c) = "active" /\ conn[c].begun <= proc.since => ~InTime(c)
<1>1. IInv /\ [Next]_vars => Cut
  <2> SUFFICES ASSUME IInv, [Next]_vars,
                      proc.state = "draining", proc'.state = "exited",
                      NEW c \in Conn, State(c) = "active", conn[c].begun <= proc.since
               PROVE  ~InTime(c)
    OBVIOUS
  <2>1. proc' # proc
    OBVIOUS
  <2>2. ShutdownDone \/ ShutdownTimesOut
    <3>1. Next
      BY <2>1 DEF vars
    <3>2. ~ (\E d \in Conn : Accept(d) \/ NextRequest(d) \/ ReadRequest(d) \/ HangUp(d)
                               \/ Handle(d) \/ Fetched(d))
      BY <2>1 DEF Accept, NextRequest, ReadRequest, HangUp, Handle, Fetched, Still,
                  SilenceEnds, Admit, Malformed, Hit, Miss, Fetching, Panic, Fails,
                  Succeeds, Stored, Deliver, Lose
    <3>3. ~ (Start \/ ShutdownPolls \/ ListenFails \/ Shutdown \/ GenJWT \/ Tick)
      BY <2>1 DEF Start, ShutdownPolls, ListenFails, Shutdown, GenJWT, Tick
    <3> QED BY <3>1, <3>2, <3>3 DEF Next, Main
  <2>3. State(c) # "closed"
    OBVIOUS
  <2>4. now - proc.since >= Grace
    BY <2>2, <2>3 DEF ShutdownDone, ShutdownTimesOut
  <2>5. /\ conn[c].begun \in Nat /\ now \in Nat /\ proc.since \in Nat
        /\ WriteTimeout \in Nat /\ Grace \in Nat /\ WriteTimeout <= Grace
    <3>1. conn[c] \in Active
      BY ConnKinds DEF IInv
    <3> QED BY <3>1, ServerAssumption DEF Active, IInv, TypeOK, Process
  <2> QED BY <2>4, <2>5 DEF InTime
<1>2. IInv /\ [Next]_vars => [Cut]_vars
  BY <1>1
<1> QED BY <1>1, Invariance, PTL DEF Spec, CutOnlyHopeless

=============================================================================
