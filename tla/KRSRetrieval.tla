---------------------------- MODULE KRSRetrieval ----------------------------
(***************************************************************************)
(* What a client of GET /api/krs may rely on, without the caches: every    *)
(* answer is the requesting student's own study plan, complete, in a       *)
(* version the campus server has published, and not superseded for longer  *)
(* than a bound.  An answer marked "cached: false" was fetched for this    *)
(* very request and has the tighter bound.  A request may also end with an *)
(* error, and a restart of the service drops the requests in flight.       *)
(*                                                                         *)
(* This is the abstract specification that KRSHandler implements; it       *)
(* translates no code.                                                     *)
(***************************************************************************)
EXTENDS Integers, Sequences

CONSTANTS
    Npm,         \* student numbers
    Request,     \* requests in flight at the same time
    MaxVersion,  \* bound on the versions of one student's plan
    MaxTime,     \* bound on the clock
    StaleBound,  \* how long a cached answer may have been superseded
    FreshBound,  \* the same for an answer marked "cached: false"
    Error, None

Document == [npm : Npm, version : 1 .. MaxVersion]

VARIABLES
    now,
    published,  \* per student, when each version was published
    req         \* per request, who asks and the reply so far

vars == <<now, published, req>>

NoRequest == [npm |-> None, reply |-> None, cached |-> FALSE]

Init ==
    /\ now = 0
    /\ published = [n \in Npm |-> <<0>>]
    /\ req = [r \in Request |-> NoRequest]

-----------------------------------------------------------------------------
\* Version v of n is the current one, or was until at most bound ago.
SupersededWithin(n, v, bound) ==
    /\ v \in DOMAIN published[n]
    /\ v + 1 \in DOMAIN published[n] => now - published[n][v + 1] <= bound

MayAnswer(n, doc, cached) ==
    /\ doc.npm = n
    /\ SupersededWithin(n, doc.version, IF cached THEN StaleBound ELSE FreshBound)

Publish(n) ==
    /\ Len(published[n]) < MaxVersion
    /\ published' = [published EXCEPT ![n] = Append(@, now)]
    /\ UNCHANGED <<now, req>>

Ask(r, n) ==
    /\ req[r] = NoRequest
    /\ req' = [req EXCEPT ![r].npm = n]
    /\ UNCHANGED <<now, published>>

Waiting(r) == req[r].npm # None /\ req[r].reply = None

Answer(r, doc, cached) ==
    /\ Waiting(r)
    /\ MayAnswer(req[r].npm, doc, cached)
    /\ req' = [req EXCEPT ![r].reply = doc, ![r].cached = cached]
    /\ UNCHANGED <<now, published>>

Refuse(r) ==
    /\ Waiting(r)
    /\ req' = [req EXCEPT ![r].reply = Error]
    /\ UNCHANGED <<now, published>>

Deliver(r) ==
    /\ req[r].reply # None
    /\ req' = [req EXCEPT ![r] = NoRequest]
    /\ UNCHANGED <<now, published>>

Restart ==
    /\ req' = [r \in Request |-> NoRequest]
    /\ UNCHANGED <<now, published>>

Tick ==
    /\ now < MaxTime
    /\ now' = now + 1
    /\ UNCHANGED <<published, req>>

Next ==
    \/ \E n \in Npm : Publish(n)
    \/ \E r \in Request, n \in Npm : Ask(r, n)
    \/ \E r \in Request, doc \in Document, cached \in BOOLEAN :
          Answer(r, doc, cached)
    \/ \E r \in Request : Refuse(r) \/ Deliver(r)
    \/ Restart
    \/ Tick

Spec == Init /\ [][Next]_vars
=============================================================================
