-------------------------- MODULE KRSHandlerProofs --------------------------
(***************************************************************************)
(* For every number of students, requests and versions, every TTL and      *)
(* latency that satisfies HandlerAssumption: the handler, with the races   *)
(* of both caches, the torn files and the crashes, implements              *)
(* KRSRetrieval.  The invariant says of every document at hand (in L1, in  *)
(* a file, in a request) until when at least it was the student's current  *)
(* plan; each place adds its delay, and StaleBound is their sum.           *)
(*                                                                         *)
(* At the end: under which conditions the campus server is asked only when *)
(* neither cache has a live document.                                      *)
(***************************************************************************)
EXTENDS KRSHandler, SequenceTheorems, TLAPS

-----------------------------------------------------------------------------
(* The inductive invariant. *)

\* doc is a plan of n as it was published, and was current until t at least.
Good(doc, n, t) ==
    /\ doc \in Document /\ doc.npm = n
    /\ doc.version \in DOMAIN published[n]
    /\ doc.version + 1 \in DOMAIN published[n] =>
         published[n][doc.version + 1] >= t

\* An item of L1: before it expires its value may be answered.
GoodItem(n, item) ==
    /\ item.expiration <= now + L1TTL
    /\ Good(item.value, n, item.expiration - StaleBound)

\* A file of L2: what it holds was current when the request that wrote it had it
\* from the campus server.
GoodFile(p, file) ==
    /\ file.mtime <= now
    /\ file.data \in Document => Good(file.data, p.nis, file.mtime - MaxLatency)

CacheOK ==
    /\ cache \in [Npm -> L1!Item \cup {None}]
    /\ \A n \in Npm : cache[n] # None => GoodItem(n, cache[n])

FilesOK ==
    /\ files \in [L2!Path -> L2!File \cup {None}]
    /\ \A p \in L2!Path : files[p] # None => GoodFile(p, files[p])

PublishedOK ==
    /\ published \in [Npm -> Seq(0 .. MaxTime)]
    /\ \A n \in Npm : Len(published[n]) \in 1 .. MaxVersion

InL1 == {L1!IdleGet} \cup [pc : {"check", "evict"}, key : Npm, item : L1!Item]
InHandler == {IdleReq} \cup Active \cup Replied

\* A request x with its calls g of L1 and i of L2: what it has at hand belongs to
\* its student and is recent enough for what it will do with it.
Sound(x, g, i) ==
    /\ x.pc \in Lookup \cup Fetch \cup Store =>
         x.since <= now /\ now - x.since <= MaxLatency
    /\ x.pc = "l1get" => g.key = x.npm
    /\ g.pc # "idle" => GoodItem(g.key, g.item)
    /\ x.pc = "l2get" =>
         /\ i.pc \in {"sort", "stat", "remove", "read"}
         /\ \A p \in i.seen : p.nis = x.npm
         /\ i.pc # "sort" => i.path.nis = x.npm
         /\ i.pc = "read" /\ files[i.path] # None =>
              files[i.path].mtime >= x.since - FileTTL
    /\ x.pc = "promote" => Good(x.doc, x.npm, x.since - FileTTL - MaxLatency)
    /\ x.pc \in Store => Good(x.doc, x.npm, x.since)
    /\ x.pc = "saving" =>
         i.pc \in {"open", "write"} /\ i.path.nis = x.npm /\ i.data = x.doc

RequestsOK ==
    /\ get \in [Request -> InL1]
    /\ io \in [Request -> L2!Call]
    /\ req \in [Request -> InHandler]
    /\ \A r \in Request : Sound(req[r], get[r], io[r])

SweepOK ==
    /\ ticker \in BOOLEAN
    /\ cleanup \in [pc : {"select", "lock", "stopped"}, now : 0 .. MaxTime]

IInv ==
    /\ now \in 0 .. MaxTime
    /\ CacheOK /\ FilesOK /\ PublishedOK /\ RequestsOK /\ SweepOK

-----------------------------------------------------------------------------
(* Records told by their first field. *)

\* The handler's record of a request by its phase.
LEMMA ReqKinds ==
    ASSUME IInv, NEW r \in Request
    PROVE  /\ req[r].pc \in Lookup \cup Fetch \cup Store => req[r] \in Active
           /\ req[r].pc = "replied" => req[r] \in Replied
           /\ req[r].pc = "idle" => req[r] = IdleReq
           /\ req[r].pc \in {"idle", "replied"} \cup Lookup \cup Fetch \cup Store
<1>1. req[r] \in InHandler
  BY DEF IInv, RequestsOK
<1>2. CASE req[r] = IdleReq
  BY <1>2 DEF IdleReq, Lookup, Fetch, Store
<1>3. CASE req[r] \in Active
  BY <1>3 DEF Active, Lookup, Fetch, Store
<1>4. CASE req[r] \in Replied
  BY <1>4 DEF Replied, Lookup, Fetch, Store
<1> QED BY <1>1, <1>2, <1>3, <1>4 DEF InHandler

\* What a request's calls of both caches hold, by where they are.
LEMMA CallKinds ==
    ASSUME IInv, NEW r \in Request
    PROVE  /\ io[r] \in L2!Call
           /\ io[r].pc \in {"open", "write"} => io[r] \in L2!Saving
           /\ io[r].pc = "sort" => io[r] \in L2!Sorting
           /\ io[r].pc \in {"stat", "remove", "read"} => io[r] \in L2!Reading
           /\ get[r] \in InL1
           /\ get[r].pc = "idle" => get[r] = L1!IdleGet
           /\ get[r].pc # "idle" => get[r] \in [pc : {"check", "evict"}, key : Npm, item : L1!Item]
<1>1. io[r] \in L2!Call /\ get[r] \in InL1
  BY DEF IInv, RequestsOK
<1>2. /\ io[r].pc \in {"open", "write"} => io[r] \in L2!Saving
      /\ io[r].pc = "sort" => io[r] \in L2!Sorting
      /\ io[r].pc \in {"stat", "remove", "read"} => io[r] \in L2!Reading
  BY <1>1 DEF L2!Call, L2!Idle, L2!Saving, L2!Sorting, L2!Reading, L2!Cleaning, L2!Unlinking
<1>3. /\ get[r].pc = "idle" => get[r] = L1!IdleGet
      /\ get[r].pc # "idle" => get[r] \in [pc : {"check", "evict"}, key : Npm, item : L1!Item]
  BY <1>1 DEF InL1, L1!IdleGet
<1> QED BY <1>1, <1>2, <1>3

\* The parameters and the clock are numbers.
LEMMA Numbers ==
    ASSUME IInv
    PROVE  /\ now \in Nat /\ now \in 0 .. MaxTime /\ MaxTime \in Nat
           /\ L1TTL \in Nat /\ FileTTL \in Nat /\ MaxLatency \in Nat
           /\ StaleBound \in Nat /\ StaleBound = L1TTL + FileTTL + 2 * MaxLatency
BY HandlerAssumption DEF IInv, StaleBound

\* A request in progress.
LEMMA ActiveTyped ==
    ASSUME IInv, NEW r \in Request, req[r].pc \in Lookup \cup Fetch \cup Store
    PROVE  /\ req[r] \in Active /\ req[r].npm \in Npm /\ req[r].doc \in Document \cup {None}
           /\ req[r].since \in Nat /\ req[r].since \in 0 .. MaxTime
           /\ req[r].since <= now /\ now - req[r].since <= MaxLatency
<1>1. req[r] \in Active
  BY ReqKinds
<1>2. req[r].since <= now /\ now - req[r].since <= MaxLatency
  BY DEF IInv, RequestsOK, Sound
<1> QED BY <1>1, <1>2 DEF Active

-----------------------------------------------------------------------------
(* Time and the campus server. *)

\* A document current for longer was current for shorter.
LEMMA GoodEarlier ==
    ASSUME PublishedOK, NEW n \in Npm, NEW doc, NEW t \in Int, NEW u \in Int,
           u <= t, Good(doc, n, t)
    PROVE  Good(doc, n, u)
<1>1. ASSUME doc.version + 1 \in DOMAIN published[n]
      PROVE  published[n][doc.version + 1] \in Int
  <2>1. published[n] \in Seq(0 .. MaxTime) /\ MaxTime \in Nat
    BY HandlerAssumption DEF PublishedOK
  <2> QED BY <1>1, <2>1
<1> QED BY <1>1 DEF Good

-----------------------------------------------------------------------------
(* One request steps; what the others have at hand stays good. *)

\* What a step may do to a file: leave it, remove it, or write it now.
Touched(p) ==
    files'[p] = files[p] \/ files'[p] = None \/ files'[p].mtime = now

\* A call that has a path has one of L2's.
LEMMA PathTyped ==
    ASSUME IInv, NEW r \in Request,
           io[r].pc \in {"open", "write", "stat", "remove", "read"}
    PROVE  io[r].path \in L2!Path
<1>1. io[r] \in L2!Saving \/ io[r] \in L2!Reading
  BY CallKinds
<1> QED BY <1>1 DEF L2!Saving, L2!Reading

\* A file that exists is typed and good.
LEMMA FileTyped ==
    ASSUME IInv, NEW p \in L2!Path, files[p] # None
    PROVE  /\ files[p] \in L2!File /\ files[p].mtime \in Nat
           /\ files[p].data \in Document \cup {Empty, Torn} /\ GoodFile(p, files[p])
<1>1. files[p] \in L2!File /\ GoodFile(p, files[p])
  BY DEF IInv, FilesOK
<1> QED BY <1>1 DEF L2!File

\* Of a request that does not step nothing is spoilt: a file it is about to
\* read is the one it judged or a newer one.
LEMMA SoundStays ==
    ASSUME IInv, UNCHANGED <<now, published>>,
           \A p \in L2!Path : Touched(p),
           NEW r \in Request,
           NEW x, x = req[r], NEW g, g = get[r], NEW i, i = io[r]
    PROVE  Sound(x, g, i)'
<1>1. Sound(x, g, i)
  BY DEF IInv, RequestsOK
<1>2. GoodItem(g.key, g.item) => GoodItem(g.key, g.item)'
  BY DEF GoodItem, Good
<1>3. /\ Good(x.doc, x.npm, x.since - FileTTL - MaxLatency)
           => Good(x.doc, x.npm, x.since - FileTTL - MaxLatency)'
      /\ Good(x.doc, x.npm, x.since) => Good(x.doc, x.npm, x.since)'
  BY DEF Good
<1>4. ASSUME x.pc = "l2get", i.pc = "read", files'[i.path] # None
      PROVE  files'[i.path].mtime >= x.since - FileTTL
  <2>1. i.path \in L2!Path
    BY <1>4, PathTyped
  <2>2. x.since \in Nat /\ x.since <= now
    BY <1>4, ActiveTyped DEF Lookup
  <2>3. now >= x.since - FileTTL
    BY <2>2, Numbers
  <2>4. CASE files'[i.path] = files[i.path]
    BY <1>1, <1>4, <2>4 DEF Sound
  <2>5. CASE files'[i.path].mtime = now
    BY <2>3, <2>5
  <2> QED BY <1>4, <2>1, <2>4, <2>5 DEF Touched
<1> QED BY <1>1, <1>2, <1>3, <1>4 DEF Sound

\* The invariant after a step of r, to x inside of g and i.
LEMMA StepKeeps ==
    ASSUME IInv, Elsewhere, UNCHANGED <<cleanup, ticker>>,
           NEW r \in Request,
           NEW x \in InHandler, req' = [req EXCEPT ![r] = x],
           NEW g \in InL1, get' = [get EXCEPT ![r] = g],
           NEW i \in L2!Call, io' = [io EXCEPT ![r] = i],
           Sound(x, g, i)',
           CacheOK', FilesOK', \A p \in L2!Path : Touched(p)
    PROVE  IInv'
<1>1. /\ get' \in [Request -> InL1] /\ io' \in [Request -> L2!Call]
      /\ req' \in [Request -> InHandler]
  BY DEF IInv, RequestsOK
<1>2. ASSUME NEW d \in Request
      PROVE  Sound(req[d], get[d], io[d])'
  <2>1. CASE d = r
    <3>1. req'[d] = x /\ get'[d] = g /\ io'[d] = i
      BY <2>1 DEF IInv, RequestsOK
    <3> QED BY <3>1
  <2>2. CASE d # r
    <3>1. PICK u, v, w : u = req[d] /\ v = get[d] /\ w = io[d]
      OBVIOUS
    <3>2. Sound(u, v, w)'
      BY <3>1, SoundStays DEF Elsewhere
    <3>3. req'[d] = u /\ get'[d] = v /\ io'[d] = w
      BY <2>2, <3>1 DEF IInv, RequestsOK
    <3> QED BY <3>2, <3>3
  <2> QED BY <2>1, <2>2
<1>3. RequestsOK'
  BY <1>1, <1>2 DEF RequestsOK
<1>4. PublishedOK' /\ SweepOK' /\ now' \in 0 .. MaxTime
  BY DEF IInv, PublishedOK, SweepOK, Elsewhere
<1> QED BY <1>3, <1>4 DEF IInv

\* A step that leaves L1 alone leaves good what it holds.
LEMMA CacheStays ==
    ASSUME IInv, Elsewhere, UNCHANGED cache
    PROVE  CacheOK'
BY DEF IInv, CacheOK, GoodItem, Good, Elsewhere

\* The same of the files.
LEMMA FilesStay ==
    ASSUME IInv, Elsewhere, UNCHANGED files
    PROVE  FilesOK' /\ \A p \in L2!Path : Touched(p)
BY DEF IInv, FilesOK, GoodFile, Good, Elsewhere, Touched

\* A request that does not step, in the form in which steps are stated.
LEMMA CallsStay ==
    ASSUME IInv, NEW r \in Request
    PROVE  /\ req = [req EXCEPT ![r] = req[r]] /\ req[r] \in InHandler
           /\ get = [get EXCEPT ![r] = get[r]] /\ get[r] \in InL1
           /\ io = [io EXCEPT ![r] = io[r]] /\ io[r] \in L2!Call
           /\ Sound(req[r], get[r], io[r])
BY DEF IInv, RequestsOK

-----------------------------------------------------------------------------
(* How the handler's record changes. *)

\* Goto keeps all but the place.
LEMMA GotoMoves ==
    ASSUME IInv, NEW r \in Request, req[r] \in Active, NEW pc, Goto(r, pc)
    PROVE  req' = [req EXCEPT ![r] = [pc |-> pc, npm |-> req[r].npm,
                                      doc |-> req[r].doc, since |-> req[r].since]]
<1>1. req \in [Request -> InHandler] /\ req' = [req EXCEPT ![r].pc = pc]
  BY DEF IInv, RequestsOK, Goto
<1>2. req' = [d \in Request |-> req'[d]]
  BY <1>1
<1>3. \A d \in Request : d # r => req'[d] = req[d]
  BY <1>1
<1>4. req'[r] = [req[r] EXCEPT !.pc = pc]
  BY <1>1
<1>5. req'[r] = [pc |-> pc, npm |-> req[r].npm, doc |-> req[r].doc, since |-> req[r].since]
  BY <1>4 DEF Active
<1> QED BY <1>1, <1>2, <1>3, <1>5

\* Enter begins a phase now.
LEMMA EnterMoves ==
    ASSUME NEW r \in Request, NEW pc, NEW doc, Enter(r, pc, doc)
    PROVE  req' = [req EXCEPT ![r] = [pc |-> pc, npm |-> req[r].npm,
                                      doc |-> doc, since |-> now]]
BY DEF Enter

\* Reply leaves the answer only.
LEMMA ReplyMoves ==
    ASSUME NEW r \in Request, NEW doc, NEW cached, Reply(r, doc, cached)
    PROVE  req' = [req EXCEPT ![r] = [pc |-> "replied", npm |-> req[r].npm,
                                      doc |-> doc, cached |-> cached]]
BY DEF Reply

-----------------------------------------------------------------------------
(* How the client sees a step. *)

View(x) ==
    IF x.pc = "idle" THEN [npm |-> None, reply |-> None, cached |-> FALSE]
    ELSE IF x.pc = "replied"
    THEN [npm |-> x.npm, reply |-> x.doc, cached |-> x.cached]
    ELSE [npm |-> x.npm, reply |-> None, cached |-> FALSE]

Views == [r \in Request |-> ReqView(r)]

\* The step is one of KRSRetrieval or changes nothing a client sees.
Mapped == [Retrieval!Next]_(<<now, published, Views>>)

\* A step of one request changes its view only.
LEMMA ViewMoves ==
    ASSUME IInv, NEW r \in Request, NEW x, req' = [req EXCEPT ![r] = x]
    PROVE  /\ Views' = [Views EXCEPT ![r] = View(x)]
           /\ Views[r] = View(req[r])
           /\ Views = [d \in Request |-> Views[d]]
<1>1. \A d \in Request : req'[d] = IF d = r THEN x ELSE req[d]
  BY DEF IInv, RequestsOK
<1>2. Views = [d \in Request |-> View(req[d])]
  BY DEF Views, ReqView, View, At
<1>3. Views' = [d \in Request |-> View(req'[d])]
  BY DEF Views, ReqView, View, At
<1>4. Views' = [Views EXCEPT ![r] = View(x)]
  BY <1>1, <1>2, <1>3
<1> QED BY <1>2, <1>4

\* Until it is answered a request shows who asks and nothing else.
LEMMA InProgress ==
    ASSUME NEW x, x.pc \in Lookup \cup Fetch \cup Store
    PROVE  View(x) = [npm |-> x.npm, reply |-> None, cached |-> FALSE]
BY DEF View, Lookup, Fetch, Store

\* A step within the request is none for the client.
LEMMA GoesOn ==
    ASSUME IInv, Elsewhere, NEW r \in Request,
           req[r].pc \in Lookup \cup Fetch \cup Store,
           NEW x, x.pc \in Lookup \cup Fetch \cup Store, x.npm = req[r].npm,
           req' = [req EXCEPT ![r] = x]
    PROVE  Mapped
<1>1. View(x) = View(req[r])
  BY InProgress
<1>2. Views' = [Views EXCEPT ![r] = Views[r]] /\ Views = [d \in Request |-> Views[d]]
  BY <1>1, ViewMoves
<1>3. Views' = Views
  BY <1>2
<1> QED BY <1>3 DEF Mapped, Elsewhere

\* A request in progress is one that waits.
LEMMA Waits ==
    ASSUME IInv, NEW r \in Request, req[r].pc \in Lookup \cup Fetch \cup Store
    PROVE  /\ Views[r] = [npm |-> req[r].npm, reply |-> None, cached |-> FALSE]
           /\ req[r].npm \in Npm /\ req[r].npm # None
<1>1. Views[r] = View(req[r])
  BY DEF Views, ReqView, View, At
<1>2. Views[r] = [npm |-> req[r].npm, reply |-> None, cached |-> FALSE]
  BY <1>1, InProgress
<1>3. req[r].npm \in Npm
  BY ActiveTyped
<1> QED BY <1>2, <1>3, HandlerAssumption

\* What a reply shows the client: the fields of its view, overwritten one by one.
LEMMA ReplyShows ==
    ASSUME IInv, Elsewhere, NEW r \in Request, NEW doc, NEW cached,
           Reply(r, doc, cached), req[r].pc \in Lookup \cup Fetch \cup Store
    PROVE  /\ Retrieval!MayAnswer(req[r].npm, doc, cached)
                => Retrieval!Answer(r, doc, cached)
           /\ cached = FALSE => Views' = [Views EXCEPT ![r].reply = doc]
<1>0. PICK f, n, no, was : f = Views /\ n = req[r].npm /\ no = None /\ was = FALSE
  OBVIOUS
<1> DEFINE x == [pc |-> "replied", npm |-> req[r].npm, doc |-> doc, cached |-> cached]
<1>1. Views' = [f EXCEPT ![r] = [npm |-> n, reply |-> doc, cached |-> cached]]
  <2>1. req' = [req EXCEPT ![r] = x]
    BY ReplyMoves
  <2>2. View(x) = [npm |-> n, reply |-> doc, cached |-> cached]
    BY <1>0 DEF View
  <2> HIDE DEF x
  <2> QED BY <1>0, <2>1, <2>2, ViewMoves
<1>2. f = [d \in Request |-> f[d]] /\ f[r] = [npm |-> n, reply |-> no, cached |-> was]
  BY <1>0, Waits DEF Views
<1> DEFINE g == [f EXCEPT ![r].reply = doc]
           h == [g EXCEPT ![r].cached = cached]
<1>3. g[r] = [npm |-> n, reply |-> doc, cached |-> was]
  <2>1. g[r] = [f[r] EXCEPT !.reply = doc]
    BY <1>2
  <2> QED BY <1>2, <2>1
<1>4. g = [d \in Request |-> g[d]] /\ \A d \in Request : d # r => g[d] = f[d]
  BY <1>2
<1>5. g = [f EXCEPT ![r] = [npm |-> n, reply |-> doc, cached |-> was]]
  BY <1>2, <1>3, <1>4
<1> HIDE DEF g
<1>6. h[r] = [npm |-> n, reply |-> doc, cached |-> cached]
  <2>1. h[r] = [g[r] EXCEPT !.cached = cached]
    BY <1>4
  <2> QED BY <1>3, <2>1
<1>7. h = [d \in Request |-> h[d]] /\ \A d \in Request : d # r => h[d] = f[d]
  BY <1>4
<1>8. h = [f EXCEPT ![r] = [npm |-> n, reply |-> doc, cached |-> cached]]
  BY <1>2, <1>6, <1>7
<1>9. h = [f EXCEPT ![r].reply = doc, ![r].cached = cached]
  BY DEF g
<1>10. Views' = [Views EXCEPT ![r].reply = doc, ![r].cached = cached]
  BY <1>0, <1>1, <1>8, <1>9
<1>11. Retrieval!MayAnswer(req[r].npm, doc, cached) => Retrieval!Answer(r, doc, cached)
  BY <1>10, Waits
     DEF Retrieval!Answer, Retrieval!Waiting, Retrieval!MayAnswer, Elsewhere, Views
<1>12. ASSUME cached = FALSE
       PROVE  Views' = [Views EXCEPT ![r].reply = doc]
  <2>1. Views' = g
    BY <1>0, <1>1, <1>5, <1>12
  <2> QED BY <1>0, <2>1 DEF g
<1> QED BY <1>11, <1>12

\* An answer that was current within the bound is one the client may be given.
LEMMA AnswerMaps ==
    ASSUME IInv, Elsewhere, NEW r \in Request,
           req[r].pc \in Lookup \cup Fetch \cup Store,
           NEW doc, NEW cached \in BOOLEAN, Reply(r, doc, cached),
           Good(doc, req[r].npm, now - (IF cached THEN StaleBound ELSE MaxLatency))
    PROVE  Mapped
<1> DEFINE n == req[r].npm
           bound == IF cached THEN StaleBound ELSE MaxLatency
<1>1. n \in Npm
  BY Waits
<1>4. Retrieval!SupersededWithin(n, doc.version, bound)
  <2>1. doc.version \in DOMAIN published[n]
    BY DEF Good
  <2>2. ASSUME doc.version + 1 \in DOMAIN published[n]
        PROVE  now - published[n][doc.version + 1] <= bound
    <3>1. published[n][doc.version + 1] >= now - bound
      BY <2>2 DEF Good
    <3>2. PICK s, k : s = published[n] /\ k = doc.version + 1
      OBVIOUS
    <3>3. s \in Seq(0 .. MaxTime) /\ k \in DOMAIN s
      BY <1>1, <2>2, <3>2 DEF IInv, PublishedOK
    <3>4. s[k] \in Int
      <4>1. MaxTime \in Nat
        BY Numbers
      <4> QED BY ONLY <3>3, <4>1
    <3>5. bound \in Int /\ now \in Int
      BY Numbers
    <3> HIDE DEF bound
    <3> QED BY <3>1, <3>2, <3>4, <3>5
  <2> QED BY <2>1, <2>2 DEF Retrieval!SupersededWithin
<1>5. doc \in Retrieval!Document /\ doc.npm = n
  BY DEF Good, Document, Retrieval!Document
<1>6. Retrieval!MayAnswer(n, doc, cached)
  BY <1>4, <1>5 DEF Retrieval!MayAnswer
<1>7. Retrieval!Answer(r, doc, cached)
  BY <1>6, ReplyShows
<1> QED BY <1>5, <1>7 DEF Mapped, Retrieval!Next

\* An error is what a client may always be given.
LEMMA RefuseMaps ==
    ASSUME IInv, Elsewhere, NEW r \in Request,
           req[r].pc \in Lookup \cup Fetch \cup Store, Reply(r, Error, FALSE)
    PROVE  Mapped
<1> DEFINE n == req[r].npm
<1>1. n \in Npm /\ Views[r] = [npm |-> n, reply |-> None, cached |-> FALSE] /\ n # None
  BY Waits
<1>3. Views' = [Views EXCEPT ![r].reply = Error]
  BY ReplyShows
<1>4. Retrieval!Refuse(r)
  BY <1>1, <1>3 DEF Retrieval!Refuse, Retrieval!Waiting, Elsewhere, Views
<1> QED BY <1>4 DEF Mapped, Retrieval!Next

-----------------------------------------------------------------------------
(* The steps of a request, up to its reply from a cache. *)

\* Sound depends on the clock, on what is published and on the files.
LEMMA SoundSame ==
    ASSUME Elsewhere, UNCHANGED files, NEW x, NEW g, NEW i
    PROVE  Sound(x, g, i)' <=> Sound(x, g, i)
<1>1. \A doc, n, t : Good(doc, n, t)' <=> Good(doc, n, t)
  BY DEF Good, Elsewhere
<1>2. \A n, item : GoodItem(n, item)' <=> GoodItem(n, item)
  BY DEF GoodItem, Good, Elsewhere
<1> QED BY <1>1, <1>2 DEF Sound, Elsewhere

\* A step of r that leaves the files alone.
LEMMA QuietKeeps ==
    ASSUME IInv, Elsewhere, UNCHANGED <<cleanup, ticker, files>>,
           NEW r \in Request,
           NEW x \in InHandler, req' = [req EXCEPT ![r] = x],
           NEW g \in InL1, get' = [get EXCEPT ![r] = g],
           NEW i \in L2!Call, io' = [io EXCEPT ![r] = i],
           Sound(x, g, i), CacheOK'
    PROVE  IInv'
<1>1. Sound(x, g, i)'
  BY SoundSame
<1>2. FilesOK' /\ \A p \in L2!Path : Touched(p)
  BY FilesStay
<1> QED BY <1>1, <1>2, StepKeeps

\* The request is entered with a lookup of its own.
LEMMA BeginKeeps ==
    ASSUME IInv, NEW r \in Request, NEW n \in Npm, Begin(r, n)
    PROVE  IInv' /\ Mapped
<1> DEFINE x == [pc |-> "l1", npm |-> n, doc |-> None, since |-> now]
<1>1. /\ req' = [req EXCEPT ![r] = x]
      /\ Elsewhere /\ UNCHANGED <<cache, get, cleanup, ticker, files, io>>
  BY DEF Begin, L1Idle, L2Idle
<1>2. x \in Active
  BY Numbers DEF Active, Lookup
<1>3. Sound(x, get[r], io[r])
  <2>1. get[r].pc # "idle" => GoodItem(get[r].key, get[r].item)
    BY DEF IInv, RequestsOK, Sound
  <2>2. x.since <= now /\ now - x.since <= MaxLatency
    BY Numbers
  <2> QED BY <2>1, <2>2 DEF Sound, Store
<1>4. IInv'
  <2>1. x \in InHandler /\ get[r] \in InL1 /\ io[r] \in L2!Call
    BY <1>2, CallsStay DEF InHandler
  <2>2. get' = [get EXCEPT ![r] = get[r]] /\ io' = [io EXCEPT ![r] = io[r]]
    BY <1>1, CallsStay
  <2>3. CacheOK'
    BY <1>1, CacheStays
  <2> HIDE DEF x
  <2> QED BY <1>1, <1>3, <2>1, <2>2, <2>3, QuietKeeps
<1>5. Retrieval!Ask(r, n)
  <2>1. PICK f, no, was : f = Views /\ no = None /\ was = FALSE
    OBVIOUS
  <2>2. f[r] = [npm |-> no, reply |-> no, cached |-> was]
    BY <2>1 DEF Views, ReqView, Begin, At
  <2>3. View(x) = [npm |-> n, reply |-> no, cached |-> was]
    BY <2>1 DEF View
  <2>4. Views' = [f EXCEPT ![r] = View(x)] /\ f = [d \in Request |-> f[d]]
    <3> HIDE DEF x
    <3> QED BY <1>1, <2>1, ViewMoves
  <2> DEFINE g == [f EXCEPT ![r].npm = n]
  <2>5. g[r] = [npm |-> n, reply |-> no, cached |-> was]
    <3>1. g[r] = [f[r] EXCEPT !.npm = n]
      BY <2>4
    <3> QED BY <2>2, <3>1
  <2>6. g = [d \in Request |-> g[d]] /\ \A d \in Request : d # r => g[d] = f[d]
    BY <2>4
  <2>7. Views' = g
    BY <2>3, <2>4, <2>5, <2>6
  <2> QED BY <1>1, <2>1, <2>2, <2>7
          DEF Retrieval!Ask, Retrieval!NoRequest, Elsewhere, Views
<1> QED BY <1>4, <1>5 DEF Mapped, Retrieval!Next

\* L1 answers or has nothing: a copied item belongs to the student.
LEMMA L1LookupKeeps ==
    ASSUME IInv, NEW r \in Request, L1Lookup(r)
    PROVE  IInv' /\ Mapped
<1> DEFINE n == req[r].npm
           pc == IF cache[n] = None THEN "l2" ELSE "l1get"
           x == [pc |-> pc, npm |-> n, doc |-> req[r].doc, since |-> req[r].since]
           g == IF cache[n] = None THEN get[r]
                ELSE [pc |-> "check", key |-> n, item |-> cache[n]]
<1>1. /\ req[r].pc = "l1" /\ Elsewhere /\ Goto(r, pc)
      /\ UNCHANGED <<cache, cleanup, ticker, files, io>>
  BY DEF L1Lookup, At, L1!GetLookup, L2Idle, CacheKey
<1>2. req[r] \in Active /\ n \in Npm
  BY <1>1, ActiveTyped DEF Lookup
<1>3. get' = [get EXCEPT ![r] = g] /\ get[r].pc = "idle"
  BY CallsStay DEF L1Lookup, L1!GetLookup, CacheKey
<1>4. req' = [req EXCEPT ![r] = x]
  BY <1>1, <1>2, GotoMoves
<1>5. x \in Active
  BY <1>2 DEF Active, Lookup
<1>6. cache[n] # None => cache[n] \in L1!Item /\ GoodItem(n, cache[n])
  BY <1>2 DEF IInv, CacheOK
<1>7. g \in InL1
  BY <1>2, <1>6, CallsStay DEF InL1
<1>8. Sound(x, g, io[r])
  <2>1. x.since <= now /\ now - x.since <= MaxLatency
    BY <1>1, ActiveTyped DEF Lookup
  <2>2. g.pc # "idle" => g.key = n /\ GoodItem(g.key, g.item)
    BY <1>3, <1>6
  <2>3. x.pc = "l1get" => g.pc # "idle"
    OBVIOUS
  <2> QED BY <2>1, <2>2, <2>3 DEF Sound, Store
<1>9. IInv'
  <2>1. x \in InHandler /\ io[r] \in L2!Call /\ io' = [io EXCEPT ![r] = io[r]]
    BY <1>1, <1>5, CallsStay DEF InHandler
  <2>2. CacheOK'
    BY <1>1, CacheStays
  <2> HIDE DEF x, g
  <2> QED BY <1>1, <1>3, <1>4, <1>7, <1>8, <2>1, <2>2, QuietKeeps
<1>10. Mapped
  <2>1. x.pc \in Lookup /\ x.npm = n /\ req[r].pc \in Lookup
    BY <1>1 DEF Lookup
  <2> HIDE DEF x
  <2> QED BY <1>1, <1>4, <2>1, GoesOn
<1> QED BY <1>9, <1>10

\* A request replies; what it leaves behind in the caches is given.
LEMMA ReplyKeeps ==
    ASSUME IInv, Elsewhere, UNCHANGED <<cleanup, ticker>>, NEW r \in Request,
           req[r].pc \in Lookup \cup Fetch \cup Store,
           NEW doc \in Document \cup {Error}, NEW cached \in BOOLEAN,
           Reply(r, doc, cached),
           NEW g \in InL1, get' = [get EXCEPT ![r] = g],
           g.pc # "idle" => GoodItem(g.key, g.item),
           NEW i \in L2!Call, io' = [io EXCEPT ![r] = i],
           CacheOK', FilesOK', \A p \in L2!Path : Touched(p)
    PROVE  IInv'
<1>1. PICK x : x = [pc |-> "replied", npm |-> req[r].npm, doc |-> doc, cached |-> cached]
  OBVIOUS
<1>2. x \in InHandler /\ x.pc = "replied"
  BY <1>1, ActiveTyped DEF InHandler, Replied
<1>3. Sound(x, g, i)'
  <2>1. GoodItem(g.key, g.item) => GoodItem(g.key, g.item)'
    BY DEF GoodItem, Good, Elsewhere
  <2> QED BY <1>2, <2>1 DEF Sound, Lookup, Fetch, Store
<1>4. req' = [req EXCEPT ![r] = x]
  BY <1>1, ReplyMoves
<1> QED BY <1>2, <1>3, <1>4, StepKeeps

\* Neither cache had the document: the download is begun.
LEMMA FetchBegins ==
    ASSUME IInv, Elsewhere, L1Idle, NEW r \in Request,
           req[r].pc \in Lookup, Enter(r, "fetch", None),
           NEW i \in L2!Call, io' = [io EXCEPT ![r] = i],
           FilesOK', \A p \in L2!Path : Touched(p)
    PROVE  IInv' /\ Mapped
<1>1. PICK x, g : g = get[r] /\
        x = [pc |-> "fetch", npm |-> req[r].npm, doc |-> None, since |-> now]
  OBVIOUS
<1>2. x \in Active
  BY <1>1, ActiveTyped, Numbers DEF Active, Fetch
<1>3. Sound(x, g, i)'
  <2>1. g.pc # "idle" => GoodItem(g.key, g.item)
    BY <1>1 DEF IInv, RequestsOK, Sound
  <2>2. GoodItem(g.key, g.item) => GoodItem(g.key, g.item)'
    BY DEF GoodItem, Good, Elsewhere
  <2>3. now' - now <= MaxLatency /\ now <= now' /\ now = now'
    BY Numbers DEF Elsewhere
  <2> QED BY <1>1, <2>1, <2>2, <2>3 DEF Sound, Store
<1>4. req' = [req EXCEPT ![r] = x]
  BY <1>1, EnterMoves
<1>5. IInv'
  <2>1. g \in InL1 /\ get' = [get EXCEPT ![r] = g]
    BY <1>1, CallsStay DEF L1Idle
  <2>2. CacheOK' /\ UNCHANGED <<cleanup, ticker>> /\ x \in InHandler
    BY <1>2, CacheStays DEF L1Idle, InHandler
  <2> QED BY <1>3, <1>4, <2>1, <2>2, StepKeeps
<1>6. Mapped
  <2>1. x.pc \in Fetch /\ x.npm = req[r].npm
    BY <1>1 DEF Fetch
  <2> QED BY <1>4, <2>1, GoesOn
<1> QED BY <1>5, <1>6

\* The copied item is answered before it expires, hence within StaleBound.
LEMMA L1HitKeeps ==
    ASSUME IInv, NEW r \in Request, L1Hit(r)
    PROVE  IInv' /\ Mapped
<1> DEFINE n == req[r].npm
           item == get[r].item
<1>1. /\ req[r].pc = "l1get" /\ get[r].pc = "check" /\ now <= item.expiration
      /\ Elsewhere /\ Reply(r, item.value, TRUE)
      /\ get' = [get EXCEPT ![r] = L1!IdleGet]
      /\ UNCHANGED <<cache, cleanup, ticker, files, io>>
  <2>1. /\ req[r].pc = "l1get" /\ get[r].pc = "check" /\ ~(now > item.expiration)
        /\ Elsewhere /\ Reply(r, item.value, TRUE)
        /\ get' = [get EXCEPT ![r] = L1!IdleGet]
        /\ UNCHANGED <<cache, cleanup, ticker, files, io>>
    BY DEF L1Hit, At, L1!GetHit, L1!Expired, L2Idle
  <2>2. item.expiration \in Nat
    BY <2>1, CallKinds DEF L1!Item
  <2>3. now <= item.expiration
    <3> HIDE DEF item
    <3> QED BY <2>1, <2>2, Numbers
  <2> QED BY <2>1, <2>3
<1>2. req[r].pc \in Lookup /\ n \in Npm
  BY <1>1, ActiveTyped DEF Lookup
<1>3. GoodItem(n, item)
  BY <1>1 DEF IInv, RequestsOK, Sound
<1>4. item.value \in Document /\ item.expiration \in Nat
  BY <1>1, CallKinds DEF L1!Item
<1>5. Good(item.value, n, now - StaleBound)
  <2>1. /\ now - StaleBound \in Int /\ item.expiration - StaleBound \in Int
        /\ now - StaleBound <= item.expiration - StaleBound
    BY <1>1, <1>4, Numbers
  <2>2. Good(item.value, n, item.expiration - StaleBound)
    BY <1>3 DEF GoodItem
  <2> QED BY <1>2, <2>1, <2>2, GoodEarlier DEF IInv
<1>6. Mapped
  <2>1. Good(item.value, n, now - (IF TRUE THEN StaleBound ELSE MaxLatency))
    BY <1>5
  <2> HIDE DEF item
  <2> QED BY <1>1, <1>2, <2>1, AnswerMaps
<1>7. IInv'
  <2>1. L1!IdleGet \in InL1 /\ L1!IdleGet.pc = "idle"
    BY DEF InL1, L1!IdleGet
  <2>2. CacheOK' /\ FilesOK' /\ \A p \in L2!Path : Touched(p)
    BY <1>1, CacheStays, FilesStay
  <2>3. io[r] \in L2!Call /\ io' = [io EXCEPT ![r] = io[r]]
    BY <1>1, CallsStay
  <2> HIDE DEF item
  <2> QED BY <1>1, <1>2, <1>4, <2>1, <2>2, <2>3, ReplyKeeps
<1> QED BY <1>6, <1>7

\* What L1 holds stays good when a key is deleted or a good document is stored.
LEMMA CacheDrops ==
    ASSUME IInv, Elsewhere, NEW k \in Npm, cache' = [cache EXCEPT ![k] = None]
    PROVE  CacheOK'
<1>1. \A n, item : GoodItem(n, item)' <=> GoodItem(n, item)
  BY DEF GoodItem, Good, Elsewhere
<1>2. cache' \in [Npm -> L1!Item \cup {None}]
  BY DEF IInv, CacheOK
<1>3. ASSUME NEW n \in Npm, cache'[n] # None
      PROVE  GoodItem(n, cache[n]) /\ cache'[n] = cache[n]
  BY <1>3 DEF IInv, CacheOK
<1> QED BY <1>1, <1>2, <1>3 DEF CacheOK

\* The same of a document that is stored: it may be as old as one from a file.
LEMMA CacheStores ==
    ASSUME IInv, Elsewhere, NEW k \in Npm, NEW doc \in Document,
           L1!Set(k, doc, L1TTL), Good(doc, k, now - FileTTL - 2 * MaxLatency)
    PROVE  CacheOK' /\ UNCHANGED <<get, cleanup, ticker>>
<1>1. PICK new : new = [value |-> doc, expiration |-> now + L1TTL]
  OBVIOUS
<1>2. cache' = [cache EXCEPT ![k] = new] /\ UNCHANGED <<get, cleanup, ticker>>
  BY <1>1 DEF L1!Set
<1>3. new \in L1!Item
  BY <1>1, Numbers DEF L1!Item
<1>4. GoodItem(k, new)
  <2>1. new.expiration - StaleBound = now - FileTTL - 2 * MaxLatency
    BY <1>1, Numbers
  <2>2. new.value = doc /\ new.expiration <= now + L1TTL
    BY <1>1, Numbers
  <2> QED BY <2>1, <2>2 DEF GoodItem
<1>5. \A n, item : GoodItem(n, item)' <=> GoodItem(n, item)
  BY DEF GoodItem, Good, Elsewhere
<1>6. cache' \in [Npm -> L1!Item \cup {None}]
  BY <1>2, <1>3 DEF IInv, CacheOK
<1>7. ASSUME NEW n \in Npm, cache'[n] # None
      PROVE  GoodItem(n, cache'[n])
  BY <1>2, <1>4, <1>7 DEF IInv, CacheOK
<1>8. ASSUME NEW n \in Npm, cache'[n] # None
      PROVE  GoodItem(n, cache[n])'
  <2>1. PICK item : item = cache'[n]
    OBVIOUS
  <2>2. GoodItem(n, item)'
    BY <1>5, <1>7, <1>8, <2>1
  <2> QED BY <2>1, <2>2
<1> QED BY <1>2, <1>6, <1>8 DEF CacheOK

\* The copy is found expired; the deletion is still to come.
LEMMA L1ExpiredKeeps ==
    ASSUME IInv, NEW r \in Request, L1Expired(r)
    PROVE  IInv' /\ Mapped
<1>1. /\ req[r].pc = "l1get" /\ get[r].pc = "check" /\ Elsewhere
      /\ get' = [get EXCEPT ![r].pc = "evict"]
      /\ UNCHANGED <<req, cache, cleanup, ticker, files, io>>
  BY DEF L1Expired, At, L1!GetExpired, L2Idle
<1>2. PICK g : g = [pc |-> "evict", key |-> get[r].key, item |-> get[r].item]
  OBVIOUS
<1>3. get[r] \in [pc : {"check", "evict"}, key : Npm, item : L1!Item]
  BY <1>1, CallKinds
<1>4. g \in InL1
  BY <1>2, <1>3 DEF InL1
<1>5. get' = [get EXCEPT ![r] = g]
  <2>1. get = [d \in Request |-> get[d]]
    BY DEF IInv, RequestsOK
  <2>2. [get[r] EXCEPT !.pc = "evict"] = g
    BY <1>2, <1>3
  <2> QED BY <1>1, <2>1, <2>2
<1>6. Sound(req[r], g, io[r])
  BY <1>1, <1>2, CallsStay DEF Sound, Store
<1>7. IInv'
  <2>1. PICK x, i : x = req[r] /\ i = io[r]
    OBVIOUS
  <2>2. /\ x \in InHandler /\ i \in L2!Call /\ Sound(x, g, i)
        /\ req' = [req EXCEPT ![r] = x] /\ io' = [io EXCEPT ![r] = i]
    BY <1>1, <1>6, <2>1, CallsStay
  <2> QED BY <1>1, <1>4, <1>5, <2>2, QuietKeeps, CacheStays
<1> QED BY <1>1, <1>7 DEF Mapped, Views, ReqView, At, Elsewhere

\* The key is deleted, whatever it holds by now, and L2 is asked next.
LEMMA L1EvictKeeps ==
    ASSUME IInv, NEW r \in Request, L1Evict(r)
    PROVE  IInv' /\ Mapped
<1>1. /\ req[r].pc = "l1get" /\ get[r].pc = "evict" /\ Elsewhere /\ Goto(r, "l2")
      /\ cache' = [cache EXCEPT ![get[r].key] = None]
      /\ get' = [get EXCEPT ![r] = L1!IdleGet]
      /\ UNCHANGED <<cleanup, ticker, files, io>>
  BY DEF L1Evict, At, L1!GetEvict, L2Idle
<1>2. req[r] \in Active
  BY <1>1, ActiveTyped DEF Lookup
<1>3. PICK x : x = [pc |-> "l2", npm |-> req[r].npm, doc |-> req[r].doc, since |-> req[r].since]
  OBVIOUS
<1>4. req' = [req EXCEPT ![r] = x]
  BY <1>1, <1>2, <1>3, GotoMoves
<1>5. x \in InHandler
  BY <1>2, <1>3 DEF InHandler, Active, Lookup
<1>6. CacheOK'
  <2>1. get[r].key \in Npm
    BY <1>1, CallKinds
  <2> QED BY <1>1, <2>1, CacheDrops
<1>7. Sound(x, L1!IdleGet, io[r])
  <2>1. req[r].since <= now /\ now - req[r].since <= MaxLatency
    BY <1>1, ActiveTyped DEF Lookup
  <2> QED BY <1>3, <2>1 DEF Sound, Store, L1!IdleGet
<1>8. IInv'
  <2>1. PICK i : i = io[r]
    OBVIOUS
  <2>2. i \in L2!Call /\ io' = [io EXCEPT ![r] = i] /\ Sound(x, L1!IdleGet, i)
    BY <1>1, <1>7, <2>1, CallsStay
  <2>3. L1!IdleGet \in InL1
    BY DEF InL1
  <2> QED BY <1>1, <1>4, <1>5, <1>6, <2>2, <2>3, QuietKeeps
<1>9. Mapped
  <2>1. x.pc \in Lookup /\ x.npm = req[r].npm /\ req[r].pc \in Lookup
    BY <1>1, <1>3 DEF Lookup
  <2> QED BY <1>1, <1>4, <2>1, GoesOn
<1> QED BY <1>8, <1>9

\* A file's document is answered, and stays in L1 for another L1TTL at most.
LEMMA PromoteKeeps ==
    ASSUME IInv, NEW r \in Request, Promote(r)
    PROVE  IInv' /\ Mapped
<1> DEFINE n == req[r].npm
           doc == req[r].doc
<1>1. /\ req[r].pc = "promote" /\ Elsewhere
      /\ L1!Set(n, doc, L1TTL) /\ Reply(r, doc, TRUE)
      /\ UNCHANGED <<files, io>>
  BY DEF Promote, At, L2Idle, CacheKey
<1>2. req[r].pc \in Lookup /\ n \in Npm
  BY <1>1, ActiveTyped DEF Lookup
<1>3. Good(doc, n, req[r].since - FileTTL - MaxLatency)
  BY <1>1 DEF IInv, RequestsOK, Sound
<1>4. Good(doc, n, now - FileTTL - 2 * MaxLatency) /\ doc \in Document
  <2>1. req[r].since \in Nat /\ now - req[r].since <= MaxLatency
    BY <1>2, ActiveTyped
  <2>2. /\ now - FileTTL - 2 * MaxLatency \in Int
        /\ req[r].since - FileTTL - MaxLatency \in Int
        /\ now - FileTTL - 2 * MaxLatency <= req[r].since - FileTTL - MaxLatency
    BY <2>1, Numbers
  <2>3. doc \in Document
    BY <1>3 DEF Good
  <2> HIDE DEF doc
  <2> QED BY <1>2, <1>3, <2>2, <2>3, GoodEarlier DEF IInv
<1>5. Good(doc, n, now - StaleBound)
  <2>1. /\ now - StaleBound \in Int /\ now - FileTTL - 2 * MaxLatency \in Int
        /\ now - StaleBound <= now - FileTTL - 2 * MaxLatency
    BY Numbers
  <2> HIDE DEF doc
  <2> QED BY <1>2, <1>4, <2>1, GoodEarlier DEF IInv
<1>6. CacheOK' /\ UNCHANGED <<get, cleanup, ticker>>
  <2> HIDE DEF doc
  <2> QED BY <1>1, <1>2, <1>4, CacheStores
<1>7. Mapped
  <2>1. Good(doc, n, now - (IF TRUE THEN StaleBound ELSE MaxLatency))
    BY <1>5
  <2> HIDE DEF doc
  <2> QED BY <1>1, <1>2, <2>1, AnswerMaps
<1>8. IInv'
  <2>1. PICK g, i : g = get[r] /\ i = io[r]
    OBVIOUS
  <2>2. /\ g \in InL1 /\ get' = [get EXCEPT ![r] = g]
        /\ i \in L2!Call /\ io' = [io EXCEPT ![r] = i]
    BY <1>1, <1>6, <2>1, CallsStay
  <2>3. g.pc # "idle" => GoodItem(g.key, g.item)
    BY <2>1 DEF IInv, RequestsOK, Sound
  <2>4. FilesOK' /\ \A p \in L2!Path : Touched(p)
    BY <1>1, FilesStay
  <2> HIDE DEF doc
  <2> QED BY <1>1, <1>2, <1>4, <1>6, <2>2, <2>3, <2>4, ReplyKeeps
<1> QED BY <1>7, <1>8

\* The fetched document goes into L1.
LEMMA SetL1Keeps ==
    ASSUME IInv, NEW r \in Request, SetL1(r)
    PROVE  IInv' /\ Mapped
<1> DEFINE n == req[r].npm
           doc == req[r].doc
<1>1. /\ req[r].pc = "set" /\ Elsewhere
      /\ L1!Set(n, doc, L1TTL) /\ Goto(r, "store")
      /\ UNCHANGED <<files, io>>
  BY DEF SetL1, At, L2Idle, CacheKey
<1>2. req[r].pc \in Store /\ n \in Npm /\ req[r] \in Active
  BY <1>1, ActiveTyped DEF Store
<1>3. Good(doc, n, req[r].since)
  BY <1>2 DEF IInv, RequestsOK, Sound
<1>4. req[r].since \in Nat /\ req[r].since <= now /\ now - req[r].since <= MaxLatency
  BY <1>2, ActiveTyped
<1>5. Good(doc, n, now - FileTTL - 2 * MaxLatency) /\ doc \in Document
  <2>1. /\ now - FileTTL - 2 * MaxLatency \in Int /\ req[r].since \in Int
        /\ now - FileTTL - 2 * MaxLatency <= req[r].since
    BY <1>4, Numbers
  <2>2. doc \in Document
    BY <1>3 DEF Good
  <2> HIDE DEF doc
  <2> QED BY <1>2, <1>3, <2>1, <2>2, GoodEarlier DEF IInv
<1>6. CacheOK' /\ UNCHANGED <<get, cleanup, ticker>>
  <2> HIDE DEF doc
  <2> QED BY <1>1, <1>2, <1>5, CacheStores
<1>7. PICK x, g, i : /\ x = [pc |-> "store", npm |-> n, doc |-> doc, since |-> req[r].since]
                     /\ g = get[r] /\ i = io[r]
  OBVIOUS
<1>8. req' = [req EXCEPT ![r] = x]
  BY <1>1, <1>2, <1>7, GotoMoves
<1>9. IInv'
  <2>1. /\ g \in InL1 /\ get' = [get EXCEPT ![r] = g]
        /\ i \in L2!Call /\ io' = [io EXCEPT ![r] = i]
    BY <1>1, <1>6, <1>7, CallsStay
  <2>2. x \in InHandler
    BY <1>2, <1>7 DEF InHandler, Active, Store
  <2>3. g.pc # "idle" => GoodItem(g.key, g.item)
    BY <1>7 DEF IInv, RequestsOK, Sound
  <2>4. Sound(x, g, i)
    BY <1>3, <1>4, <1>7, <2>3 DEF Sound
  <2> QED BY <1>1, <1>6, <1>8, <2>1, <2>2, <2>4, QuietKeeps
<1>10. Mapped
  <2>1. x.pc \in Store /\ x.npm = n
    BY <1>7 DEF Store
  <2> QED BY <1>1, <1>2, <1>8, <2>1, GoesOn
<1> QED BY <1>9, <1>10

-----------------------------------------------------------------------------
(* The steps of a request inside of L2. *)

\* The files of the student are listed; without any the download is begun.
LEMMA L2LookupKeeps ==
    ASSUME IInv, NEW r \in Request, L2Lookup(r)
    PROVE  IInv' /\ Mapped
<1>1. PICK n, seen : n = req[r].npm /\ seen = L2!Glob("response", n)
  OBVIOUS
<1>2. req[r].pc = "l2" /\ Elsewhere /\ L1Idle /\ UNCHANGED files
  BY DEF L2Lookup, At, L2!GetGlob
<1>3. req[r] \in Active /\ req[r].pc \in Lookup
  BY <1>2, ActiveTyped DEF Lookup
<1>4. CASE seen = {}
  <2>1. Enter(r, "fetch", None) /\ io' = io
    BY <1>1, <1>4 DEF L2Lookup, L2!GetGlob
  <2>2. PICK i : i = io[r]
    OBVIOUS
  <2>3. i \in L2!Call /\ io' = [io EXCEPT ![r] = i]
    BY <2>1, <2>2, CallsStay
  <2> QED BY <1>2, <1>3, <2>1, <2>3, FilesStay, FetchBegins
<1>5. CASE seen # {}
  <2>1. PICK x, g, i :
          /\ x = [pc |-> "l2get", npm |-> n, doc |-> req[r].doc, since |-> req[r].since]
          /\ g = get[r] /\ i = [pc |-> "sort", seen |-> seen]
    OBVIOUS
  <2>2. Goto(r, "l2get") /\ io' = [io EXCEPT ![r] = i]
    BY <1>1, <1>5, <2>1 DEF L2Lookup, L2!GetGlob
  <2>3. req' = [req EXCEPT ![r] = x]
    BY <1>1, <1>3, <2>1, <2>2, GotoMoves
  <2>4. seen \in L2!Listed /\ \A p \in seen : p.nis = n
    BY <1>1, <1>5 DEF L2!Glob, L2!Listed
  <2>5. i \in L2!Call
    BY <2>1, <2>4 DEF L2!Call, L2!Sorting
  <2>6. x \in InHandler
    BY <1>1, <1>3, <2>1 DEF InHandler, Active, Lookup
  <2>7. Sound(x, g, i)
    <3>1. req[r].since <= now /\ now - req[r].since <= MaxLatency
      BY <1>3, ActiveTyped
    <3>2. g.pc # "idle" => GoodItem(g.key, g.item)
      BY <2>1 DEF IInv, RequestsOK, Sound
    <3> QED BY <2>1, <2>4, <3>1, <3>2 DEF Sound, Store
  <2>8. g \in InL1 /\ get' = [get EXCEPT ![r] = g]
    BY <1>2, <2>1, CallsStay DEF L1Idle
  <2>9. CacheOK' /\ UNCHANGED <<cleanup, ticker>>
    BY <1>2, CacheStays DEF L1Idle
  <2>10. IInv'
    BY <1>2, <2>2, <2>3, <2>5, <2>6, <2>7, <2>8, <2>9, QuietKeeps
  <2>11. Mapped
    <3>1. x.pc \in Lookup /\ x.npm = req[r].npm
      BY <1>1, <2>1 DEF Lookup
    <3> QED BY <1>2, <1>3, <2>3, <3>1, GoesOn
  <2> QED BY <2>10, <2>11
<1> QED BY <1>4, <1>5

\* A step inside of GetCachedResponse that ends neither the call nor the lookup.
LEMMA ExamineKeeps ==
    ASSUME IInv, NEW r \in Request, req[r].pc = "l2get", Elsewhere, L1Idle,
           UNCHANGED <<req, files>>,
           NEW i \in L2!Call, io' = [io EXCEPT ![r] = i],
           i.pc \in {"stat", "remove", "read"},
           \A p \in i.seen : p.nis = req[r].npm, i.path.nis = req[r].npm,
           i.pc = "read" /\ files[i.path] # None =>
              files[i.path].mtime >= req[r].since - FileTTL
    PROVE  IInv' /\ Mapped
<1>1. PICK x, g : x = req[r] /\ g = get[r]
  OBVIOUS
<1>2. /\ x \in InHandler /\ req' = [req EXCEPT ![r] = x]
      /\ g \in InL1 /\ get' = [get EXCEPT ![r] = g] /\ Sound(x, g, io[r])
  BY <1>1, CallsStay DEF L1Idle
<1>3. Sound(x, g, i)
  BY <1>1, <1>2 DEF Sound, Store
<1>4. CacheOK' /\ UNCHANGED <<cleanup, ticker>>
  BY CacheStays DEF L1Idle
<1>5. IInv'
  BY <1>2, <1>3, <1>4, QuietKeeps
<1> QED BY <1>5 DEF Mapped, Views, ReqView, At, Elsewhere

\* One of the listed files is picked, and its age is looked at.
LEMMA L2ExamineKeeps ==
    ASSUME IInv, NEW r \in Request, L2Examine(r)
    PROVE  IInv' /\ Mapped
<1>1. /\ req[r].pc = "l2get" /\ Elsewhere /\ L1Idle /\ UNCHANGED req
      /\ L2!GetSort(r) \/ L2!GetStat(r)
  BY DEF L2Examine, At
<1>2. /\ \A p \in io[r].seen : p.nis = req[r].npm
      /\ io[r].pc # "sort" => io[r].path.nis = req[r].npm
  BY <1>1 DEF IInv, RequestsOK, Sound
<1>3. CASE L2!GetSort(r)
  <2>1. PICK p \in L2!First(io[r].seen) :
          io' = [io EXCEPT ![r] = [pc |-> "stat", path |-> p, seen |-> io[r].seen]]
    BY <1>3 DEF L2!GetSort
  <2>2. io[r] \in L2!Sorting /\ UNCHANGED files
    BY <1>3, CallKinds DEF L2!GetSort
  <2>3. PICK i : i = [pc |-> "stat", path |-> p, seen |-> io[r].seen]
    OBVIOUS
  <2>4. p \in io[r].seen
    BY <2>1 DEF L2!First
  <2>5. i \in L2!Call
    BY <2>2, <2>3, <2>4 DEF L2!Call, L2!Sorting, L2!Reading, L2!Listed
  <2>6. io' = [io EXCEPT ![r] = i]
    BY <2>1, <2>3
  <2>7. /\ i.pc = "stat" /\ i.path.nis = req[r].npm
        /\ \A q \in i.seen : q.nis = req[r].npm
    BY <1>2, <2>3, <2>4
  <2> QED BY <1>1, <2>2, <2>5, <2>6, <2>7, ExamineKeeps
<1>4. CASE L2!GetStat(r)
  <2>1. PICK p, pc : p = io[r].path /\ pc = IF L2!Expired(p) THEN "remove" ELSE "read"
    OBVIOUS
  <2>2. /\ io[r].pc = "stat" /\ files[p] # None /\ UNCHANGED files
        /\ io' = [io EXCEPT ![r].pc = pc]
    BY <1>4, <2>1 DEF L2!GetStat, L2!Exists
  <2>3. io[r] \in L2!Reading /\ p \in L2!Path
    BY <2>1, <2>2, CallKinds, PathTyped
  <2>4. PICK i : i = [pc |-> pc, path |-> p, seen |-> io[r].seen]
    OBVIOUS
  <2>5. io' = [io EXCEPT ![r] = i]
    <3>1. io = [d \in Request |-> io[d]]
      BY DEF IInv, RequestsOK
    <3>2. [io[r] EXCEPT !.pc = pc] = i
      BY <2>1, <2>3, <2>4 DEF L2!Reading
    <3> QED BY <2>2, <3>1, <3>2
  <2>6. i \in L2!Call
    BY <2>1, <2>3, <2>4 DEF L2!Call, L2!Reading
  <2>7. /\ i.pc \in {"stat", "remove", "read"} /\ i.path.nis = req[r].npm
        /\ \A q \in i.seen : q.nis = req[r].npm
    BY <1>2, <2>1, <2>2, <2>4
  <2>8. ASSUME i.pc = "read"
        PROVE  files[i.path].mtime >= req[r].since - FileTTL
    <3>1. ~L2!Expired(p) /\ i.path = p
      BY <2>1, <2>4, <2>8
    <3>2. ~(now - files[p].mtime > FileTTL)
      BY <3>1 DEF L2!Expired, L2!OlderThanTTL
    <3>3. PICK m : m = files[p].mtime
      OBVIOUS
    <3>4. m \in Nat /\ ~(now - m > FileTTL)
      BY <2>2, <2>3, <3>2, <3>3, FileTyped
    <3>5. req[r].since \in Nat /\ req[r].since <= now
      BY <1>1, ActiveTyped DEF Lookup
    <3>6. m >= req[r].since - FileTTL
      BY <3>4, <3>5, Numbers
    <3> QED BY <3>1, <3>3, <3>6
  <2> QED BY <1>1, <2>2, <2>5, <2>6, <2>7, <2>8, ExamineKeeps
<1> QED BY <1>1, <1>3, <1>4

\* The call ends without data: the newest file is removed, or is gone.
LEMMA L2MissKeeps ==
    ASSUME IInv, NEW r \in Request, L2Miss(r)
    PROVE  IInv' /\ Mapped
<1>1. /\ req[r].pc = "l2get" /\ Elsewhere /\ L1Idle /\ Enter(r, "fetch", None)
      /\ L2!GetStatError(r) \/ L2!GetRemove(r) \/ L2!GetReadError(r)
  BY DEF L2Miss, At, L2!GetMiss
<1>2. io' = [io EXCEPT ![r] = L2!Idle] /\ L2!Idle \in L2!Call
  BY <1>1 DEF L2!GetStatError, L2!GetRemove, L2!GetReadError, L2!Fail, L2!Call
<1>3. FilesOK' /\ \A p \in L2!Path : Touched(p)
  <2>1. CASE UNCHANGED files
    BY <1>1, <2>1, FilesStay
  <2>2. CASE files' = [files EXCEPT ![io[r].path] = None]
    <3>1. \A p \in L2!Path : files'[p] = None \/ files'[p] = files[p]
      BY <2>2 DEF IInv, FilesOK
    <3>2. \A p, file : GoodFile(p, file)' <=> GoodFile(p, file)
      BY <1>1 DEF GoodFile, Good, Elsewhere
    <3>3. files' \in [L2!Path -> L2!File \cup {None}]
      BY <2>2 DEF IInv, FilesOK
    <3>4. ASSUME NEW p \in L2!Path, files'[p] # None
          PROVE  GoodFile(p, files[p])'
      <4>1. PICK file : file = files[p]
        OBVIOUS
      <4>2. files'[p] = file /\ GoodFile(p, file)
        BY <3>1, <3>4, <4>1 DEF IInv, FilesOK
      <4> QED BY <3>2, <4>2
    <3> QED BY <3>1, <3>3, <3>4 DEF FilesOK, Touched
  <2> QED BY <1>1, <2>1, <2>2 DEF L2!GetStatError, L2!GetRemove, L2!GetReadError, L2!Fail
<1>4. req[r].pc \in Lookup
  BY <1>1 DEF Lookup
<1> QED BY <1>1, <1>2, <1>3, <1>4, FetchBegins

\* A whole document is kept for the promotion, anything else is a miss.
LEMMA L2ReadKeeps ==
    ASSUME IInv, NEW r \in Request, L2Read(r)
    PROVE  IInv' /\ Mapped
<1>1. PICK p, data : p = io[r].path /\ data = files[p].data
  OBVIOUS
<1>2. /\ req[r].pc = "l2get" /\ Elsewhere /\ L1Idle /\ UNCHANGED files
      /\ io[r].pc = "read" /\ files[p] # None /\ io' = [io EXCEPT ![r] = L2!Idle]
  BY <1>1 DEF L2Read, At, L2!GetRead, L2!Exists
<1>3. req[r] \in Active /\ req[r].pc \in Lookup /\ L2!Idle \in L2!Call
  BY <1>2, ActiveTyped DEF Lookup, L2!Call
<1>4. CASE data \notin Document
  <2>1. Enter(r, "fetch", None)
    BY <1>1, <1>4 DEF L2Read
  <2> QED BY <1>2, <1>3, <2>1, FilesStay, FetchBegins
<1>5. CASE data \in Document
  <2>1. PICK x, g :
          /\ x = [pc |-> "promote", npm |-> req[r].npm, doc |-> data, since |-> req[r].since]
          /\ g = get[r]
    OBVIOUS
  <2>2. req' = [req EXCEPT ![r].pc = "promote", ![r].doc = data]
    BY <1>1, <1>5 DEF L2Read
  <2>3. req' = [req EXCEPT ![r] = x]
    <3>1. req = [d \in Request |-> req[d]]
      BY DEF IInv, RequestsOK
    <3>2. req' = [d \in Request |-> req'[d]] /\ \A d \in Request : d # r => req'[d] = req[d]
      BY <2>2, <3>1
    <3>3. req'[r] = [[req[r] EXCEPT !.pc = "promote"] EXCEPT !.doc = data]
      BY <2>2, <3>1
    <3>4. req'[r] = x
      BY <1>3, <2>1, <3>3 DEF Active
    <3> QED BY <3>1, <3>2, <3>4
  <2>4. p \in L2!Path /\ p.nis = req[r].npm /\ files[p].mtime >= req[r].since - FileTTL
    BY <1>1, <1>2, PathTyped DEF IInv, RequestsOK, Sound
  <2>5. Good(data, p.nis, files[p].mtime - MaxLatency) /\ files[p].mtime \in Nat
    BY <1>1, <1>2, <1>5, <2>4, FileTyped DEF GoodFile
  <2>6. Good(data, req[r].npm, req[r].since - FileTTL - MaxLatency)
    <3>1. PICK n, m, s : n = req[r].npm /\ m = files[p].mtime /\ s = req[r].since
      OBVIOUS
    <3>2. n \in Npm /\ s \in Nat /\ m \in Nat /\ m >= s - FileTTL
      BY <1>3, <2>4, <2>5, <3>1, ActiveTyped
    <3>3. /\ s - FileTTL - MaxLatency \in Int /\ m - MaxLatency \in Int
          /\ s - FileTTL - MaxLatency <= m - MaxLatency
      BY <3>2, Numbers
    <3>4. Good(data, n, m - MaxLatency)
      BY <2>4, <2>5, <3>1
    <3> QED BY <3>1, <3>2, <3>3, <3>4, GoodEarlier DEF IInv
  <2>7. x \in InHandler
    BY <1>3, <1>5, <2>1 DEF InHandler, Active, Lookup
  <2>8. Sound(x, g, L2!Idle)
    <3>1. req[r].since <= now /\ now - req[r].since <= MaxLatency
      BY <1>3, ActiveTyped
    <3>2. g.pc # "idle" => GoodItem(g.key, g.item)
      BY <2>1 DEF IInv, RequestsOK, Sound
    <3> QED BY <2>1, <2>6, <3>1, <3>2 DEF Sound, Store
  <2>9. g \in InL1 /\ get' = [get EXCEPT ![r] = g]
    BY <1>2, <2>1, CallsStay DEF L1Idle
  <2>10. CacheOK' /\ UNCHANGED <<cleanup, ticker>>
    BY <1>2, CacheStays DEF L1Idle
  <2>11. IInv'
    BY <1>2, <1>3, <2>3, <2>7, <2>8, <2>9, <2>10, QuietKeeps
  <2>12. Mapped
    <3>1. x.pc \in Lookup /\ x.npm = req[r].npm
      BY <2>1 DEF Lookup
    <3> QED BY <1>2, <1>3, <2>3, <3>1, GoesOn
  <2> QED BY <2>11, <2>12
<1> QED BY <1>4, <1>5

-----------------------------------------------------------------------------
(* The steps of a request from the download on. *)

\* The version downloaded is the newest one: nothing has superseded it.
LEMMA FetchOKKeeps ==
    ASSUME IInv, NEW r \in Request, FetchOK(r)
    PROVE  IInv' /\ Mapped
<1>1. PICK n, doc, x, g, i :
        /\ n = req[r].npm /\ doc = [npm |-> n, version |-> Len(published[n])]
        /\ x = [pc |-> "set", npm |-> n, doc |-> doc, since |-> now]
        /\ g = get[r] /\ i = io[r]
  OBVIOUS
<1>2. /\ req[r].pc = "fetch" /\ Elsewhere /\ Enter(r, "set", doc)
      /\ UNCHANGED <<cache, get, cleanup, ticker, files, io>>
  BY <1>1 DEF FetchOK, At, L1Idle, L2Idle
<1>3. req[r].pc \in Fetch /\ n \in Npm
  BY <1>1, <1>2, ActiveTyped DEF Fetch
<1>4. req' = [req EXCEPT ![r] = x]
  BY <1>1, <1>2, EnterMoves
<1>5. Len(published[n]) \in 1 .. MaxVersion /\ published[n] \in Seq(0 .. MaxTime)
  BY <1>3 DEF IInv, PublishedOK
<1>6. Good(doc, n, now)
  <2>1. doc \in Document /\ doc.npm = n /\ doc.version = Len(published[n])
    BY <1>1, <1>3, <1>5 DEF Document
  <2>2. DOMAIN published[n] = 1 .. Len(published[n])
    BY <1>5
  <2>3. /\ Len(published[n]) \in DOMAIN published[n]
        /\ Len(published[n]) + 1 \notin DOMAIN published[n]
    BY <1>5, <2>2, HandlerAssumption
  <2> QED BY <2>1, <2>3 DEF Good
<1>7. x \in InHandler
  BY <1>1, <1>3, <1>6, Numbers DEF InHandler, Active, Store, Good
<1>8. Sound(x, g, i)
  <2>1. g.pc # "idle" => GoodItem(g.key, g.item)
    BY <1>1 DEF IInv, RequestsOK, Sound
  <2>2. now <= now /\ now - now <= MaxLatency
    BY Numbers
  <2> QED BY <1>1, <1>6, <2>1, <2>2 DEF Sound
<1>9. IInv'
  <2>1. /\ g \in InL1 /\ get' = [get EXCEPT ![r] = g]
        /\ i \in L2!Call /\ io' = [io EXCEPT ![r] = i]
    BY <1>1, <1>2, CallsStay
  <2> QED BY <1>2, <1>4, <1>7, <1>8, <2>1, CacheStays, QuietKeeps
<1>10. Mapped
  <2>1. x.pc \in Store /\ x.npm = req[r].npm
    BY <1>1 DEF Store
  <2> QED BY <1>2, <1>3, <1>4, <2>1, GoesOn
<1> QED BY <1>9, <1>10

\* A download that fails or gives up changes neither cache.
LEMMA FetchFailsKeeps ==
    ASSUME IInv, NEW r \in Request, FetchFails(r) \/ FetchTimesOut(r)
    PROVE  IInv' /\ Mapped
<1>1. /\ req[r].pc = "fetch" /\ Elsewhere /\ Reply(r, Error, FALSE)
      /\ UNCHANGED <<cache, get, cleanup, ticker, files, io>>
  BY DEF FetchFails, FetchTimesOut, At, L1Idle, L2Idle
<1>2. req[r].pc \in Fetch
  BY <1>1 DEF Fetch
<1>3. Mapped
  BY <1>1, <1>2, RefuseMaps
<1>4. IInv'
  <2>1. PICK g, i : g = get[r] /\ i = io[r]
    OBVIOUS
  <2>2. /\ g \in InL1 /\ get' = [get EXCEPT ![r] = g]
        /\ i \in L2!Call /\ io' = [io EXCEPT ![r] = i]
    BY <1>1, <2>1, CallsStay
  <2>3. g.pc # "idle" => GoodItem(g.key, g.item)
    BY <2>1 DEF IInv, RequestsOK, Sound
  <2>4. CacheOK' /\ FilesOK' /\ \A p \in L2!Path : Touched(p)
    BY <1>1, CacheStays, FilesStay
  <2> QED BY <1>1, <1>2, <2>2, <2>3, <2>4, ReplyKeeps
<1> QED BY <1>3, <1>4

\* The file is named.
LEMMA StoreL2Keeps ==
    ASSUME IInv, NEW r \in Request, StoreL2(r)
    PROVE  IInv' /\ Mapped
<1>1. PICK n, doc, path, x, g, i :
        /\ n = req[r].npm /\ doc = req[r].doc
        /\ path = [kind |-> "response", nis |-> n, stamp |-> now]
        /\ x = [pc |-> "saving", npm |-> n, doc |-> doc, since |-> req[r].since]
        /\ g = get[r] /\ i = [pc |-> "open", data |-> doc, path |-> path]
  OBVIOUS
<1>2. /\ req[r].pc = "store" /\ Elsewhere /\ Goto(r, "saving")
      /\ io' = [io EXCEPT ![r] = i]
      /\ UNCHANGED <<cache, get, cleanup, ticker, files>>
  BY <1>1 DEF StoreL2, At, L1Idle, L2!SaveName
<1>3. req[r] \in Active /\ req[r].pc \in Store /\ n \in Npm
  BY <1>1, <1>2, ActiveTyped DEF Store
<1>4. req' = [req EXCEPT ![r] = x]
  BY <1>1, <1>2, <1>3, GotoMoves
<1>5. Good(doc, n, req[r].since) /\ doc \in Document
  <2>1. Good(doc, n, req[r].since)
    BY <1>1, <1>3 DEF IInv, RequestsOK, Sound
  <2> QED BY <2>1 DEF Good
<1>6. x \in InHandler
  BY <1>1, <1>3 DEF InHandler, Active, Store
<1>7. i \in L2!Call
  <2>1. path \in L2!Path
    BY <1>1, <1>3, Numbers DEF L2!Path
  <2> QED BY <1>1, <1>5, <2>1 DEF L2!Call, L2!Saving
<1>8. Sound(x, g, i)
  <2>1. g.pc # "idle" => GoodItem(g.key, g.item)
    BY <1>1 DEF IInv, RequestsOK, Sound
  <2>2. req[r].since <= now /\ now - req[r].since <= MaxLatency
    BY <1>3, ActiveTyped
  <2> QED BY <1>1, <1>5, <2>1, <2>2 DEF Sound
<1>9. IInv'
  <2>1. g \in InL1 /\ get' = [get EXCEPT ![r] = g]
    BY <1>1, <1>2, CallsStay
  <2> QED BY <1>2, <1>4, <1>6, <1>7, <1>8, <2>1, CacheStays, QuietKeeps
<1>10. Mapped
  <2>1. x.pc \in Store /\ x.npm = req[r].npm
    BY <1>1 DEF Store
  <2> QED BY <1>2, <1>3, <1>4, <2>1, GoesOn
<1> QED BY <1>9, <1>10

\* A file written now holds nothing, a fragment, or a document that was current
\* MaxLatency ago.
LEMMA FileWritten ==
    ASSUME IInv, Elsewhere, NEW p \in L2!Path, NEW data \in Document \cup {Empty, Torn},
           data \in Document => Good(data, p.nis, now - MaxLatency),
           files' = [files EXCEPT ![p] = [mtime |-> now, data |-> data]]
    PROVE  FilesOK' /\ \A q \in L2!Path : Touched(q)
<1>1. PICK new : new = [mtime |-> now, data |-> data]
  OBVIOUS
<1>2. files' = [files EXCEPT ![p] = new]
  BY <1>1
<1>3. new \in L2!File /\ new.mtime = now /\ GoodFile(p, new)
  BY <1>1, Numbers DEF L2!File, GoodFile
<1>4. \A q, file : GoodFile(q, file)' <=> GoodFile(q, file)
  BY DEF GoodFile, Good, Elsewhere
<1>5. files' \in [L2!Path -> L2!File \cup {None}]
  BY <1>2, <1>3 DEF IInv, FilesOK
<1>6. ASSUME NEW q \in L2!Path, files'[q] # None
      PROVE  GoodFile(q, files[q])'
  <2>1. PICK file : file = files'[q]
    OBVIOUS
  <2>2. GoodFile(q, file)
    BY <1>2, <1>3, <1>6, <2>1 DEF IInv, FilesOK
  <2> QED BY <1>4, <2>1, <2>2
<1>7. \A q \in L2!Path : Touched(q)
  BY <1>2, <1>3 DEF IInv, FilesOK, Touched
<1> QED BY <1>5, <1>6, <1>7 DEF FilesOK

\* The file is opened, and what it held is gone.
LEMMA SavingKeeps ==
    ASSUME IInv, NEW r \in Request, Saving(r)
    PROVE  IInv' /\ Mapped
<1>1. PICK p, x, g, i :
        /\ p = io[r].path /\ x = req[r] /\ g = get[r]
        /\ i = [pc |-> "write", path |-> p, data |-> io[r].data]
  OBVIOUS
<1>2. /\ req[r].pc = "saving" /\ Elsewhere /\ UNCHANGED <<req, cache, get, cleanup, ticker>>
      /\ io[r].pc = "open" /\ io' = [io EXCEPT ![r].pc = "write"]
      /\ files' = [files EXCEPT ![p] = [mtime |-> now, data |-> Empty]]
  BY <1>1 DEF Saving, At, L1Idle, L2!SaveOpen
<1>3. io[r] \in L2!Saving /\ p \in L2!Path
  BY <1>1, <1>2, CallKinds, PathTyped
<1>4. io' = [io EXCEPT ![r] = i]
  <2>1. io = [d \in Request |-> io[d]]
    BY DEF IInv, RequestsOK
  <2>2. [io[r] EXCEPT !.pc = "write"] = i
    BY <1>1, <1>3 DEF L2!Saving
  <2> QED BY <1>2, <2>1, <2>2
<1>5. i \in L2!Call
  BY <1>1, <1>3 DEF L2!Call, L2!Saving
<1>6. FilesOK' /\ \A q \in L2!Path : Touched(q)
  BY <1>2, <1>3, FileWritten, HandlerAssumption
<1>7. /\ x \in InHandler /\ req' = [req EXCEPT ![r] = x]
      /\ g \in InL1 /\ get' = [get EXCEPT ![r] = g] /\ Sound(x, g, io[r])
  BY <1>1, <1>2, CallsStay
<1>8. Sound(x, g, i)'
  <2>1. x.pc = "saving"
    BY <1>1, <1>2
  <2>2. /\ Good(x.doc, x.npm, x.since)' <=> Good(x.doc, x.npm, x.since)
        /\ GoodItem(g.key, g.item)' <=> GoodItem(g.key, g.item)
    BY <1>2 DEF GoodItem, Good, Elsewhere
  <2>3. i.pc = "write" /\ i.path = io[r].path /\ i.data = io[r].data
    BY <1>1
  <2>4. /\ x.since <= now /\ now - x.since <= MaxLatency
        /\ g.pc # "idle" => GoodItem(g.key, g.item)
        /\ Good(x.doc, x.npm, x.since)
        /\ i.path.nis = x.npm /\ i.data = x.doc
    BY <1>7, <2>1, <2>3 DEF Sound, Store
  <2> QED BY <1>2, <2>1, <2>2, <2>3, <2>4 DEF Sound, Elsewhere
<1>9. IInv'
  BY <1>2, <1>4, <1>5, <1>6, <1>7, <1>8, CacheStays, StepKeeps
<1> QED BY <1>2, <1>9 DEF Mapped, Views, ReqView, At, Elsewhere

\* The document is written, or the write fails; the answer is the same.
LEMMA StoreDoneKeeps ==
    ASSUME IInv, NEW r \in Request, StoreDone(r)
    PROVE  IInv' /\ Mapped
<1>1. PICK n, doc, p, s : n = req[r].npm /\ doc = req[r].doc /\ p = io[r].path /\ s = req[r].since
  OBVIOUS
<1>2. /\ req[r].pc = "saving" /\ Elsewhere /\ Reply(r, doc, FALSE)
      /\ UNCHANGED <<cache, get, cleanup, ticker>>
      /\ L2!SaveWrite(r) \/ L2!SaveError(r)
  BY <1>1 DEF StoreDone, At, L1Idle
<1>3. req[r].pc \in Store /\ n \in Npm /\ s \in Nat /\ s <= now /\ now - s <= MaxLatency
  BY <1>1, <1>2, ActiveTyped DEF Store
<1>4. Good(doc, n, s) /\ io[r].pc \in {"open", "write"} /\ p.nis = n /\ io[r].data = doc
  BY <1>1, <1>2 DEF IInv, RequestsOK, Sound, Store
<1>5. doc \in Document /\ p \in L2!Path
  BY <1>1, <1>4, PathTyped DEF Good
<1>6. Good(doc, n, now - MaxLatency)
  <2>1. now - MaxLatency \in Int /\ s \in Int /\ now - MaxLatency <= s
    BY <1>3, Numbers
  <2> QED BY <1>3, <1>4, <2>1, GoodEarlier DEF IInv
<1>7. FilesOK' /\ \A q \in L2!Path : Touched(q)
  <2>1. CASE UNCHANGED files
    BY <1>2, <2>1, FilesStay
  <2>2. CASE files' = [files EXCEPT ![p] = [mtime |-> now, data |-> doc]]
    BY <1>2, <1>4, <1>5, <1>6, <2>2, FileWritten
  <2>3. CASE files' = [files EXCEPT ![p] = [mtime |-> now, data |-> Torn]]
    BY <1>2, <1>5, <2>3, FileWritten, HandlerAssumption
  <2>4. \A old : L2!Written(old, doc) \subseteq {doc, Torn}
    BY DEF L2!Written
  <2> QED BY <1>1, <1>2, <1>4, <2>1, <2>2, <2>3, <2>4 DEF L2!SaveWrite, L2!SaveError, L2!Fail
<1>8. io' = [io EXCEPT ![r] = L2!Idle] /\ L2!Idle \in L2!Call
  BY <1>2 DEF L2!SaveWrite, L2!SaveError, L2!Fail, L2!Call
<1>9. Mapped
  <2>1. Good(doc, req[r].npm, now - (IF FALSE THEN StaleBound ELSE MaxLatency))
    BY <1>1, <1>6
  <2> QED BY <1>2, <1>3, <2>1, AnswerMaps
<1>10. IInv'
  <2>1. PICK g : g = get[r]
    OBVIOUS
  <2>2. g \in InL1 /\ get' = [get EXCEPT ![r] = g]
    BY <1>2, <2>1, CallsStay
  <2>3. g.pc # "idle" => GoodItem(g.key, g.item)
    BY <2>1 DEF IInv, RequestsOK, Sound
  <2> QED BY <1>2, <1>3, <1>5, <1>7, <1>8, <2>2, <2>3, CacheStays, ReplyKeeps
<1> QED BY <1>9, <1>10

\* The request is over.
LEMMA DeliverKeeps ==
    ASSUME IInv, NEW r \in Request, Deliver(r)
    PROVE  IInv' /\ Mapped
<1>1. /\ req[r].pc = "replied" /\ Elsewhere /\ req' = [req EXCEPT ![r] = IdleReq]
      /\ UNCHANGED <<cache, get, cleanup, ticker, files, io>>
  BY DEF Deliver, At, L1Idle, L2Idle
<1>2. IdleReq \in InHandler
  BY DEF InHandler
<1>3. IInv'
  <2>1. PICK g, i : g = get[r] /\ i = io[r]
    OBVIOUS
  <2>2. /\ g \in InL1 /\ get' = [get EXCEPT ![r] = g]
        /\ i \in L2!Call /\ io' = [io EXCEPT ![r] = i]
    BY <1>1, <2>1, CallsStay
  <2>3. Sound(IdleReq, g, i)
    <3>1. g.pc # "idle" => GoodItem(g.key, g.item)
      BY <2>1 DEF IInv, RequestsOK, Sound
    <3> QED BY <3>1 DEF Sound, IdleReq, Lookup, Fetch, Store
  <2> QED BY <1>1, <1>2, <2>2, <2>3, CacheStays, QuietKeeps
<1>4. Retrieval!Deliver(r)
  <2>1. View(IdleReq) = [npm |-> None, reply |-> None, cached |-> FALSE]
    BY DEF View, IdleReq
  <2>2. Views' = [Views EXCEPT ![r] = View(IdleReq)]
    BY <1>1, ViewMoves
  <2>3. Views[r].reply # None
    <3>1. req[r] \in Replied
      BY <1>1, ReqKinds
    <3>2. req[r].doc # None
      BY <3>1, HandlerAssumption DEF Replied
    <3> QED BY <1>1, <3>2 DEF Views, ReqView, At
  <2> QED BY <1>1, <2>1, <2>2, <2>3
          DEF Retrieval!Deliver, Retrieval!NoRequest, Elsewhere, Views
<1> QED BY <1>3, <1>4 DEF Mapped, Retrieval!Next

-----------------------------------------------------------------------------
(* The steps of nobody's request. *)

\* The sweep only removes items.
LEMMA SweepKeeps ==
    ASSUME IInv, Sweep
    PROVE  IInv' /\ Mapped
<1>1. /\ Elsewhere /\ UNCHANGED <<req, get, files, io>>
      /\ L1!CleanupWake \/ L1!CleanupSweep
  BY DEF Sweep, L2Idle, L1!CleanupWake, L1!CleanupSweep, Elsewhere
<1>2. CacheOK'
  <2>1. CASE UNCHANGED cache
    BY <1>1, <2>1, CacheStays
  <2>2. CASE L1!CleanupSweep
    <3>1. \A n \in Npm : cache'[n] = None \/ cache'[n] = cache[n]
      BY <2>2 DEF L1!CleanupSweep
    <3>2. cache' \in [Npm -> L1!Item \cup {None}]
      BY <2>2 DEF L1!CleanupSweep, IInv, CacheOK
    <3>3. \A n, item : GoodItem(n, item)' <=> GoodItem(n, item)
      BY <1>1 DEF GoodItem, Good, Elsewhere
    <3>4. ASSUME NEW n \in Npm, cache'[n] # None
          PROVE  GoodItem(n, cache[n])'
      <4>1. PICK item : item = cache[n]
        OBVIOUS
      <4>2. cache'[n] = item /\ GoodItem(n, item)
        BY <3>1, <3>4, <4>1 DEF IInv, CacheOK
      <4> QED BY <3>3, <4>2
    <3> QED BY <3>2, <3>4 DEF CacheOK
  <2> QED BY <1>1, <2>1, <2>2 DEF L1!CleanupWake
<1>3. SweepOK'
  <2>1. CASE L1!CleanupWake
    BY <2>1, Numbers DEF L1!CleanupWake, IInv, SweepOK
  <2>2. CASE L1!CleanupSweep
    <3>1. cleanup \in [pc : {"select", "lock", "stopped"}, now : 0 .. MaxTime] /\ ticker \in BOOLEAN
      BY DEF IInv, SweepOK
    <3>2. cleanup' = [cleanup EXCEPT !.pc = "select"] /\ ticker' = ticker
      BY <2>2 DEF L1!CleanupSweep
    <3> QED BY <3>1, <3>2 DEF SweepOK
  <2> QED BY <1>1, <2>1, <2>2
<1>4. FilesOK' /\ PublishedOK' /\ now' \in 0 .. MaxTime
  BY <1>1, FilesStay DEF IInv, PublishedOK, Elsewhere
<1>5. RequestsOK'
  <2>1. ASSUME NEW d \in Request
        PROVE  Sound(req[d], get[d], io[d])'
    <3>1. PICK x, g, i : x = req[d] /\ g = get[d] /\ i = io[d]
      OBVIOUS
    <3>2. Sound(x, g, i)
      BY <3>1 DEF IInv, RequestsOK
    <3>3. Sound(x, g, i)'
      BY <1>1, <3>2, SoundSame
    <3> QED BY <1>1, <3>1, <3>3
  <2> QED BY <1>1, <2>1 DEF IInv, RequestsOK
<1> QED BY <1>1, <1>2, <1>3, <1>4, <1>5
        DEF IInv, Mapped, Views, ReqView, At, Elsewhere

\* A crash empties the memory and leaves the files as they are.
LEMMA CrashKeeps ==
    ASSUME IInv, Crash
    PROVE  IInv' /\ Mapped
<1>1. /\ cache' = [n \in Npm |-> None] /\ get' = [r \in Request |-> L1!IdleGet]
      /\ cleanup' = [pc |-> "select", now |-> 0] /\ ticker' = FALSE
      /\ io' = [r \in Request |-> L2!Idle] /\ req' = [r \in Request |-> IdleReq]
      /\ Elsewhere /\ UNCHANGED files
  BY DEF Crash, L2!Crash
<1>2. CacheOK'
  BY <1>1 DEF CacheOK
<1>3. FilesOK' /\ PublishedOK' /\ now' \in 0 .. MaxTime
  BY <1>1, FilesStay DEF IInv, PublishedOK, Elsewhere
<1>4. SweepOK'
  <2>1. [pc |-> "select", now |-> 0] \in [pc : {"select", "lock", "stopped"}, now : 0 .. MaxTime]
    BY Numbers
  <2>2. ticker' \in BOOLEAN
    BY <1>1
  <2> QED BY <1>1, <2>1, <2>2 DEF SweepOK
<1>5. RequestsOK'
  <2>1. /\ get' \in [Request -> InL1] /\ io' \in [Request -> L2!Call]
        /\ req' \in [Request -> InHandler]
    BY <1>1 DEF InL1, InHandler, L2!Call
  <2>2. PICK x, g, i : x = IdleReq /\ g = L1!IdleGet /\ i = L2!Idle
    OBVIOUS
  <2>3. Sound(x, g, i)'
    BY <2>2 DEF Sound, IdleReq, L1!IdleGet, Lookup, Fetch, Store
  <2>4. \A d \in Request : req'[d] = x /\ get'[d] = g /\ io'[d] = i
    BY <1>1, <2>2
  <2>5. ASSUME NEW d \in Request
        PROVE  Sound(req[d], get[d], io[d])'
    BY <2>3, <2>4
  <2> QED BY <2>1, <2>5 DEF RequestsOK
<1>6. Retrieval!Restart
  <2>1. Views' = [r \in Request |-> View(req'[r])]
    BY DEF Views, ReqView, View, At
  <2>2. View(IdleReq) = [npm |-> None, reply |-> None, cached |-> FALSE]
    BY DEF View, IdleReq
  <2>3. Views' = [r \in Request |-> [npm |-> None, reply |-> None, cached |-> FALSE]]
    BY <1>1, <2>1, <2>2
  <2> QED BY <1>1, <2>3 DEF Retrieval!Restart, Retrieval!NoRequest, Elsewhere, Views
<1> QED BY <1>2, <1>3, <1>4, <1>5, <1>6 DEF IInv, Mapped, Retrieval!Next

\* What was current until t, a time of the past, still was when a new version is
\* published now.
LEMMA PublishGood ==
    ASSUME IInv, NEW m \in Npm, Publish(m),
           NEW n \in Npm, NEW doc, NEW t \in Int, t <= now, Good(doc, n, t)
    PROVE  Good(doc, n, t)'
<1>1. published' = [published EXCEPT ![m] = Append(published[m], now)]
  BY DEF Publish
<1>2. /\ published \in [Npm -> Seq(0 .. MaxTime)] /\ now \in 0 .. MaxTime
      /\ published[n] \in Seq(0 .. MaxTime) /\ published[m] \in Seq(0 .. MaxTime)
  BY DEF IInv, PublishedOK
<1>3. CASE n # m
  BY <1>1, <1>2, <1>3 DEF Good
<1>4. CASE n = m
  <2>1. PICK s, u : s = published[m] /\ u = Append(s, now)
    OBVIOUS
  <2>2. /\ s \in Seq(0 .. MaxTime) /\ DOMAIN s = 1 .. Len(s)
        /\ DOMAIN u = 1 .. (Len(s) + 1) /\ u[Len(s) + 1] = now
        /\ \A k \in 1 .. Len(s) : u[k] = s[k]
    BY <1>2, <2>1
  <2>3. published'[n] = u /\ published[n] = s
    BY <1>1, <1>2, <1>4, <2>1
  <2>4. doc.version \in DOMAIN s
    BY <2>3 DEF Good
  <2>5. doc.version \in DOMAIN u
    BY <2>2, <2>4
  <2>6. ASSUME doc.version + 1 \in DOMAIN u
        PROVE  u[doc.version + 1] >= t
    <3>1. CASE doc.version + 1 \in DOMAIN s
      BY <2>2, <2>3, <3>1 DEF Good
    <3>2. CASE doc.version + 1 \notin DOMAIN s
      <4>1. doc.version + 1 = Len(s) + 1
        BY <2>2, <2>4, <2>6, <3>2
      <4> QED BY <2>2, <4>1
    <3> QED BY <3>1, <3>2
  <2> QED BY <2>3, <2>5, <2>6 DEF Good
<1> QED BY <1>3, <1>4

\* A new version disturbs no document at hand.
LEMMA PublishKeeps ==
    ASSUME IInv, NEW m \in Npm, Publish(m)
    PROVE  IInv' /\ Mapped
<1>1. /\ UNCHANGED <<now, req, cache, get, cleanup, ticker, files, io>>
      /\ published' = [published EXCEPT ![m] = Append(published[m], now)]
      /\ Len(published[m]) < MaxVersion
  BY DEF Publish, L1Idle, L2Idle
<1>2. PublishedOK'
  <2>1. /\ published \in [Npm -> Seq(0 .. MaxTime)] /\ now \in 0 .. MaxTime
        /\ published[m] \in Seq(0 .. MaxTime)
        /\ \A n \in Npm : Len(published[n]) \in 1 .. MaxVersion
    BY DEF IInv, PublishedOK
  <2>2. PICK u : u = Append(published[m], now)
    OBVIOUS
  <2>3. u \in Seq(0 .. MaxTime) /\ Len(u) = Len(published[m]) + 1
    BY <2>1, <2>2
  <2>4. Len(u) \in 1 .. MaxVersion
    BY <1>1, <2>1, <2>3, HandlerAssumption
  <2>5. published' = [published EXCEPT ![m] = u]
    BY <1>1, <2>2
  <2> QED BY <2>1, <2>3, <2>4, <2>5 DEF PublishedOK
<1>3. ASSUME NEW n \in Npm, NEW item, item.expiration \in Nat, GoodItem(n, item)
      PROVE  GoodItem(n, item)'
  <2>1. PICK t : t = item.expiration - StaleBound
    OBVIOUS
  <2>2. item.expiration <= now + L1TTL /\ Good(item.value, n, t)
    BY <1>3, <2>1 DEF GoodItem
  <2>3. t \in Int /\ t <= now
    BY <1>3, <2>1, <2>2, Numbers
  <2>4. Good(item.value, n, t)'
    BY <2>2, <2>3, PublishGood
  <2>5. t = (item.expiration - StaleBound)'
    BY <2>1 DEF StaleBound
  <2> QED BY <1>1, <2>2, <2>4, <2>5 DEF GoodItem
<1>4. CacheOK'
  <2>1. ASSUME NEW n \in Npm, cache[n] # None
        PROVE  GoodItem(n, cache[n])'
    <3>1. PICK item : item = cache[n]
      OBVIOUS
    <3>2. item \in L1!Item /\ GoodItem(n, item)
      BY <2>1, <3>1 DEF IInv, CacheOK
    <3>3. GoodItem(n, item)'
      BY <1>3, <3>2 DEF L1!Item
    <3>4. cache'[n] = item
      BY <1>1, <3>1
    <3> QED BY <3>3, <3>4
  <2> QED BY <1>1, <2>1 DEF IInv, CacheOK
<1>5. FilesOK'
  <2>1. ASSUME NEW p \in L2!Path, files[p] # None
        PROVE  GoodFile(p, files[p])'
    <3>1. PICK file, t : file = files[p] /\ t = file.mtime - MaxLatency
      OBVIOUS
    <3>2. file.mtime \in Nat /\ file.mtime <= now /\ p.nis \in Npm
      BY <2>1, <3>1, FileTyped DEF GoodFile, L2!Path
    <3>3. t \in Int /\ t <= now
      BY <3>1, <3>2, Numbers
    <3>4. file.data \in Document => Good(file.data, p.nis, t)
      BY <2>1, <3>1, FileTyped DEF GoodFile
    <3>5. file.data \in Document => Good(file.data, p.nis, t)'
      BY <3>2, <3>3, <3>4, PublishGood
    <3>6. GoodFile(p, file)'
      BY <1>1, <3>1, <3>2, <3>5 DEF GoodFile
    <3>7. files'[p] = file
      BY <1>1, <3>1
    <3> QED BY <3>6, <3>7
  <2> QED BY <1>1, <2>1 DEF IInv, FilesOK
<1>6. RequestsOK'
  <2>1. ASSUME NEW d \in Request
        PROVE  Sound(req[d], get[d], io[d])'
    <3>1. PICK x, g, i : x = req[d] /\ g = get[d] /\ i = io[d]
      OBVIOUS
    <3>2. Sound(x, g, i)
      BY <3>1 DEF IInv, RequestsOK
    <3>3. g.pc # "idle" => GoodItem(g.key, g.item)'
      <4>1. ASSUME g.pc # "idle"
            PROVE  g.key \in Npm /\ g.item.expiration \in Nat
        BY <3>1, <4>1, CallKinds DEF L1!Item
      <4> QED BY <1>3, <3>2, <4>1 DEF Sound
    <3>4. ASSUME x.pc \in Lookup \cup Fetch \cup Store
          PROVE  /\ x.npm \in Npm /\ x.since \in Int /\ x.since <= now
                 /\ x.since - FileTTL - MaxLatency \in Int
                 /\ x.since - FileTTL - MaxLatency <= now
      <4>1. x.npm \in Npm /\ x.since \in Nat /\ x.since <= now
        BY <3>1, <3>4, ActiveTyped
      <4> QED BY <4>1, Numbers
    <3>5. x.pc = "promote" => Good(x.doc, x.npm, x.since - FileTTL - MaxLatency)'
      <4>1. ASSUME x.pc = "promote"
            PROVE  Good(x.doc, x.npm, x.since - FileTTL - MaxLatency)'
        <5>1. PICK t : t = x.since - FileTTL - MaxLatency
          OBVIOUS
        <5>2. Good(x.doc, x.npm, t) /\ x.pc \in Lookup
          BY <3>2, <4>1, <5>1 DEF Sound, Lookup
        <5>3. x.npm \in Npm /\ t \in Int /\ t <= now
          BY <3>4, <5>1, <5>2
        <5>4. Good(x.doc, x.npm, t)'
          BY <5>2, <5>3, PublishGood
        <5> QED BY <5>1, <5>4
      <4> QED BY <4>1
    <3>6. x.pc \in Store => Good(x.doc, x.npm, x.since)'
      BY <3>2, <3>4, PublishGood DEF Sound
    <3>7. Sound(x, g, i)'
      BY <1>1, <3>2, <3>3, <3>5, <3>6 DEF Sound
    <3>8. req'[d] = x /\ get'[d] = g /\ io'[d] = i
      BY <1>1, <3>1
    <3> QED BY <3>7, <3>8
  <2> QED BY <1>1, <2>1 DEF IInv, RequestsOK
<1>7. IInv'
  BY <1>1, <1>2, <1>4, <1>5, <1>6 DEF IInv, SweepOK
<1>8. Retrieval!Publish(m)
  BY <1>1 DEF Publish, Retrieval!Publish, ReqView, At
<1> QED BY <1>7, <1>8 DEF Mapped, Views, Retrieval!Next

\* Time passes; MayTick keeps every phase within MaxLatency.
LEMMA TickKeeps ==
    ASSUME IInv, Tick
    PROVE  IInv' /\ Mapped
<1>1. /\ now < MaxTime /\ now' = now + 1 /\ MayTick
      /\ ticker' = (ticker \/ now' % CleanupPeriod = 0)
      /\ UNCHANGED <<published, req, cache, get, cleanup, files, io>>
  BY DEF Tick, L1!Tick, L2Idle
<1>2. now' \in 0 .. MaxTime /\ now \in Nat
  BY <1>1, Numbers
<1>3. \A doc, n, t : Good(doc, n, t)' <=> Good(doc, n, t)
  BY <1>1 DEF Good
<1>4. ASSUME NEW n, NEW item, item.expiration \in Nat, GoodItem(n, item)
      PROVE  GoodItem(n, item)'
  <2>1. item.expiration <= (now + L1TTL)'
    <3>1. PICK e : e = item.expiration
      OBVIOUS
    <3>2. e <= now + L1TTL /\ e \in Nat
      BY <1>4, <3>1 DEF GoodItem
    <3>3. e <= now' + L1TTL
      BY <1>1, <1>2, <3>2, Numbers
    <3> QED BY <3>1, <3>3
  <2>2. Good(item.value, n, item.expiration - StaleBound)'
    BY <1>1, <1>4 DEF GoodItem, Good, StaleBound
  <2> QED BY <2>1, <2>2 DEF GoodItem
<1>5. CacheOK'
  <2>1. ASSUME NEW n \in Npm, cache[n] # None
        PROVE  GoodItem(n, cache[n])'
    <3>1. PICK item : item = cache[n]
      OBVIOUS
    <3>2. item.expiration \in Nat /\ GoodItem(n, item)
      BY <2>1, <3>1 DEF IInv, CacheOK, L1!Item
    <3>3. GoodItem(n, item)'
      BY <1>4, <3>2
    <3> QED BY <1>1, <3>1, <3>3
  <2> QED BY <1>1, <2>1 DEF IInv, CacheOK
<1>6. FilesOK'
  <2>1. ASSUME NEW p \in L2!Path, files[p] # None
        PROVE  GoodFile(p, files[p])'
    <3>1. PICK file : file = files[p]
      OBVIOUS
    <3>2. file.mtime \in Nat /\ GoodFile(p, file)
      BY <2>1, <3>1, FileTyped
    <3>3. file.mtime <= now'
      BY <1>1, <1>2, <3>2 DEF GoodFile
    <3>4. GoodFile(p, file)'
      BY <1>3, <3>2, <3>3 DEF GoodFile
    <3> QED BY <1>1, <3>1, <3>4
  <2> QED BY <1>1, <2>1 DEF IInv, FilesOK
<1>7. RequestsOK'
  <2>1. ASSUME NEW d \in Request
        PROVE  Sound(req[d], get[d], io[d])'
    <3>1. PICK x, g, i : x = req[d] /\ g = get[d] /\ i = io[d]
      OBVIOUS
    <3>2. Sound(x, g, i)
      BY <3>1 DEF IInv, RequestsOK
    <3>3. g.pc # "idle" => GoodItem(g.key, g.item)'
      <4>1. ASSUME g.pc # "idle"
            PROVE  g.item.expiration \in Nat
        BY <3>1, <4>1, CallKinds DEF L1!Item
      <4> QED BY <1>4, <3>2, <4>1 DEF Sound
    <3>4. ASSUME x.pc \in Lookup \cup Fetch \cup Store
          PROVE  x.since <= now' /\ now' - x.since <= MaxLatency
      <4>1. x.since \in Nat /\ x.since <= now
        BY <3>1, <3>4, ActiveTyped
      <4>2. now - x.since < MaxLatency
        BY <1>1, <3>1, <3>4 DEF MayTick
      <4> QED BY <1>1, <1>2, <4>1, <4>2, Numbers
    <3>5. Sound(x, g, i)'
      BY <1>1, <1>3, <3>2, <3>3, <3>4 DEF Sound
    <3> QED BY <1>1, <3>1, <3>5
  <2> QED BY <1>1, <2>1 DEF IInv, RequestsOK
<1>8. PublishedOK' /\ SweepOK'
  BY <1>1 DEF IInv, PublishedOK, SweepOK
<1>9. Retrieval!Tick
  BY <1>1 DEF Retrieval!Tick, ReqView, At
<1> QED BY <1>2, <1>5, <1>6, <1>7, <1>8, <1>9 DEF IInv, Mapped, Views, Retrieval!Next

-----------------------------------------------------------------------------
(* The theorems. *)

\* Nothing is cached at the start.
LEMMA InitIInv == Init => IInv
<1> SUFFICES ASSUME Init
             PROVE  IInv
  OBVIOUS
<1>1. /\ now = 0 /\ ticker = FALSE /\ cache = [n \in Npm |-> None]
      /\ get = [r \in Request |-> L1!IdleGet] /\ cleanup = [pc |-> "select", now |-> 0]
      /\ files = [p \in L2!Path |-> None] /\ io = [r \in Request |-> L2!Idle]
      /\ published = [n \in Npm |-> <<0>>] /\ req = [r \in Request |-> IdleReq]
  BY DEF Init, L1!Init, L2!Init
<1>2. 0 \in 0 .. MaxTime /\ now \in 0 .. MaxTime
  BY <1>1, HandlerAssumption
<1>3. CacheOK /\ FilesOK
  BY <1>1 DEF CacheOK, FilesOK
<1>4. PublishedOK
  <2>1. <<0>> \in Seq(0 .. MaxTime) /\ Len(<<0>>) = 1 /\ 1 \in 1 .. MaxVersion
    BY <1>2, HandlerAssumption
  <2> QED BY <1>1, <2>1 DEF PublishedOK
<1>5. RequestsOK
  <2>1. ASSUME NEW d \in Request
        PROVE  Sound(req[d], get[d], io[d])
    <3>1. req[d].pc = "idle" /\ get[d].pc = "idle"
      BY <1>1 DEF IdleReq, L1!IdleGet
    <3> QED BY <3>1 DEF Sound, Lookup, Fetch, Store
  <2>2. get \in [Request -> InL1] /\ io \in [Request -> L2!Call] /\ req \in [Request -> InHandler]
    BY <1>1 DEF InL1, InHandler, L2!Call
  <2> QED BY <2>1, <2>2 DEF RequestsOK
<1>6. SweepOK
  <2>1. [pc |-> "select", now |-> 0] \in [pc : {"select", "lock", "stopped"}, now : 0 .. MaxTime]
    BY <1>2
  <2>2. ticker \in BOOLEAN
    BY <1>1
  <2> QED BY <1>1, <2>1, <2>2 DEF SweepOK
<1> QED BY <1>2, <1>3, <1>4, <1>5, <1>6 DEF IInv

\* A step of the handler keeps the invariant, and is one step of KRSRetrieval or
\* none.
LEMMA StepKeepsAndMaps ==
    ASSUME IInv, [Next]_vars
    PROVE  IInv' /\ Mapped
<1>1. CASE UNCHANGED vars
  <2>1. UNCHANGED <<now, ticker, cache, get, cleanup, files, io, published, req>>
    BY <1>1 DEF vars
  <2>2. Elsewhere /\ UNCHANGED <<cache, files>>
    BY <2>1 DEF Elsewhere
  <2>3. CacheOK' /\ FilesOK'
    BY <2>2, CacheStays, FilesStay
  <2>4. RequestsOK'
    <3>1. ASSUME NEW d \in Request
          PROVE  Sound(req[d], get[d], io[d])'
      <4>1. PICK x, g, i : x = req[d] /\ g = get[d] /\ i = io[d]
        OBVIOUS
      <4>2. Sound(x, g, i)
        BY <4>1 DEF IInv, RequestsOK
      <4>3. Sound(x, g, i)'
        BY <2>2, <4>2, SoundSame
      <4> QED BY <2>1, <4>1, <4>3
    <3> QED BY <2>1, <3>1 DEF IInv, RequestsOK
  <2> QED BY <2>1, <2>3, <2>4
          DEF IInv, PublishedOK, SweepOK, Mapped, Views, ReqView, At
<1>2. ASSUME NEW r \in Request, NEW n \in Npm, Begin(r, n)
      PROVE  IInv' /\ Mapped
  BY <1>2, BeginKeeps
<1>3. ASSUME NEW r \in Request, Work(r)
      PROVE  IInv' /\ Mapped
  <2>1. CASE L1Lookup(r) \/ L1Hit(r) \/ L1Expired(r) \/ L1Evict(r)
    BY <2>1, L1LookupKeeps, L1HitKeeps, L1ExpiredKeeps, L1EvictKeeps
  <2>2. CASE L2Lookup(r) \/ L2Examine(r) \/ L2Miss(r) \/ L2Read(r)
    BY <2>2, L2LookupKeeps, L2ExamineKeeps, L2MissKeeps, L2ReadKeeps
  <2>3. CASE Promote(r) \/ FetchTimesOut(r) \/ SetL1(r)
    BY <2>3, PromoteKeeps, FetchFailsKeeps, SetL1Keeps
  <2>4. CASE StoreL2(r) \/ Saving(r) \/ StoreDone(r) \/ Deliver(r)
    BY <2>4, StoreL2Keeps, SavingKeeps, StoreDoneKeeps, DeliverKeeps
  <2> QED BY <1>3, <2>1, <2>2, <2>3, <2>4 DEF Work
<1>4. ASSUME NEW r \in Request, FetchOK(r) \/ FetchFails(r)
      PROVE  IInv' /\ Mapped
  BY <1>4, FetchOKKeeps, FetchFailsKeeps
<1>5. CASE Sweep \/ Crash \/ Tick
  BY <1>5, SweepKeeps, CrashKeeps, TickKeeps
<1>6. ASSUME NEW n \in Npm, Publish(n)
      PROVE  IInv' /\ Mapped
  BY <1>6, PublishKeeps
<1> QED BY <1>1, <1>2, <1>3, <1>4, <1>5, <1>6 DEF Next

\* The invariant holds in all reachable states.
THEOREM Invariance == Spec => []IInv
<1>1. IInv /\ [Next]_vars => IInv'
  BY StepKeepsAndMaps
<1> QED BY <1>1, InitIInv, PTL DEF Spec

\* The variables of both caches and of the requests keep their types, in every
\* interleaving of requests, sweeps and crashes.
THEOREM TypeCorrect == Spec => []TypeOK
<1>1. IInv => TypeOK
  <2> SUFFICES ASSUME IInv
               PROVE  TypeOK
    OBVIOUS
  <2>1. L1!TypeOK
    BY DEF L1!TypeOK, IInv, CacheOK, RequestsOK, SweepOK, InL1
  <2>2. L2!TypeOK
    BY DEF L2!TypeOK, IInv, FilesOK, RequestsOK
  <2>3. published \in [Npm -> UNION {[1 .. v -> 0 .. MaxTime] : v \in 1 .. MaxVersion}]
    <3>1. ASSUME NEW n \in Npm
          PROVE  published[n] \in UNION {[1 .. v -> 0 .. MaxTime] : v \in 1 .. MaxVersion}
      <4>1. published[n] \in Seq(0 .. MaxTime) /\ Len(published[n]) \in 1 .. MaxVersion
        BY DEF IInv, PublishedOK
      <4>2. published[n] \in [1 .. Len(published[n]) -> 0 .. MaxTime]
        BY <4>1, LenProperties
      <4> QED BY <4>1, <4>2
    <3> QED BY <3>1 DEF IInv, PublishedOK
  <2>4. req \in [Request -> {IdleReq} \cup Active \cup Replied]
    BY DEF IInv, RequestsOK, InHandler
  <2> QED BY <2>1, <2>2, <2>3, <2>4 DEF TypeOK
<1> QED BY <1>1, Invariance, PTL

\* Whatever the number of requests, the TTLs and the latency: an answer is the
\* asking student's own complete plan, superseded at most StaleBound ago when it
\* comes from a cache and MaxLatency ago when it was fetched.
THEOREM Refinement == Spec => ImplementsRetrieval
<1>1. Init => Retrieval!Init
  BY DEF Init, L1!Init, Retrieval!Init, Retrieval!NoRequest, ReqView, At, IdleReq
<1>2. IInv /\ [Next]_vars => [Retrieval!Next]_(<<now, published, [r \in Request |-> ReqView(r)]>>)
  BY StepKeepsAndMaps DEF Mapped, Views
<1> QED BY <1>1, <1>2, Invariance, PTL
        DEF Spec, ImplementsRetrieval, Retrieval!Spec, Retrieval!vars

-----------------------------------------------------------------------------
(* The campus server is asked only when it has to be.  Three things can      *)
(* break that, and all are hypotheses: two requests of one student under way *)
(* at once (nothing coordinates them), two files of one student with the     *)
(* same modification time (the sort may then take either for the newest),    *)
(* and file operations that report errors.                                   *)

Busy == Lookup \cup Fetch \cup Store

\* A student has no two requests under way; different students may.
OnePerStudent ==
    \A r, s \in Request :
        req[r].pc \in Busy /\ req[s].pc \in Busy /\ req[r].npm = req[s].npm => r = s

\* No two files of a student were last written at the same moment.
DistinctTimes ==
    \A p, q \in L2!Path :
        /\ p.nis = q.nis /\ L2!Exists(p) /\ L2!Exists(q)
        /\ files[p].mtime = files[q].mtime
        => p = q

\* A file that LiveFile is about.
Fresh(p) == L2!Exists(p) /\ ~L2!Expired(p) /\ files[p].data \in Document

\* Behind a fresh file of a student there are only whole ones: a save is begun
\* only when none is fresh.
OrderedAt(n) ==
    \A p, q \in L2!Path :
        /\ p.nis = n /\ q.nis = n /\ Fresh(p) /\ L2!Exists(q)
        /\ files[p].mtime < files[q].mtime
        => files[q].data \in Document

\* No file of the student is newer.
Newest(p) ==
    /\ L2!Exists(p)
    /\ \A q \in L2!Path :
          q.nis = p.nis /\ L2!Exists(q) => files[q].mtime <= files[p].mtime

\* What a request x inside of the call i of L2 has found out still holds.
Undisturbed(x, i) ==
    /\ x.pc \in {"l2", "l2get"} => ~L1!Live(x.npm)
    /\ x.pc = "l2get" =>
         /\ i.pc = "sort" => i.seen = L2!Glob("response", x.npm)
         /\ i.pc # "sort" => Newest(i.path)
         /\ i.pc = "remove" => L2!Expired(i.path)
    /\ x.pc \in Fetch \cup Store => ~LiveFile(x.npm)

Alone ==
    /\ \A n \in Npm : OrderedAt(n)
    /\ \A r \in Request : Undisturbed(req[r], io[r])

\* The property, of one request.
Needed(r) ==
    ~At(r, "fetch") /\ At(r, "fetch")' =>
        ~LiveFile(req[r].npm) /\ ~L1!Live(CacheKey(req[r].npm))

\* If any file of the student is live, the newest one is.
LEMMA NewestTells ==
    ASSUME IInv, DistinctTimes, NEW p \in L2!Path, OrderedAt(p.nis), Newest(p),
           LiveFile(p.nis)
    PROVE  Fresh(p)
<1>1. PICK q \in L2!Path : q.nis = p.nis /\ Fresh(q)
  BY DEF LiveFile, Fresh
<1>2. CASE q = p
  BY <1>1, <1>2
<1>3. CASE q # p
  <2>1. L2!Exists(p) /\ L2!Exists(q) /\ files[q].mtime <= files[p].mtime
    BY <1>1 DEF Newest, Fresh
  <2>2. files[p].mtime \in Nat /\ files[q].mtime \in Nat
    BY <2>1, FileTyped DEF L2!Exists
  <2>3. files[q].mtime < files[p].mtime
    BY <1>1, <1>3, <2>1, <2>2 DEF DistinctTimes
  <2>4. files[p].data \in Document
    BY <1>1, <2>1, <2>3 DEF OrderedAt
  <2>5. ~ (now - files[q].mtime > FileTTL)
    BY <1>1 DEF Fresh, L2!Expired, L2!OlderThanTTL
  <2>6. ~ (now - files[p].mtime > FileTTL)
    BY <2>1, <2>2, <2>5, Numbers
  <2> QED BY <2>1, <2>4, <2>6 DEF Fresh, L2!Expired, L2!OlderThanTTL
<1> QED BY <1>2, <1>3

\* What happens to the files of others is nothing to a student.
LEMMA FilesApart ==
    ASSUME now' = now, NEW n, \A p \in L2!Path : p.nis = n => files'[p] = files[p]
    PROVE  /\ LiveFile(n) <=> LiveFile(n)'
           /\ OrderedAt(n) <=> OrderedAt(n)'
           /\ L2!Glob("response", n)' = L2!Glob("response", n)
           /\ \A p \in L2!Path : p.nis = n =>
                /\ Newest(p) <=> Newest(p)'
                /\ L2!Expired(p) <=> L2!Expired(p)'
<1>1. \A p \in L2!Path : p.nis = n =>
         /\ L2!Exists(p)' <=> L2!Exists(p)
         /\ L2!Expired(p)' <=> L2!Expired(p)
         /\ Fresh(p)' <=> Fresh(p)
  BY DEF L2!Exists, L2!Expired, L2!OlderThanTTL, Fresh
<1>2. LiveFile(n) <=> LiveFile(n)'
  BY <1>1 DEF LiveFile
<1>3. OrderedAt(n) <=> OrderedAt(n)'
  BY <1>1 DEF OrderedAt
<1>4. L2!Glob("response", n)' = L2!Glob("response", n)
  BY <1>1 DEF L2!Glob
<1>5. \A p \in L2!Path : p.nis = n => (Newest(p) <=> Newest(p)')
  BY <1>1 DEF Newest
<1> QED BY <1>1, <1>2, <1>3, <1>4, <1>5

\* A request is undisturbed by what others do with their students' files and
\* items; an item of its own may go.
LEMMA UndisturbedStays ==
    ASSUME IInv, now' = now, NEW r \in Request, NEW x, x = req[r], NEW i, i = io[r],
           Undisturbed(x, i),
           x.pc \in Busy =>
             /\ \A p \in L2!Path : p.nis = x.npm => files'[p] = files[p]
             /\ cache'[x.npm] = cache[x.npm] \/ cache'[x.npm] = None
    PROVE  Undisturbed(x, i)'
<1>1. CASE x.pc \notin Busy
  BY <1>1 DEF Busy, Lookup, Fetch, Store, Undisturbed
<1>2. CASE x.pc \in Busy
  <2>1. /\ LiveFile(x.npm) <=> LiveFile(x.npm)'
        /\ L2!Glob("response", x.npm)' = L2!Glob("response", x.npm)
        /\ \A p \in L2!Path : p.nis = x.npm =>
             (Newest(p) <=> Newest(p)') /\ (L2!Expired(p) <=> L2!Expired(p)')
    BY <1>2, FilesApart
  <2>2. ~L1!Live(x.npm) => ~L1!Live(x.npm)'
    BY <1>2 DEF L1!Live, L1!Expired
  <2>3. ASSUME x.pc = "l2get", i.pc # "sort"
        PROVE  i.path \in L2!Path /\ i.path.nis = x.npm
    <3>1. Sound(x, get[r], i)
      BY DEF IInv, RequestsOK
    <3>2. i.pc \in {"stat", "remove", "read"} /\ i.path.nis = x.npm
      BY <2>3, <3>1 DEF Sound
    <3> QED BY <3>2, PathTyped
  <2>4. ASSUME x.pc = "l2get"
        PROVE  /\ i.pc = "sort" => i.seen = L2!Glob("response", x.npm)'
               /\ i.pc # "sort" => Newest(i.path)'
               /\ i.pc = "remove" => L2!Expired(i.path)'
    BY <2>1, <2>3, <2>4 DEF Undisturbed
  <2> QED BY <2>1, <2>2, <2>4 DEF Undisturbed
<1> QED BY <1>1, <1>2

\* A step of one request in which nothing is stored.
LEMMA NothingStored ==
    ASSUME IInv, Alone, now' = now, UNCHANGED files,
           \A n \in Npm : cache'[n] = cache[n] \/ cache'[n] = None,
           NEW r \in Request,
           \A d \in Request : d # r => req'[d] = req[d] /\ io'[d] = io[d],
           NEW x, x = req'[r], NEW i, i = io'[r], Undisturbed(x, i)'
    PROVE  Alone'
<1>1. \A n \in Npm : OrderedAt(n)'
  BY FilesApart DEF Alone
<1>2. ASSUME NEW d \in Request, d # r
      PROVE  Undisturbed(req[d], io[d])'
  <2>1. PICK y, j : y = req[d] /\ j = io[d]
    OBVIOUS
  <2>2. y.pc \in Busy => y.npm \in Npm
    BY <2>1, ActiveTyped DEF Busy
  <2>3. Undisturbed(y, j)
    BY <2>1 DEF Alone
  <2>4. Undisturbed(y, j)'
    BY <2>1, <2>2, <2>3, UndisturbedStays
  <2>5. req'[d] = y /\ io'[d] = j
    BY <1>2, <2>1
  <2> QED BY <2>4, <2>5
<1>3. Undisturbed(req[r], io[r])'
  OBVIOUS
<1> QED BY <1>1, <1>2, <1>3 DEF Alone

\* A step of one request that stores for its student, or removes.
LEMMA OwnStored ==
    ASSUME IInv, Alone, OnePerStudent, now' = now,
           NEW r \in Request, req[r].pc \in Busy,
           \A p \in L2!Path : p.nis # req[r].npm => files'[p] = files[p],
           \A n \in Npm : n # req[r].npm => cache'[n] = cache[n],
           \A d \in Request : d # r => req'[d] = req[d] /\ io'[d] = io[d],
           NEW n \in Npm, n = req[r].npm, OrderedAt(n)',
           NEW x, x = req'[r], NEW i, i = io'[r], Undisturbed(x, i)'
    PROVE  Alone'
<1>1. ASSUME NEW m \in Npm
      PROVE  OrderedAt(m)'
  <2>1. CASE m = n
    BY <2>1
  <2>2. CASE m # n
    BY <2>2, FilesApart DEF Alone
  <2> QED BY <2>1, <2>2
<1>2. ASSUME NEW d \in Request, d # r
      PROVE  Undisturbed(req[d], io[d])'
  <2>1. PICK y, j : y = req[d] /\ j = io[d]
    OBVIOUS
  <2>2. y.pc \in Busy => y.npm \in Npm /\ y.npm # req[r].npm
    BY <1>2, <2>1, ActiveTyped DEF Busy, OnePerStudent
  <2>3. Undisturbed(y, j)
    BY <2>1 DEF Alone
  <2>4. y.pc \in Busy =>
          /\ \A p \in L2!Path : p.nis = y.npm => files'[p] = files[p]
          /\ cache'[y.npm] = cache[y.npm] \/ cache'[y.npm] = None
    BY <2>2
  <2>5. Undisturbed(y, j)'
    BY <2>1, <2>3, <2>4, UndisturbedStays
  <2>6. req'[d] = y /\ io'[d] = j
    BY <1>2, <2>1
  <2> QED BY <2>5, <2>6
<1>3. Undisturbed(req[r], io[r])'
  OBVIOUS
<1> QED BY <1>1, <1>2, <1>3 DEF Alone

-----------------------------------------------------------------------------
(* The steps of one request. *)

\* Where a request is when it steps, and who asks.
LEMMA Steps ==
    ASSUME IInv, NEW r \in Request, req[r].pc \in Busy
    PROVE  /\ req[r] \in Active /\ req[r].npm \in Npm
           /\ req \in [Request -> InHandler] /\ io \in [Request -> L2!Call]
<1>1. req[r].pc \in Lookup \cup Fetch \cup Store
  BY DEF Busy
<1> QED BY <1>1, ActiveTyped DEF IInv, RequestsOK

\* At these places a request has found out nothing that could be spoilt.
LEMMA AtEase ==
    ASSUME NEW x, NEW i, x.pc \in {"idle", "replied", "l1", "l1get", "promote"}
    PROVE  Undisturbed(x, i)'
BY DEF Undisturbed, Fetch, Store

\* Begin and Deliver: the request is not under way before, or not after.
LEMMA BeginAlone ==
    ASSUME IInv, Alone, NEW r \in Request, NEW n \in Npm, Begin(r, n)
    PROVE  Alone' /\ Needed(r)
<1>1. /\ now' = now /\ UNCHANGED <<files, io, cache>>
      /\ req' = [req EXCEPT ![r] = [pc |-> "l1", npm |-> n, doc |-> None, since |-> now]]
  BY DEF Begin, Elsewhere, L1Idle, L2Idle
<1>2. req \in [Request -> InHandler]
  BY DEF IInv, RequestsOK
<1>3. req'[r].pc = "l1" /\ \A d \in Request : d # r => req'[d] = req[d]
  BY <1>1, <1>2
<1> PICK x, i : x = req'[r] /\ i = io'[r]
  OBVIOUS
<1>4. Undisturbed(x, i)'
  BY <1>3, AtEase
<1>5. Alone'
  BY <1>1, <1>3, <1>4, NothingStored
<1> QED BY <1>3, <1>5 DEF Needed, At

LEMMA DeliverAlone ==
    ASSUME IInv, Alone, NEW r \in Request, Deliver(r)
    PROVE  Alone' /\ Needed(r)
<1>1. /\ now' = now /\ UNCHANGED <<files, io, cache>>
      /\ req' = [req EXCEPT ![r] = IdleReq]
  BY DEF Deliver, Elsewhere, L1Idle, L2Idle
<1>2. req \in [Request -> InHandler]
  BY DEF IInv, RequestsOK
<1>3. req'[r].pc = "idle" /\ \A d \in Request : d # r => req'[d] = req[d]
  BY <1>1, <1>2 DEF IdleReq
<1> PICK x, i : x = req'[r] /\ i = io'[r]
  OBVIOUS
<1>4. Undisturbed(x, i)'
  BY <1>3, AtEase
<1>5. Alone'
  BY <1>1, <1>3, <1>4, NothingStored
<1> QED BY <1>3, <1>5 DEF Needed, At

\* A step of L1 that drops an item or none.  A miss means that there is no live
\* item, and so does an eviction.
LEMMA L1LookupAlone ==
    ASSUME IInv, Alone, NEW r \in Request, L1Lookup(r)
    PROVE  Alone' /\ Needed(r)
<1>0. PICK n, pc : n = req[r].npm /\ pc = IF cache[n] = None THEN "l2" ELSE "l1get"
  OBVIOUS
<1>1. /\ req[r].pc = "l1" /\ Goto(r, pc) /\ now' = now /\ UNCHANGED <<files, io, cache>>
  BY <1>0 DEF L1Lookup, L1!GetLookup, Elsewhere, L2Idle, At, CacheKey
<1>2. req[r] \in Active /\ n \in Npm /\ req \in [Request -> InHandler]
  BY <1>0, <1>1, Steps DEF Busy, Lookup
<1>3. req' = [req EXCEPT ![r] = [pc |-> pc, npm |-> n, doc |-> req[r].doc, since |-> req[r].since]]
  BY <1>0, <1>1, <1>2, GotoMoves
<1>4. /\ req'[r].pc = pc /\ req'[r].npm = n /\ pc \in {"l2", "l1get"}
      /\ \A d \in Request : d # r => req'[d] = req[d]
  BY <1>0, <1>2, <1>3
<1> PICK x, i : x = req'[r] /\ i = io'[r]
  OBVIOUS
<1>5. Undisturbed(x, i)'
  <2>1. CASE pc = "l1get"
    BY <1>4, <2>1, AtEase
  <2>2. CASE pc = "l2"
    <3>1. cache'[n] = None
      BY <1>0, <1>1, <2>2
    <3>2. ~L1!Live(n)'
      BY <3>1 DEF L1!Live
    <3> QED BY <1>4, <2>2, <3>2 DEF Undisturbed, Fetch, Store
  <2> QED BY <1>4, <2>1, <2>2
<1>6. Alone'
  BY <1>1, <1>4, <1>5, NothingStored
<1> QED BY <1>4, <1>6 DEF Needed, At

LEMMA L1HitAlone ==
    ASSUME IInv, Alone, NEW r \in Request, L1Hit(r)
    PROVE  Alone' /\ Needed(r)
<1>1. /\ req[r].pc = "l1get" /\ now' = now /\ UNCHANGED <<files, io, cache>>
      /\ Reply(r, get[r].item.value, TRUE)
  BY DEF L1Hit, L1!GetHit, Elsewhere, L2Idle, At
<1>2. req \in [Request -> InHandler]
  BY DEF IInv, RequestsOK
<1>3. req'[r].pc = "replied" /\ \A d \in Request : d # r => req'[d] = req[d]
  BY <1>1, <1>2 DEF Reply
<1> PICK x, i : x = req'[r] /\ i = io'[r]
  OBVIOUS
<1>4. Undisturbed(x, i)'
  BY <1>3, AtEase
<1>5. Alone'
  BY <1>1, <1>3, <1>4, NothingStored
<1> QED BY <1>3, <1>5 DEF Needed, At

LEMMA L1ExpiredAlone ==
    ASSUME IInv, Alone, NEW r \in Request, L1Expired(r)
    PROVE  Alone' /\ Needed(r)
<1>1. /\ req[r].pc = "l1get" /\ now' = now /\ UNCHANGED <<files, io, cache, req>>
  BY DEF L1Expired, L1!GetExpired, Elsewhere, L2Idle, At
<1> PICK x, i : x = req'[r] /\ i = io'[r]
  OBVIOUS
<1>2. Undisturbed(x, i)'
  BY <1>1, AtEase
<1>3. Alone'
  BY <1>1, <1>2, NothingStored
<1> QED BY <1>1, <1>3 DEF Needed, At

LEMMA L1EvictAlone ==
    ASSUME IInv, Alone, NEW r \in Request, L1Evict(r)
    PROVE  Alone' /\ Needed(r)
<1>0. PICK n : n = req[r].npm
  OBVIOUS
<1>1. /\ req[r].pc = "l1get" /\ Goto(r, "l2") /\ now' = now /\ UNCHANGED <<files, io>>
      /\ cache' = [cache EXCEPT ![get[r].key] = None]
  BY DEF L1Evict, L1!GetEvict, Elsewhere, L2Idle, At
<1>2. req[r] \in Active /\ n \in Npm /\ req \in [Request -> InHandler]
  BY <1>0, <1>1, Steps DEF Busy, Lookup
<1>3. req' = [req EXCEPT ![r] = [pc |-> "l2", npm |-> n, doc |-> req[r].doc, since |-> req[r].since]]
  BY <1>0, <1>1, <1>2, GotoMoves
<1>4. /\ req'[r].pc = "l2" /\ req'[r].npm = n
      /\ \A d \in Request : d # r => req'[d] = req[d]
  BY <1>2, <1>3
<1>5. get[r].key = n
  BY <1>0, <1>1 DEF IInv, RequestsOK, Sound
<1>6. cache'[n] = None /\ \A m \in Npm : cache'[m] = cache[m] \/ cache'[m] = None
  BY <1>1, <1>2, <1>5 DEF IInv, CacheOK
<1> PICK x, i : x = req'[r] /\ i = io'[r]
  OBVIOUS
<1>7. Undisturbed(x, i)'
  <2>1. ~L1!Live(n)'
    BY <1>6 DEF L1!Live
  <2> QED BY <1>4, <2>1 DEF Undisturbed, Fetch, Store
<1>8. Alone'
  BY <1>1, <1>4, <1>6, <1>7, NothingStored
<1> QED BY <1>4, <1>8 DEF Needed, At

-----------------------------------------------------------------------------
(* The steps of one request inside of L2. *)

\* With no file there is no live one; else the call has all of the student's.
LEMMA L2LookupAlone ==
    ASSUME IInv, Alone, NEW r \in Request, L2Lookup(r)
    PROVE  Alone' /\ Needed(r)
<1>0. PICK n, seen : n = req[r].npm /\ seen = L2!Glob("response", n)
  OBVIOUS
<1>1. /\ req[r].pc = "l2" /\ now' = now /\ UNCHANGED <<files, cache>>
      /\ L2!GetGlob(r, "response", n)
      /\ IF seen = {} THEN Enter(r, "fetch", None) ELSE Goto(r, "l2get")
  BY <1>0 DEF L2Lookup, L2!GetGlob, Elsewhere, L1Idle, At
<1>2. /\ req[r] \in Active /\ n \in Npm
      /\ req \in [Request -> InHandler] /\ io \in [Request -> L2!Call]
  BY <1>0, <1>1, Steps DEF Busy, Lookup
<1>3. ~L1!Live(n) /\ ~L1!Live(n)'
  <2>1. ~L1!Live(n)
    BY <1>0, <1>1 DEF Alone, Undisturbed
  <2> QED BY <1>1, <2>1 DEF L1!Live, L1!Expired
<1>4. L2!Glob("response", n)' = seen
  BY <1>0, <1>1, FilesApart
<1>5. io' = IF seen = {} THEN io
            ELSE [io EXCEPT ![r] = [pc |-> "sort", seen |-> seen]]
  BY <1>0, <1>1, Zenon DEF L2!GetGlob
<1>6. \A d \in Request : d # r => io'[d] = io[d]
  BY <1>2, <1>5
<1> PICK x, i : x = req'[r] /\ i = io'[r]
  OBVIOUS
<1>7. CASE seen = {}
  <2>1. req' = [req EXCEPT ![r] = [pc |-> "fetch", npm |-> n, doc |-> None, since |-> now]]
    BY <1>0, <1>1, <1>7, EnterMoves
  <2>2. x.pc = "fetch" /\ x.npm = n /\ \A d \in Request : d # r => req'[d] = req[d]
    BY <1>2, <2>1
  <2>3. ~LiveFile(n)
    <3>1. ASSUME NEW p \in L2!Path, p.nis = n, L2!Exists(p)
          PROVE  FALSE
      <4>1. p.kind = "response"
        BY DEF L2!Path
      <4> QED BY <1>0, <1>7, <3>1, <4>1 DEF L2!Glob
    <3> QED BY <3>1 DEF LiveFile
  <2>4. ~LiveFile(n)'
    BY <1>1, <2>3, FilesApart
  <2>5. Undisturbed(x, i)'
    BY <2>2, <2>4 DEF Undisturbed
  <2>6. Alone'
    BY <1>1, <1>6, <2>2, <2>5, NothingStored
  <2> QED BY <1>0, <1>3, <2>3, <2>6 DEF Needed, CacheKey
<1>8. CASE seen # {}
  <2>1. req' = [req EXCEPT ![r] = [pc |-> "l2get", npm |-> n, doc |-> req[r].doc,
                                   since |-> req[r].since]]
    BY <1>0, <1>1, <1>2, <1>8, GotoMoves
  <2>2. x.pc = "l2get" /\ x.npm = n /\ \A d \in Request : d # r => req'[d] = req[d]
    BY <1>2, <2>1
  <2>3. i = [pc |-> "sort", seen |-> seen]
    BY <1>2, <1>5, <1>8
  <2>4. Undisturbed(x, i)'
    BY <1>3, <1>4, <2>2, <2>3 DEF Undisturbed, Fetch, Store
  <2>5. Alone'
    BY <1>1, <1>6, <2>2, <2>4, NothingStored
  <2> QED BY <2>2, <2>5 DEF Needed, At
<1> QED BY <1>7, <1>8

\* The sort finds the newest file, and Stat judges it.
LEMMA L2ExamineAlone ==
    ASSUME IInv, Alone, NEW r \in Request, L2Examine(r)
    PROVE  Alone' /\ Needed(r)
<1>0. PICK n, j : n = req[r].npm /\ j = io[r]
  OBVIOUS
<1>1. /\ req[r].pc = "l2get" /\ now' = now /\ UNCHANGED <<files, cache, req>>
      /\ L2!GetSort(r) \/ L2!GetStat(r)
  BY DEF L2Examine, L2!GetSort, L2!GetStat, Elsewhere, L1Idle, At
<1>2. n \in Npm /\ io \in [Request -> L2!Call]
  BY <1>0, <1>1, Steps DEF Busy, Lookup
<1>3. ~L1!Live(n)'
  <2>1. ~L1!Live(n)
    BY <1>0, <1>1 DEF Alone, Undisturbed
  <2> QED BY <1>1, <2>1 DEF L1!Live, L1!Expired
<1> PICK x, i : x = req'[r] /\ i = io'[r]
  OBVIOUS
<1>4. x.pc = "l2get" /\ x.npm = n
  BY <1>0, <1>1
<1>5. CASE L2!GetSort(r)
  <2>1. j.pc = "sort" /\ j.seen = L2!Glob("response", n)
    BY <1>0, <1>1, <1>5 DEF L2!GetSort, Alone, Undisturbed
  <2>2. PICK p \in L2!First(j.seen) :
           io' = [io EXCEPT ![r] = [pc |-> "stat", path |-> p, seen |-> j.seen]]
    BY <1>0, <1>5 DEF L2!GetSort
  <2>3. i = [pc |-> "stat", path |-> p, seen |-> j.seen]
        /\ \A d \in Request : d # r => io'[d] = io[d]
    BY <1>2, <2>2
  <2>4. \A q \in j.seen : L2!Exists(q) /\ q \in L2!Path /\ q.nis = n
    BY <2>1 DEF L2!Glob
  <2>5. p \in j.seen /\ \A q \in j.seen : files[q].mtime <= files[p].mtime
    BY <2>4 DEF L2!First
  <2>6. ASSUME NEW q \in L2!Path, q.nis = p.nis, L2!Exists(q)
        PROVE  files[q].mtime <= files[p].mtime
    <3>1. q.kind = "response" /\ q.nis = n
      BY <2>4, <2>5, <2>6 DEF L2!Path
    <3>2. q \in j.seen
      BY <2>1, <2>6, <3>1 DEF L2!Glob
    <3> QED BY <2>5, <3>2
  <2>7. Newest(p) /\ p \in L2!Path
    BY <2>4, <2>5, <2>6 DEF Newest
  <2>8. Newest(p)'
    BY <1>1, <2>7 DEF Newest, L2!Exists
  <2>9. Undisturbed(x, i)'
    BY <1>3, <1>4, <2>3, <2>8 DEF Undisturbed, Fetch, Store
  <2> QED BY <1>1, <2>3, <2>9, NothingStored DEF Needed, At
<1>6. CASE L2!GetStat(r)
  <2>1. j.pc = "stat" /\ Newest(j.path)
    BY <1>0, <1>1, <1>6 DEF L2!GetStat, Alone, Undisturbed
  <2>2. j \in L2!Reading
    BY <1>0, <2>1, CallKinds
  <2>3. PICK pc : pc = IF L2!Expired(j.path) THEN "remove" ELSE "read"
    OBVIOUS
  <2>4. io' = [io EXCEPT ![r].pc = pc]
    BY <1>0, <1>6, <2>3, Zenon DEF L2!GetStat
  <2>5. i.pc = pc /\ i.path = j.path /\ \A d \in Request : d # r => io'[d] = io[d]
    BY <1>0, <1>2, <2>2, <2>4 DEF L2!Reading
  <2>6. Newest(j.path)'
    BY <1>1, <2>1 DEF Newest, L2!Exists
  <2>7. pc = "remove" => L2!Expired(j.path)'
    BY <1>1, <2>3 DEF L2!Expired, L2!OlderThanTTL
  <2>8. pc # "sort"
    BY <2>3
  <2>9. Undisturbed(x, i)'
    BY <1>3, <1>4, <2>5, <2>6, <2>7, <2>8 DEF Undisturbed, Fetch, Store
  <2> QED BY <1>1, <2>5, <2>9, NothingStored DEF Needed, At
<1> QED BY <1>1, <1>5, <1>6

\* A call of L2 that has chosen its file.
LEMMA Chosen ==
    ASSUME IInv, Alone, NEW r \in Request, req[r].pc = "l2get",
           NEW n, n = req[r].npm, NEW p, p = io[r].path, io[r].pc # "sort"
    PROVE  /\ n \in Npm /\ p \in L2!Path /\ p.nis = n
           /\ Newest(p) /\ L2!Exists(p) /\ OrderedAt(n) /\ ~L1!Live(n)
           /\ io[r].pc = "remove" => L2!Expired(p)
<1>1. n \in Npm
  BY Steps DEF Busy, Lookup
<1>2. /\ io[r].pc \in {"stat", "remove", "read"} /\ p.nis = n
  BY DEF IInv, RequestsOK, Sound
<1>3. p \in L2!Path
  BY <1>2, PathTyped
<1>4. Newest(p) /\ ~L1!Live(n) /\ (io[r].pc = "remove" => L2!Expired(p))
  BY DEF Alone, Undisturbed
<1> QED BY <1>1, <1>2, <1>3, <1>4 DEF Alone, Newest

\* Without I/O errors a call ends without data only when the newest file of the
\* student is expired.
LEMMA L2MissAlone ==
    ASSUME IInv, Alone, OnePerStudent, DistinctTimes, ~IoMayFail,
           NEW r \in Request, L2Miss(r)
    PROVE  Alone' /\ Needed(r)
<1>0. PICK n, p : n = req[r].npm /\ p = io[r].path
  OBVIOUS
<1>1. /\ req[r].pc = "l2get" /\ now' = now /\ UNCHANGED cache
      /\ Enter(r, "fetch", None) /\ L2!GetMiss(r)
  BY DEF L2Miss, Elsewhere, L1Idle, At
<1>2. io[r].pc # "sort"
  BY <1>1 DEF L2!GetMiss, L2!GetStatError, L2!GetRemove, L2!GetReadError
<1>3. /\ n \in Npm /\ p \in L2!Path /\ p.nis = n
      /\ Newest(p) /\ L2!Exists(p) /\ OrderedAt(n) /\ ~L1!Live(n)
      /\ io[r].pc = "remove" => L2!Expired(p)
  BY <1>0, <1>1, <1>2, Chosen
<1>4. L2!GetRemove(r)
  BY <1>0, <1>1, <1>3 DEF L2!GetMiss, L2!GetStatError, L2!GetReadError
<1>5. /\ L2!Expired(p) /\ files' = [files EXCEPT ![p] = None]
      /\ io' = [io EXCEPT ![r] = L2!Idle]
  BY <1>0, <1>3, <1>4 DEF L2!GetRemove
<1>6. ~LiveFile(n)
  BY <1>3, <1>5, NewestTells DEF Fresh
<1>7. \A q \in L2!Path : files'[q] = None \/ files'[q] = files[q]
  BY <1>5 DEF IInv, FilesOK
<1>8. ~LiveFile(n)' /\ OrderedAt(n)'
  <2>1. \A q \in L2!Path : Fresh(q)' => Fresh(q)
    BY <1>1, <1>7 DEF Fresh, L2!Exists, L2!Expired, L2!OlderThanTTL
  <2>2. \A q \in L2!Path : q.nis = n => ~Fresh(q)
    BY <1>6 DEF LiveFile, Fresh
  <2> QED BY <2>1, <2>2 DEF LiveFile, OrderedAt, Fresh
<1>9. req' = [req EXCEPT ![r] = [pc |-> "fetch", npm |-> n, doc |-> None, since |-> now]]
  BY <1>0, <1>1, EnterMoves
<1> PICK x, i : x = req'[r] /\ i = io'[r]
  OBVIOUS
<1>10. /\ req[r].pc \in Busy
       /\ req \in [Request -> InHandler] /\ io \in [Request -> L2!Call]
  BY <1>1, Steps DEF Busy, Lookup
<1>11. x.pc = "fetch" /\ x.npm = n
       /\ \A d \in Request : d # r => req'[d] = req[d] /\ io'[d] = io[d]
  BY <1>5, <1>9, <1>10
<1>12. Undisturbed(x, i)'
  BY <1>8, <1>11 DEF Undisturbed
<1>13. \A q \in L2!Path : q.nis # n => files'[q] = files[q]
  BY <1>3, <1>5 DEF IInv, FilesOK
<1>14. Alone'
  BY <1>0, <1>1, <1>3, <1>8, <1>10, <1>11, <1>12, <1>13, OwnStored
<1> QED BY <1>0, <1>3, <1>6, <1>14 DEF Needed, CacheKey

\* What is not a whole document is the newest file, and then no file is live.
LEMMA L2ReadAlone ==
    ASSUME IInv, Alone, DistinctTimes, NEW r \in Request, L2Read(r)
    PROVE  Alone' /\ Needed(r)
<1>0. PICK n, p, data : n = req[r].npm /\ p = io[r].path /\ data = files[io[r].path].data
  OBVIOUS
<1>1. /\ req[r].pc = "l2get" /\ now' = now /\ UNCHANGED <<files, cache>>
      /\ io[r].pc = "read" /\ io' = [io EXCEPT ![r] = L2!Idle]
      /\ IF data \in Document
         THEN req' = [req EXCEPT ![r].pc = "promote", ![r].doc = data]
         ELSE Enter(r, "fetch", None)
  BY <1>0 DEF L2Read, L2!GetRead, Elsewhere, L1Idle, At
<1>2. n \in Npm /\ req \in [Request -> InHandler] /\ io \in [Request -> L2!Call]
  BY <1>0, <1>1, Steps DEF Busy, Lookup
<1> PICK x, i : x = req'[r] /\ i = io'[r]
  OBVIOUS
<1>3. \A d \in Request : d # r => io'[d] = io[d]
  BY <1>1, <1>2
<1>4. CASE data \in Document
  <2>1. x.pc = "promote" /\ \A d \in Request : d # r => req'[d] = req[d]
    <3>1. req[r] \in Active
      BY <1>1, Steps DEF Busy, Lookup
    <3> QED BY <1>1, <1>2, <1>4, <3>1 DEF Active
  <2>2. Undisturbed(x, i)'
    BY <2>1, AtEase
  <2>3. Alone'
    BY <1>1, <1>3, <2>1, <2>2, NothingStored
  <2> QED BY <2>1, <2>3 DEF Needed, At
<1>5. CASE data \notin Document
  <2>1. /\ p \in L2!Path /\ p.nis = n /\ Newest(p) /\ OrderedAt(n) /\ ~L1!Live(n)
    BY <1>0, <1>1, Chosen
  <2>2. ~LiveFile(n)
    BY <1>0, <1>5, <2>1, NewestTells DEF Fresh
  <2>3. ~LiveFile(n)'
    BY <1>1, <2>2, FilesApart
  <2>4. req' = [req EXCEPT ![r] = [pc |-> "fetch", npm |-> n, doc |-> None, since |-> now]]
    BY <1>0, <1>1, <1>5, EnterMoves
  <2>5. x.pc = "fetch" /\ x.npm = n /\ \A d \in Request : d # r => req'[d] = req[d]
    BY <1>2, <2>4
  <2>6. Undisturbed(x, i)'
    BY <2>3, <2>5 DEF Undisturbed
  <2>7. Alone'
    BY <1>1, <1>3, <2>5, <2>6, NothingStored
  <2> QED BY <1>0, <2>1, <2>2, <2>7 DEF Needed, CacheKey
<1> QED BY <1>4, <1>5

-----------------------------------------------------------------------------
(* The steps of one request that store, and those of the download. *)

\* The item that Promote stores is of a student for whom no other request asks.
LEMMA PromoteAlone ==
    ASSUME IInv, Alone, OnePerStudent, NEW r \in Request, Promote(r)
    PROVE  Alone' /\ Needed(r)
<1>0. PICK n : n = req[r].npm
  OBVIOUS
<1>1. /\ req[r].pc = "promote" /\ now' = now /\ UNCHANGED <<files, io>>
      /\ cache' = [cache EXCEPT ![n] = [value |-> req[r].doc, expiration |-> now + L1TTL]]
      /\ Reply(r, req[r].doc, TRUE)
  BY <1>0 DEF Promote, L1!Set, Elsewhere, L2Idle, At, CacheKey
<1>2. req[r].pc \in Busy /\ n \in Npm /\ req \in [Request -> InHandler]
  BY <1>0, <1>1, Steps DEF Busy, Lookup
<1> PICK x, i : x = req'[r] /\ i = io'[r]
  OBVIOUS
<1>3. x.pc = "replied" /\ \A d \in Request : d # r => req'[d] = req[d]
  BY <1>1, <1>2 DEF Reply
<1>4. Undisturbed(x, i)'
  BY <1>3, AtEase
<1>5. \A m \in Npm : m # n => cache'[m] = cache[m]
  BY <1>1 DEF IInv, CacheOK
<1>6. OrderedAt(n)'
  BY <1>1, <1>2, FilesApart DEF Alone
<1>7. Alone'
  BY <1>0, <1>1, <1>2, <1>3, <1>4, <1>5, <1>6, OwnStored
<1> QED BY <1>3, <1>7 DEF Needed, At

\* From the download to the end of the save there is no live file.
LEMMA NoneLive ==
    ASSUME IInv, Alone, NEW r \in Request, req[r].pc \in Fetch \cup Store,
           NEW n, n = req[r].npm
    PROVE  /\ n \in Npm /\ req[r].pc \in Busy /\ req[r] \in Active
           /\ req \in [Request -> InHandler] /\ io \in [Request -> L2!Call]
           /\ ~LiveFile(n) /\ OrderedAt(n)
<1>1. req[r].pc \in Busy
  BY DEF Busy
<1>2. n \in Npm /\ req[r] \in Active
  BY <1>1, Steps
<1> QED BY <1>1, <1>2 DEF Alone, Undisturbed, IInv, RequestsOK

LEMMA FetchOKAlone ==
    ASSUME IInv, Alone, NEW r \in Request, FetchOK(r)
    PROVE  Alone' /\ Needed(r)
<1>0. PICK n, doc : n = req[r].npm /\
                    doc = [npm |-> req[r].npm, version |-> Len(published[req[r].npm])]
  OBVIOUS
<1>1. /\ req[r].pc = "fetch" /\ now' = now /\ UNCHANGED <<files, io, cache>>
      /\ Enter(r, "set", doc)
  BY <1>0 DEF FetchOK, Elsewhere, L1Idle, L2Idle, At
<1>2. n \in Npm /\ ~LiveFile(n) /\ req \in [Request -> InHandler]
  BY <1>0, <1>1, NoneLive DEF Fetch
<1>3. req' = [req EXCEPT ![r] = [pc |-> "set", npm |-> n, doc |-> doc, since |-> now]]
  BY <1>0, <1>1, EnterMoves
<1> PICK x, i : x = req'[r] /\ i = io'[r]
  OBVIOUS
<1>4. x.pc = "set" /\ x.npm = n /\ \A d \in Request : d # r => req'[d] = req[d]
  BY <1>2, <1>3
<1>5. ~LiveFile(n)'
  BY <1>1, <1>2, FilesApart
<1>6. Undisturbed(x, i)'
  BY <1>4, <1>5 DEF Undisturbed
<1>7. Alone'
  BY <1>1, <1>4, <1>6, NothingStored
<1> QED BY <1>4, <1>7 DEF Needed, At

LEMMA FetchFailsAlone ==
    ASSUME IInv, Alone, NEW r \in Request, FetchFails(r) \/ FetchTimesOut(r)
    PROVE  Alone' /\ Needed(r)
<1>1. /\ now' = now /\ UNCHANGED <<files, io, cache>>
      /\ Reply(r, Error, FALSE)
  BY DEF FetchFails, FetchTimesOut, Elsewhere, L1Idle, L2Idle
<1>2. req \in [Request -> InHandler]
  BY DEF IInv, RequestsOK
<1> PICK x, i : x = req'[r] /\ i = io'[r]
  OBVIOUS
<1>3. x.pc = "replied" /\ \A d \in Request : d # r => req'[d] = req[d]
  BY <1>1, <1>2 DEF Reply
<1>4. Undisturbed(x, i)'
  BY <1>3, AtEase
<1>5. Alone'
  BY <1>1, <1>3, <1>4, NothingStored
<1> QED BY <1>3, <1>5 DEF Needed, At

LEMMA SetL1Alone ==
    ASSUME IInv, Alone, OnePerStudent, NEW r \in Request, SetL1(r)
    PROVE  Alone' /\ Needed(r)
<1>0. PICK n : n = req[r].npm
  OBVIOUS
<1>1. /\ req[r].pc = "set" /\ now' = now /\ UNCHANGED <<files, io>>
      /\ cache' = [cache EXCEPT ![n] = [value |-> req[r].doc, expiration |-> now + L1TTL]]
      /\ Goto(r, "store")
  BY <1>0 DEF SetL1, L1!Set, Elsewhere, L2Idle, At, CacheKey
<1>2. /\ n \in Npm /\ req[r].pc \in Busy /\ req[r] \in Active
      /\ req \in [Request -> InHandler] /\ ~LiveFile(n) /\ OrderedAt(n)
  BY <1>0, <1>1, NoneLive DEF Store
<1>3. req' = [req EXCEPT ![r] = [pc |-> "store", npm |-> n, doc |-> req[r].doc,
                                 since |-> req[r].since]]
  BY <1>0, <1>1, <1>2, GotoMoves
<1> PICK x, i : x = req'[r] /\ i = io'[r]
  OBVIOUS
<1>4. x.pc = "store" /\ x.npm = n /\ \A d \in Request : d # r => req'[d] = req[d]
  BY <1>2, <1>3
<1>5. ~LiveFile(n)' /\ OrderedAt(n)'
  BY <1>1, <1>2, FilesApart
<1>6. Undisturbed(x, i)'
  BY <1>4, <1>5 DEF Undisturbed
<1>7. \A m \in Npm : m # n => cache'[m] = cache[m]
  BY <1>1 DEF IInv, CacheOK
<1>8. Alone'
  BY <1>0, <1>1, <1>2, <1>4, <1>5, <1>6, <1>7, OwnStored
<1> QED BY <1>4, <1>8 DEF Needed, At

LEMMA StoreL2Alone ==
    ASSUME IInv, Alone, NEW r \in Request, StoreL2(r)
    PROVE  Alone' /\ Needed(r)
<1>0. PICK n, call : n = req[r].npm /\
          call = [pc |-> "open", data |-> req[r].doc,
                  path |-> [kind |-> "response", nis |-> n, stamp |-> now]]
  OBVIOUS
<1>1. /\ req[r].pc = "store" /\ now' = now /\ UNCHANGED <<files, cache>>
      /\ io' = [io EXCEPT ![r] = call] /\ Goto(r, "saving")
  BY <1>0 DEF StoreL2, L2!SaveName, Elsewhere, L1Idle, At
<1>2. /\ n \in Npm /\ req[r] \in Active /\ ~LiveFile(n)
      /\ req \in [Request -> InHandler] /\ io \in [Request -> L2!Call]
  BY <1>0, <1>1, NoneLive DEF Store
<1>3. req' = [req EXCEPT ![r] = [pc |-> "saving", npm |-> n, doc |-> req[r].doc,
                                 since |-> req[r].since]]
  BY <1>0, <1>1, <1>2, GotoMoves
<1> PICK x, i : x = req'[r] /\ i = io'[r]
  OBVIOUS
<1>4. /\ x.pc = "saving" /\ x.npm = n
      /\ \A d \in Request : d # r => req'[d] = req[d] /\ io'[d] = io[d]
  BY <1>1, <1>2, <1>3
<1>5. ~LiveFile(n)'
  BY <1>1, <1>2, FilesApart
<1>6. Undisturbed(x, i)'
  BY <1>4, <1>5 DEF Undisturbed
<1>7. Alone'
  BY <1>1, <1>4, <1>6, NothingStored
<1> QED BY <1>4, <1>7 DEF Needed, At

\* A save empties its file, and there was no live one to lose.
LEMMA SavingAlone ==
    ASSUME IInv, Alone, OnePerStudent, NEW r \in Request, Saving(r)
    PROVE  Alone' /\ Needed(r)
<1>0. PICK n, p, j : n = req[r].npm /\ p = io[r].path /\ j = io[r]
  OBVIOUS
<1>1. /\ req[r].pc = "saving" /\ now' = now /\ UNCHANGED <<req, cache>>
      /\ j.pc = "open" /\ files' = [files EXCEPT ![p] = [mtime |-> now, data |-> Empty]]
      /\ io' = [io EXCEPT ![r].pc = "write"]
  BY <1>0 DEF Saving, L2!SaveOpen, Elsewhere, L1Idle, At
<1>2. /\ n \in Npm /\ req[r].pc \in Busy /\ ~LiveFile(n)
      /\ req \in [Request -> InHandler] /\ io \in [Request -> L2!Call]
  BY <1>0, <1>1, NoneLive DEF Store
<1>3. p \in L2!Path /\ p.nis = n
  <2>1. p \in L2!Path
    BY <1>0, <1>1, PathTyped
  <2>2. p.nis = n
    BY <1>0, <1>1 DEF IInv, RequestsOK, Sound
  <2> QED BY <2>1, <2>2
<1>4. /\ \A q \in L2!Path : q # p => files'[q] = files[q]
      /\ files'[p] = [mtime |-> now, data |-> Empty]
  BY <1>1, <1>3 DEF IInv, FilesOK
<1>5. \A q \in L2!Path : q.nis = n => ~Fresh(q)'
  <2> SUFFICES ASSUME NEW q \in L2!Path, q.nis = n
               PROVE  ~Fresh(q)'
    OBVIOUS
  <2>1. CASE q = p
    <3>1. files'[q].data = Empty /\ Empty \notin Document
      BY <1>4, <2>1, HandlerAssumption
    <3> QED BY <3>1 DEF Fresh
  <2>2. CASE q # p
    <3>1. ~Fresh(q)
      BY <1>2 DEF LiveFile, Fresh
    <3> QED BY <1>1, <1>4, <2>2, <3>1 DEF Fresh, L2!Exists, L2!Expired, L2!OlderThanTTL
  <2> QED BY <2>1, <2>2
<1>6. ~LiveFile(n)' /\ OrderedAt(n)'
  BY <1>5 DEF LiveFile, OrderedAt, Fresh
<1> PICK x, i : x = req'[r] /\ i = io'[r]
  OBVIOUS
<1>7. x.pc = "saving" /\ x.npm = n /\ \A d \in Request : d # r => io'[d] = io[d]
  BY <1>0, <1>1, <1>2
<1>8. Undisturbed(x, i)'
  BY <1>6, <1>7 DEF Undisturbed
<1>9. \A q \in L2!Path : q.nis # n => files'[q] = files[q]
  BY <1>3, <1>4
<1>10. Alone'
  BY <1>0, <1>1, <1>2, <1>6, <1>7, <1>8, <1>9, OwnStored
<1> QED BY <1>1, <1>10 DEF Needed, At

\* What is written is the newest file of its student.
LEMMA StoreDoneAlone ==
    ASSUME IInv, Alone, OnePerStudent, ~IoMayFail, NEW r \in Request, StoreDone(r)
    PROVE  Alone' /\ Needed(r)
<1>0. PICK n, p : n = req[r].npm /\ p = io[r].path
  OBVIOUS
<1>1. /\ req[r].pc = "saving" /\ now' = now /\ UNCHANGED cache
      /\ L2!SaveWrite(r) /\ Reply(r, req[r].doc, FALSE)
  BY DEF StoreDone, L2!SaveError, Elsewhere, L1Idle, At
<1>2. /\ n \in Npm /\ req[r].pc \in Busy /\ ~LiveFile(n)
      /\ req \in [Request -> InHandler] /\ io \in [Request -> L2!Call]
  BY <1>0, <1>1, NoneLive DEF Store
<1>3. io[r].pc = "write" /\ io' = [io EXCEPT ![r] = L2!Idle]
  BY <1>1 DEF L2!SaveWrite
<1>4. p \in L2!Path /\ p.nis = n
  <2>1. p \in L2!Path
    BY <1>0, <1>3, PathTyped
  <2>2. p.nis = n
    BY <1>0, <1>1 DEF IInv, RequestsOK, Sound
  <2> QED BY <2>1, <2>2
<1>5. /\ \A q \in L2!Path : q # p => files'[q] = files[q]
      /\ files'[p] = None \/ files'[p].mtime = now
  <2>1. CASE L2!Exists(p)
    <3>1. PICK d : files' = [files EXCEPT ![p] = [mtime |-> now, data |-> d]]
      BY <1>0, <1>1, <2>1 DEF L2!SaveWrite
    <3> QED BY <1>4, <3>1 DEF IInv, FilesOK
  <2>2. CASE ~L2!Exists(p)
    BY <1>0, <1>1, <2>2 DEF L2!SaveWrite, L2!Exists
  <2> QED BY <2>1, <2>2
<1>6. OrderedAt(n)'
  <2> SUFFICES ASSUME NEW s \in L2!Path, NEW q \in L2!Path, s.nis = n, q.nis = n,
                      Fresh(s)', L2!Exists(q)', files'[s].mtime < files'[q].mtime
               PROVE  FALSE
    BY Zenon DEF OrderedAt
  <2>1. s = p
    <3>1. SUFFICES ASSUME s # p
                   PROVE  FALSE
      OBVIOUS
    <3>2. Fresh(s)
      BY <1>1, <1>5, <3>1 DEF Fresh, L2!Exists, L2!Expired, L2!OlderThanTTL
    <3> QED BY <1>2, <3>2 DEF LiveFile, Fresh
  <2>2. files'[s].mtime = now
    BY <1>5, <2>1 DEF Fresh, L2!Exists
  <2>3. files'[q].mtime \in Nat /\ files'[q].mtime <= now
    <3>1. CASE q = p
      BY <1>5, <3>1, Numbers DEF L2!Exists
    <3>2. CASE q # p
      <4>1. files'[q] = files[q] /\ files[q] # None
        BY <1>5, <3>2 DEF L2!Exists
      <4> QED BY <4>1, FileTyped DEF GoodFile
    <3> QED BY <3>1, <3>2
  <2> QED BY <2>2, <2>3, Numbers
<1> PICK x, i : x = req'[r] /\ i = io'[r]
  OBVIOUS
<1>7. /\ x.pc = "replied"
      /\ \A d \in Request : d # r => req'[d] = req[d] /\ io'[d] = io[d]
  BY <1>1, <1>2, <1>3 DEF Reply
<1>8. Undisturbed(x, i)'
  BY <1>7, AtEase
<1>9. \A q \in L2!Path : q.nis # n => files'[q] = files[q]
  BY <1>4, <1>5
<1>10. Alone'
  BY <1>0, <1>1, <1>2, <1>6, <1>7, <1>8, <1>9, OwnStored
<1> QED BY <1>7, <1>10 DEF Needed, At

-----------------------------------------------------------------------------
(* The steps of nobody's request. *)

\* Nobody steps; items may go, files and all calls stay.
LEMMA RestAlone ==
    ASSUME IInv, Alone, now' = now, UNCHANGED <<files, io, req>>,
           \A n \in Npm : cache'[n] = cache[n] \/ cache'[n] = None
    PROVE  Alone' /\ \A r \in Request : Needed(r)
<1>1. \A n \in Npm : OrderedAt(n)'
  BY FilesApart DEF Alone
<1>2. ASSUME NEW d \in Request
      PROVE  Undisturbed(req[d], io[d])'
  <2>1. PICK y, j : y = req[d] /\ j = io[d]
    OBVIOUS
  <2>2. y.pc \in Busy => y.npm \in Npm
    BY <2>1, ActiveTyped DEF Busy
  <2>3. Undisturbed(y, j)
    BY <2>1 DEF Alone
  <2>4. Undisturbed(y, j)'
    BY <2>1, <2>2, <2>3, UndisturbedStays
  <2> QED BY <2>1, <2>4
<1> QED BY <1>1, <1>2 DEF Alone, Needed, At

LEMMA SweepAlone ==
    ASSUME IInv, Alone, Sweep
    PROVE  Alone' /\ \A r \in Request : Needed(r)
<1>1. now' = now /\ UNCHANGED <<files, io, req>>
  BY DEF Sweep, Elsewhere, L2Idle
<1>2. \A n \in Npm : cache'[n] = cache[n] \/ cache'[n] = None
  BY DEF Sweep, L1!CleanupWake, L1!CleanupSweep
<1> QED BY <1>1, <1>2, RestAlone

LEMMA CrashAlone ==
    ASSUME IInv, Alone, Crash
    PROVE  Alone' /\ \A r \in Request : Needed(r)
<1>1. now' = now /\ UNCHANGED files /\ req' = [r \in Request |-> IdleReq]
  BY DEF Crash, L2!Crash, Elsewhere
<1>2. \A n \in Npm : OrderedAt(n)'
  BY <1>1, FilesApart DEF Alone
<1>3. ASSUME NEW d \in Request
      PROVE  Undisturbed(req[d], io[d])'
  <2> PICK x, i : x = req'[d] /\ i = io'[d]
    OBVIOUS
  <2>1. x.pc = "idle"
    BY <1>1 DEF IdleReq
  <2>2. Undisturbed(x, i)'
    BY <2>1, AtEase
  <2> QED BY <2>2
<1> QED BY <1>1, <1>2, <1>3 DEF Alone, Needed, At, IdleReq

\* What was not live is not live later.
LEMMA TickAlone ==
    ASSUME IInv, Alone, Tick
    PROVE  Alone' /\ \A r \in Request : Needed(r)
<1>1. now' = now + 1 /\ UNCHANGED <<files, io, req, cache>>
  BY DEF Tick, L1!Tick, L2Idle
<1>2. \A p \in L2!Path : L2!Exists(p) /\ L2!Expired(p) => L2!Expired(p)'
  BY <1>1, FileTyped, Numbers DEF L2!Exists, L2!Expired, L2!OlderThanTTL
<1>3. \A p \in L2!Path : Fresh(p)' => Fresh(p)
  BY <1>1, <1>2 DEF Fresh, L2!Exists
<1>4. \A n \in Npm : OrderedAt(n)'
  BY <1>1, <1>3 DEF Alone, OrderedAt, L2!Exists
<1>5. \A n \in Npm : ~LiveFile(n) => ~LiveFile(n)'
  BY <1>3 DEF LiveFile, Fresh
<1>6. ASSUME NEW n \in Npm, ~L1!Live(n)
      PROVE  ~L1!Live(n)'
  <2>1. SUFFICES ASSUME cache[n] # None
                 PROVE  ~L1!Live(n)'
    BY <1>1 DEF L1!Live
  <2>2. PICK e : e = cache[n].expiration
    OBVIOUS
  <2>3. e \in Nat /\ now > e
    BY <1>6, <2>1, <2>2 DEF L1!Live, L1!Expired, IInv, CacheOK, L1!Item
  <2>4. now' > e
    BY <1>1, <2>3, Numbers
  <2> QED BY <1>1, <2>2, <2>4 DEF L1!Live, L1!Expired
<1>7. ASSUME NEW d \in Request
      PROVE  Undisturbed(req[d], io[d])'
  <2>1. PICK x, i : x = req[d] /\ i = io[d]
    OBVIOUS
  <2>2. Undisturbed(x, i) /\ Sound(x, get[d], i)
    BY <2>1 DEF Alone, IInv, RequestsOK
  <2>3. CASE x.pc \notin Busy
    <3>1. Undisturbed(x, i)'
      BY <2>3 DEF Undisturbed, Busy, Lookup, Fetch, Store
    <3> QED BY <1>1, <2>1, <3>1
  <2>4. CASE x.pc \in Busy
    <3>1. x.npm \in Npm
      BY <2>1, <2>4, ActiveTyped DEF Busy
    <3>2. L2!Glob("response", x.npm)' = L2!Glob("response", x.npm)
      BY <1>1 DEF L2!Glob, L2!Exists
    <3>3. ASSUME x.pc = "l2get", i.pc # "sort"
          PROVE  i.path \in L2!Path /\ L2!Exists(i.path) /\ Newest(i.path)'
      <4>1. i.pc \in {"stat", "remove", "read"}
        BY <2>2, <3>3 DEF Sound
      <4>2. i.path \in L2!Path
        BY <2>1, <4>1, PathTyped
      <4> QED BY <1>1, <2>2, <3>3, <4>2 DEF Undisturbed, Newest, L2!Exists
    <3>4. ASSUME x.pc = "l2get", i.pc = "remove"
          PROVE  L2!Expired(i.path)'
      BY <1>2, <2>2, <3>3, <3>4 DEF Undisturbed
    <3>5. Undisturbed(x, i)'
      BY <1>5, <1>6, <2>2, <3>1, <3>2, <3>3, <3>4 DEF Undisturbed
    <3> QED BY <1>1, <2>1, <3>5
  <2> QED BY <2>3, <2>4
<1> QED BY <1>1, <1>4, <1>7 DEF Alone, Needed, At

-----------------------------------------------------------------------------
\* A step keeps what requests have found out, and asks the campus server only
\* when it has to.
LEMMA StepAlone ==
    ASSUME IInv, Alone, OnePerStudent, DistinctTimes, ~IoMayFail, [Next]_vars
    PROVE  Alone' /\ \A r \in Request : Needed(r)
<1>1. ASSUME NEW r \in Request, Alone' /\ Needed(r),
             \A d \in Request : d # r => req'[d] = req[d]
      PROVE  Alone' /\ \A d \in Request : Needed(d)
  <2>1. \A d \in Request : d # r => Needed(d)
    BY <1>1 DEF Needed, At
  <2> QED BY <1>1, <2>1
<1>2. req \in [Request -> InHandler]
  BY DEF IInv, RequestsOK
<1>3. ASSUME NEW r \in Request, NEW n \in Npm, Begin(r, n)
      PROVE  Alone' /\ \A d \in Request : Needed(d)
  <2>1. \A d \in Request : d # r => req'[d] = req[d]
    BY <1>2, <1>3 DEF Begin
  <2> QED BY <1>1, <1>3, <2>1, BeginAlone
<1>4. ASSUME NEW r \in Request, Work(r) \/ FetchOK(r) \/ FetchFails(r)
      PROVE  Alone' /\ \A d \in Request : Needed(d)
  <2>1. CASE L1Lookup(r) \/ L1Hit(r) \/ L1Expired(r) \/ L1Evict(r)
    <3>1. \A d \in Request : d # r => req'[d] = req[d]
      BY <1>2, <2>1 DEF L1Lookup, L1Hit, L1Expired, L1Evict, Goto, Reply
    <3> QED BY <1>1, <2>1, <3>1, L1LookupAlone, L1HitAlone, L1ExpiredAlone, L1EvictAlone
  <2>2. CASE L2Lookup(r) \/ L2Examine(r) \/ L2Miss(r) \/ L2Read(r)
    <3>1. \A d \in Request : d # r => req'[d] = req[d]
      BY <1>2, <2>2 DEF L2Lookup, L2Examine, L2Miss, L2Read, Goto, Enter
    <3> QED BY <1>1, <2>2, <3>1, L2LookupAlone, L2ExamineAlone, L2MissAlone, L2ReadAlone
  <2>3. CASE Promote(r) \/ FetchOK(r) \/ FetchFails(r) \/ FetchTimesOut(r) \/ SetL1(r)
    <3>1. \A d \in Request : d # r => req'[d] = req[d]
      BY <1>2, <2>3 DEF Promote, FetchOK, FetchFails, FetchTimesOut, SetL1, Goto, Enter, Reply
    <3> QED BY <1>1, <2>3, <3>1, PromoteAlone, FetchOKAlone, FetchFailsAlone, SetL1Alone
  <2>4. CASE StoreL2(r) \/ Saving(r) \/ StoreDone(r) \/ Deliver(r)
    <3>1. \A d \in Request : d # r => req'[d] = req[d]
      BY <1>2, <2>4 DEF StoreL2, Saving, StoreDone, Deliver, Goto, Reply
    <3> QED BY <1>1, <2>4, <3>1, StoreL2Alone, SavingAlone, StoreDoneAlone, DeliverAlone
  <2> QED BY <1>4, <2>1, <2>2, <2>3, <2>4 DEF Work
<1>5. CASE UNCHANGED vars \/ \E n \in Npm : Publish(n)
  <2>1. now' = now /\ UNCHANGED <<files, io, req, cache>>
    BY <1>5 DEF vars, Publish, L1Idle, L2Idle
  <2> QED BY <2>1, RestAlone
<1>6. CASE Sweep \/ Crash \/ Tick
  BY <1>6, SweepAlone, CrashAlone, TickAlone
<1> QED BY <1>3, <1>4, <1>5, <1>6 DEF Next

LEMMA InitAlone == Init => Alone
<1> SUFFICES ASSUME Init
             PROVE  Alone
  OBVIOUS
<1>1. files = [p \in L2!Path |-> None] /\ req = [r \in Request |-> IdleReq]
  BY DEF Init, L2!Init
<1>2. \A n \in Npm : OrderedAt(n)
  BY <1>1 DEF OrderedAt, Fresh, L2!Exists
<1>3. \A r \in Request : Undisturbed(req[r], io[r])
  BY <1>1 DEF Undisturbed, IdleReq, Fetch, Store
<1> QED BY <1>2, <1>3 DEF Alone

\* The campus server is asked only when neither cache has a live document of the
\* student, wherever the service crashed and was restarted, if no two requests of
\* one student are under way at once, no two files of one student were last
\* written at the same moment, and file operations report no errors.
THEOREM FetchesNeeded ==
    ASSUME ~IoMayFail
    PROVE  Spec /\ [](OnePerStudent /\ DistinctTimes) => FetchOnlyWhenNeeded
<1>1. IInv /\ Alone /\ (OnePerStudent /\ DistinctTimes) /\ [Next]_vars => Alone'
  BY StepAlone
<1>2. IInv /\ Alone /\ (OnePerStudent /\ DistinctTimes) /\ [Next]_vars
        => [\A r \in Request :
              ~At(r, "fetch") /\ At(r, "fetch")' =>
                  /\ ~LiveFile(req[r].npm)
                  /\ ~L1!Live(CacheKey(req[r].npm))]_vars
  BY StepAlone DEF Needed
<1> QED BY <1>1, <1>2, InitAlone, Invariance, PTL DEF Spec, FetchOnlyWhenNeeded

-----------------------------------------------------------------------------
(* When a save takes no time that the clock shows, a file's modification     *)
(* time is the one in its name, and DistinctTimes holds by itself.           *)

\* A file was last written within MaxLatency of the time in its name.
WrittenInTime(p) ==
    L2!Exists(p) => p.stamp <= files[p].mtime /\ files[p].mtime <= p.stamp + MaxLatency

\* A request that saves named its file in this phase.
NamedInTime(x, i) ==
    x.pc = "saving" => x.since <= i.path.stamp /\ i.path.stamp <= now

Punctual ==
    /\ \A p \in L2!Path : WrittenInTime(p)
    /\ \A r \in Request : NamedInTime(req[r], io[r])

\* A step of one request that writes to its own file, if to any.
LEMMA OneWrites ==
    ASSUME IInv, Punctual, now' = now, NEW r \in Request,
           \A d \in Request : d # r => req'[d] = req[d] /\ io'[d] = io[d],
           NEW x, x = req'[r], NEW i, i = io'[r], NamedInTime(x, i)',
           \A p \in L2!Path :
              \/ files'[p] = files[p] \/ files'[p] = None
              \/ req[r].pc = "saving" /\ p = io[r].path /\ files'[p].mtime = now
    PROVE  Punctual'
<1>1. ASSUME NEW p \in L2!Path
      PROVE  WrittenInTime(p)'
  <2>1. CASE files'[p] = files[p] \/ files'[p] = None
    BY <2>1 DEF Punctual, WrittenInTime, L2!Exists
  <2>2. CASE req[r].pc = "saving" /\ p = io[r].path /\ files'[p].mtime = now
    <3>1. req[r].since <= p.stamp /\ p.stamp <= now
      BY <2>2 DEF Punctual, NamedInTime
    <3>2. req[r].since \in Nat /\ now - req[r].since <= MaxLatency
      BY <2>2, ActiveTyped DEF Store
    <3>3. p.stamp \in Nat
      BY Numbers DEF L2!Path
    <3>4. now <= p.stamp + MaxLatency
      BY <3>1, <3>2, <3>3, Numbers
    <3> QED BY <2>2, <3>1, <3>4 DEF WrittenInTime
  <2> QED BY <2>1, <2>2
<1>2. ASSUME NEW d \in Request
      PROVE  NamedInTime(req[d], io[d])'
  <2>1. CASE d = r
    BY <2>1
  <2>2. CASE d # r
    BY <2>2 DEF Punctual, NamedInTime
  <2> QED BY <2>1, <2>2
<1> QED BY <1>1, <1>2 DEF Punctual

\* A step of a request that does not save.
LEMMA NoneWrites ==
    ASSUME IInv, Punctual, now' = now, NEW r \in Request,
           \A d \in Request : d # r => req'[d] = req[d] /\ io'[d] = io[d],
           req'[r].pc # "saving",
           \A p \in L2!Path : files'[p] = files[p] \/ files'[p] = None
    PROVE  Punctual'
<1> PICK x, i : x = req'[r] /\ i = io'[r]
  OBVIOUS
<1>1. NamedInTime(x, i)'
  BY DEF NamedInTime
<1> QED BY <1>1, OneWrites

\* The steps of a request, by what they do to the files.
LEMMA RequestPunctual ==
    ASSUME IInv, Punctual, NEW r \in Request,
           Work(r) \/ FetchOK(r) \/ FetchFails(r) \/ (\E n \in Npm : Begin(r, n))
    PROVE  Punctual'
<1>1. /\ req \in [Request -> InHandler] /\ io \in [Request -> L2!Call]
      /\ files \in [L2!Path -> L2!File \cup {None}]
      /\ now \in Nat
  BY Numbers DEF IInv, RequestsOK, FilesOK
<1>2. req[r].pc \in Busy => req[r] \in Active
  BY Steps
<1>3. CASE \/ L1Lookup(r) \/ L1Hit(r) \/ L1Expired(r) \/ L1Evict(r) \/ Promote(r)
           \/ FetchOK(r) \/ FetchFails(r) \/ FetchTimesOut(r) \/ SetL1(r) \/ Deliver(r)
           \/ \E n \in Npm : Begin(r, n)
  <2>1. now' = now /\ UNCHANGED <<files, io>>
    BY <1>3 DEF L1Lookup, L1Hit, L1Expired, L1Evict, Promote, FetchOK, FetchFails,
                FetchTimesOut, SetL1, Deliver, Begin, L2Idle, Elsewhere
  <2>2. \A d \in Request : d # r => req'[d] = req[d]
    BY <1>1, <1>3 DEF L1Lookup, L1Hit, L1Expired, L1Evict, Promote, FetchOK, FetchFails,
                FetchTimesOut, SetL1, Deliver, Begin, Goto, Enter, Reply
  <2>3. req'[r].pc # "saving"
    <3>1. CASE L1Lookup(r) \/ L1Evict(r) \/ SetL1(r)
      <4>1. req[r] \in Active
        BY <1>2, <3>1 DEF L1Lookup, L1Evict, SetL1, At, Busy, Lookup, Store
      <4>2. PICK pc : Goto(r, pc) /\ pc \in {"l2", "l1get", "store"}
        <5>1. CASE L1Lookup(r)
          BY <5>1 DEF L1Lookup
        <5>2. CASE L1Evict(r)
          BY <5>2 DEF L1Evict
        <5>3. CASE SetL1(r)
          BY <5>3 DEF SetL1
        <5> QED BY <3>1, <5>1, <5>2, <5>3
      <4>3. req'[r].pc = pc
        BY <1>1, <4>1, <4>2 DEF Goto, Active
      <4> QED BY <4>2, <4>3
    <3>2. CASE \/ L1Hit(r) \/ Promote(r) \/ FetchOK(r) \/ FetchFails(r) \/ FetchTimesOut(r)
               \/ Deliver(r) \/ \E n \in Npm : Begin(r, n)
      BY <1>1, <3>2 DEF L1Hit, Promote, FetchOK, FetchFails, FetchTimesOut, Deliver,
                        Begin, Enter, Reply, IdleReq
    <3>3. CASE L1Expired(r)
      BY <3>3 DEF L1Expired, At
    <3> QED BY <1>3, <3>1, <3>2, <3>3
  <2> QED BY <2>1, <2>2, <2>3, NoneWrites
<1>4. CASE L2Lookup(r) \/ L2Examine(r) \/ L2Miss(r) \/ L2Read(r)
  <2>1. now' = now
    BY <1>4 DEF L2Lookup, L2Examine, L2Miss, L2Read, Elsewhere
  <2>2. \A d \in Request : d # r => req'[d] = req[d] /\ io'[d] = io[d]
    BY <1>1, <1>4 DEF L2Lookup, L2Examine, L2Miss, L2Read, Goto, Enter, L2!GetGlob,
          L2!GetSort, L2!GetStat, L2!GetMiss, L2!GetStatError, L2!GetRemove,
          L2!GetReadError, L2!GetRead, L2!Fail
  <2>3. \A p \in L2!Path : files'[p] = files[p] \/ files'[p] = None
    BY <1>1, <1>4 DEF L2Lookup, L2Examine, L2Miss, L2Read, L2!GetGlob,
          L2!GetSort, L2!GetStat, L2!GetMiss, L2!GetStatError, L2!GetRemove,
          L2!GetReadError, L2!GetRead, L2!Fail
  <2>4. req[r] \in Active /\ req[r].pc \in {"l2", "l2get"}
    BY <1>2, <1>4 DEF L2Lookup, L2Examine, L2Miss, L2Read, At, Busy, Lookup
  <2>5. req'[r].pc # "saving"
    BY <1>1, <1>4, <2>4 DEF L2Lookup, L2Examine, L2Miss, L2Read, Goto, Enter, Active
  <2> QED BY <2>1, <2>2, <2>3, <2>5, NoneWrites
<1>5. CASE StoreL2(r)
  <2>0. PICK call : call = [pc |-> "open", data |-> req[r].doc,
                 path |-> [kind |-> "response", nis |-> req[r].npm, stamp |-> now]]
    OBVIOUS
  <2>1. /\ req[r].pc = "store" /\ now' = now /\ UNCHANGED files
        /\ io' = [io EXCEPT ![r] = call] /\ Goto(r, "saving")
    BY <1>5, <2>0 DEF StoreL2, L2!SaveName, Elsewhere, At
  <2>2. req[r] \in Active /\ req[r].since <= now
    BY <1>2, <2>1, ActiveTyped DEF Busy, Store
  <2> PICK x, i : x = req'[r] /\ i = io'[r]
    OBVIOUS
  <2>3. x.since = req[r].since
    BY <1>1, <2>1, <2>2 DEF Goto, Active
  <2>4. i.path.stamp = now /\ \A d \in Request : d # r => req'[d] = req[d] /\ io'[d] = io[d]
    BY <1>1, <2>0, <2>1 DEF Goto
  <2>5. NamedInTime(x, i)'
    BY <1>1, <2>1, <2>2, <2>3, <2>4 DEF NamedInTime
  <2> QED BY <2>1, <2>4, <2>5, OneWrites
<1>6. CASE Saving(r)
  <2>0. PICK p, j : p = io[r].path /\ j = io[r]
    OBVIOUS
  <2>1. /\ req[r].pc = "saving" /\ now' = now /\ UNCHANGED req /\ j.pc = "open"
        /\ files' = [files EXCEPT ![p] = [mtime |-> now, data |-> Empty]]
        /\ io' = [io EXCEPT ![r].pc = "write"]
    BY <1>6, <2>0 DEF Saving, L2!SaveOpen, Elsewhere, At
  <2> PICK x, i : x = req'[r] /\ i = io'[r]
    OBVIOUS
  <2>2. j \in L2!Saving
    BY <2>0, <2>1, CallKinds
  <2>3. i.path = p /\ \A d \in Request : d # r => io'[d] = io[d]
    BY <1>1, <2>0, <2>1, <2>2 DEF L2!Saving
  <2>4. NamedInTime(x, i)'
    BY <2>0, <2>1, <2>3 DEF Punctual, NamedInTime
  <2>5. \A q \in L2!Path : files'[q] = files[q] \/ (q = p /\ files'[q].mtime = now)
    BY <1>1, <2>1
  <2> QED BY <2>0, <2>1, <2>3, <2>4, <2>5, OneWrites
<1>7. CASE StoreDone(r)
  <2>0. PICK p : p = io[r].path
    OBVIOUS
  <2>1. /\ req[r].pc = "saving" /\ now' = now /\ Reply(r, req[r].doc, FALSE)
        /\ L2!SaveWrite(r) \/ L2!SaveError(r)
    BY <1>7 DEF StoreDone, Elsewhere, At
  <2>2. \A d \in Request : d # r => req'[d] = req[d] /\ io'[d] = io[d]
    BY <1>1, <2>1 DEF Reply, L2!SaveWrite, L2!SaveError, L2!Fail
  <2> PICK x, i : x = req'[r] /\ i = io'[r]
    OBVIOUS
  <2>3. x.pc = "replied"
    BY <1>1, <2>1 DEF Reply
  <2>4. NamedInTime(x, i)'
    BY <2>3 DEF NamedInTime
  <2>5. \A q \in L2!Path : files'[q] = files[q] \/ (q = p /\ files'[q].mtime = now)
    <3>1. CASE UNCHANGED files
      BY <3>1
    <3>2. CASE \E d : files' = [files EXCEPT ![p] = [mtime |-> now, data |-> d]]
      BY <1>1, <3>2
    <3>3. UNCHANGED files \/ \E d : files' = [files EXCEPT ![p] = [mtime |-> now, data |-> d]]
      BY <2>0, <2>1 DEF L2!SaveWrite, L2!SaveError, L2!Fail
    <3> QED BY <3>1, <3>2, <3>3
  <2> QED BY <2>0, <2>1, <2>2, <2>4, <2>5, OneWrites
<1> QED BY <1>3, <1>4, <1>5, <1>6, <1>7 DEF Work

LEMMA StepPunctual ==
    ASSUME IInv, Punctual, [Next]_vars
    PROVE  Punctual'
<1>1. ASSUME NEW r \in Request,
             Work(r) \/ FetchOK(r) \/ FetchFails(r) \/ (\E n \in Npm : Begin(r, n))
      PROVE  Punctual'
  BY <1>1, RequestPunctual
<1>2. CASE UNCHANGED vars \/ Sweep \/ Tick \/ \E n \in Npm : Publish(n)
  <2>1. UNCHANGED <<files, io, req>> /\ (now' = now \/ now' = now + 1)
    BY <1>2 DEF vars, Sweep, Tick, L1!Tick, Publish, L2Idle, Elsewhere
  <2>2. ASSUME NEW d \in Request
        PROVE  NamedInTime(req[d], io[d])'
    <3>1. CASE req[d].pc = "saving"
      <4>1. io[d].pc \in {"open", "write"}
        BY <3>1 DEF IInv, RequestsOK, Sound
      <4>2. PICK t : t = io[d].path.stamp
        OBVIOUS
      <4>3. t \in Nat
        BY <4>1, <4>2, PathTyped, Numbers DEF L2!Path
      <4>4. req[d].since <= t /\ t <= now
        BY <3>1, <4>2 DEF Punctual, NamedInTime
      <4>5. t <= now'
        BY <2>1, <4>3, <4>4, Numbers
      <4> QED BY <2>1, <4>2, <4>4, <4>5 DEF NamedInTime
    <3>2. CASE req[d].pc # "saving"
      BY <2>1, <3>2 DEF NamedInTime
    <3> QED BY <3>1, <3>2
  <2> QED BY <2>1, <2>2 DEF Punctual, WrittenInTime, L2!Exists
<1>3. CASE Crash
  <2>1. UNCHANGED files /\ req' = [r \in Request |-> IdleReq]
    BY <1>3 DEF Crash, L2!Crash
  <2>2. \A r \in Request : req'[r].pc = "idle"
    BY <2>1 DEF IdleReq
  <2> QED BY <2>1, <2>2 DEF Punctual, WrittenInTime, NamedInTime, L2!Exists
<1> QED BY <1>1, <1>2, <1>3 DEF Next

\* Every file was last written within MaxLatency of the second in its name.
LEMMA PunctualAlways == Spec => []Punctual
<1>1. Init => Punctual
  BY DEF Init, L2!Init, Punctual, WrittenInTime, NamedInTime, L2!Exists, IdleReq
<1>2. IInv /\ Punctual /\ [Next]_vars => Punctual'
  BY StepPunctual
<1> QED BY <1>1, <1>2, Invariance, PTL DEF Spec

\* The same where no request takes longer than the clock shows: a student's
\* requests come one after the other, and nothing is assumed of the files.
THEOREM FetchesNeededInTime ==
    ASSUME ~IoMayFail, MaxLatency = 0
    PROVE  Spec /\ []OnePerStudent => FetchOnlyWhenNeeded
<1>1. IInv /\ Punctual => DistinctTimes
  <2> SUFFICES ASSUME Punctual, IInv, NEW p \in L2!Path, NEW q \in L2!Path,
                      p.nis = q.nis, L2!Exists(p), L2!Exists(q),
                      files[p].mtime = files[q].mtime
               PROVE  p = q
    BY DEF DistinctTimes
  <2>1. /\ p.stamp \in Nat /\ q.stamp \in Nat
        /\ files[p].mtime \in Nat /\ files[q].mtime \in Nat
    BY FileTyped, Numbers DEF L2!Path, L2!Exists
  <2>2. files[p].mtime = p.stamp /\ files[q].mtime = q.stamp
    BY <2>1 DEF Punctual, WrittenInTime
  <2>3. p.stamp = q.stamp
    BY <2>2
  <2>4. p.kind = "response" /\ q.kind = "response"
    BY DEF L2!Path
  <2>5. /\ p = [kind |-> p.kind, nis |-> p.nis, stamp |-> p.stamp]
        /\ q = [kind |-> q.kind, nis |-> q.nis, stamp |-> q.stamp]
    BY DEF L2!Path
  <2> QED BY <2>3, <2>4, <2>5
<1>2. Spec => []DistinctTimes
  BY <1>1, Invariance, PunctualAlways, PTL
<1> QED BY <1>2, FetchesNeeded, PTL

=============================================================================
