---------------------------- MODULE FileStorage ----------------------------
(***************************************************************************)
(* The persistent cache L2 (src/internal/storage/file_storage.go): files   *)
(* named <nis>_<date>_<time>.<ext> in three directories, written by        *)
(* SavePDF, SaveResponse and SaveExtractedText, read back by               *)
(* GetCachedPDF and GetCachedResponse, cleaned by CleanupExpired.          *)
(*                                                                         *)
(* FileStorage holds no lock: a step is one system call (or one run of     *)
(* them that nothing can come between to any effect), and the calls of     *)
(* different goroutines interleave.  The process may crash between any two *)
(* steps; the files stay as they are.                                      *)
(*                                                                         *)
(* IsCacheValid is GetCachedResponse with its answer reduced to a Boolean: *)
(* the steps below stand for both.                                         *)
(***************************************************************************)
EXTENDS Integers

CONSTANTS
    Kind,        \* the directories in use, among AllKinds
    Nis,         \* student numbers
    Doc,         \* what callers save: a complete document
    Empty, Torn, \* contents that are not a document: nothing, or a fragment
    Caller,      \* goroutines inside a call
    FileTTL,     \* 7 * 24 hours, in ticks
    MaxLatency,  \* bound on the time from naming a file to the last write
    IoMayFail,   \* system calls may report errors
    MaxTime,     \* bound on the clock
    None         \* no such file

AllKinds == {"raw", "response", "extracted"}

\* A tick of the clock is the granularity of file names (one second): two
\* saves of the same kind for the same student in one tick share a path.
Path == [kind : Kind, nis : Nis, stamp : 0 .. MaxTime]
File == [mtime : 0 .. MaxTime, data : Doc \cup {Empty, Torn}]

ASSUME FileAssumption ==
    /\ Kind \subseteq AllKinds
    /\ FileTTL \in Nat
    /\ MaxLatency \in Nat /\ MaxLatency <= FileTTL
    /\ IoMayFail \in BOOLEAN
    /\ MaxTime \in Nat
    /\ None \notin File
    /\ Empty # Torn /\ Empty \notin Doc /\ Torn \notin Doc

VARIABLES
    now,    \* the clock, which also stamps names and modification times
    files,  \* path -> file or None
    io      \* per caller: the call it is inside of

l2vars == <<files, io>>
vars == <<now, l2vars>>

-----------------------------------------------------------------------------
Idle == [pc |-> "idle"]

Saving == [pc : {"open", "write"}, path : Path, data : Doc]
Listed == (SUBSET Path) \ {{}}
Sorting == [pc : {"sort"}, seen : Listed]
Reading == [pc : {"stat", "remove", "read"}, path : Path, seen : Listed]
Cleaning == [pc : {"clean"}, seen : SUBSET Path, at : 0 .. MaxTime]
Unlinking ==
    [pc : {"unlink"}, path : Path, seen : SUBSET Path, at : 0 .. MaxTime]

Call == {Idle} \cup Saving \cup Sorting \cup Reading \cup Cleaning \cup Unlinking

TypeOK ==
    /\ now \in 0 .. MaxTime
    /\ files \in [Path -> File \cup {None}]
    /\ io \in [Caller -> Call]

\* NewFileStorage over a directory nothing has been written to yet.
Init ==
    /\ now = 0
    /\ files = [p \in Path |-> None]
    /\ io = [c \in Caller |-> Idle]

-----------------------------------------------------------------------------
Exists(p) == files[p] # None

\* Mutant of OlderThanTTL: "not after" instead of "before".
OlderInclusive(p, t) == t - files[p].mtime >= FileTTL

\* time.Since(info.ModTime()) > 7*24*time.Hour, and as CleanupExpired has it,
\* info.ModTime().Before(now.Add(-7*24*time.Hour)).
OlderThanTTL(p, t) == t - files[p].mtime > FileTTL

Expired(p) == OlderThanTTL(p, now)

\* filepath.Glob of the files of one student in one directory.
Glob(kind, nis) == {p \in Path : p.kind = kind /\ p.nis = nis /\ Exists(p)}

\* Some system call reports an error; the call of c ends.
Fail(c) ==
    /\ io' = [io EXCEPT ![c] = Idle]
    /\ UNCHANGED files

-----------------------------------------------------------------------------
\* Mutant of SaveName: a name without the date and the time.
NameWithoutTime(c, kind, nis, doc) ==
    /\ io[c] = Idle
    /\ io' = [io EXCEPT ![c] =
                [pc |-> "open", data |-> doc,
                 path |-> [kind |-> kind, nis |-> nis, stamp |-> 0]]]
    /\ UNCHANGED files

\* SavePDF, SaveResponse, SaveExtractedText: the name is formatted from the
\* clock, then the directory is made.
SaveName(c, kind, nis, doc) ==
    /\ io[c] = Idle
    /\ io' = [io EXCEPT ![c] =
                [pc |-> "open", data |-> doc,
                 path |-> [kind |-> kind, nis |-> nis, stamp |-> now]]]
    /\ UNCHANGED files

\* os.WriteFile, first half: open with O_CREATE and O_TRUNC.
SaveOpen(c) ==
    /\ io[c].pc = "open"
    /\ files' = [files EXCEPT ![io[c].path] = [mtime |-> now, data |-> Empty]]
    /\ io' = [io EXCEPT ![c].pc = "write"]

\* What writing doc from the start of a file leaves in it.  Over the bytes of
\* another writer the longer document shows its tail.
Written(old, doc) == IF old \in {Empty, doc} THEN {doc} ELSE {doc, Torn}

\* os.WriteFile, second half.  A file unlinked meanwhile does not come back.
SaveWrite(c) ==
    /\ io[c].pc = "write"
    /\ IF Exists(io[c].path)
       THEN \E d \in Written(files[io[c].path].data, io[c].data) :
              files' = [files EXCEPT ![io[c].path] = [mtime |-> now, data |-> d]]
       ELSE UNCHANGED files
    /\ io' = [io EXCEPT ![c] = Idle]

\* MkdirAll or the open fails and nothing is written, or the write fails and
\* leaves a fragment.
SaveError(c) ==
    /\ IoMayFail
    /\ \/ io[c].pc = "open" /\ Fail(c)
       \/ /\ io[c].pc = "write"
          /\ Exists(io[c].path)
          /\ files' = [files EXCEPT ![io[c].path] =
                         [mtime |-> now, data |-> Torn]]
          /\ io' = [io EXCEPT ![c] = Idle]

-----------------------------------------------------------------------------
\* Mutant of GetGlob: files[0] of a list nobody found out to be empty.
GlobUnchecked(c, kind, nis) ==
    /\ io[c] = Idle
    /\ io' = [io EXCEPT ![c] = [pc |-> "sort", seen |-> Glob(kind, nis)]]
    /\ UNCHANGED files

\* GetCachedResponse, GetCachedPDF: no file of the student is a miss.
GetGlob(c, kind, nis) ==
    /\ io[c] = Idle
    /\ IF Glob(kind, nis) = {}
       THEN io' = io
       ELSE io' = [io EXCEPT ![c] = [pc |-> "sort", seen |-> Glob(kind, nis)]]
    /\ UNCHANGED files

\* sort.Slice, newest first.  The comparator answers false when either Stat
\* fails: once a listed file is gone, the order may be any.
First(seen) ==
    IF \A p \in seen : Exists(p)
    THEN {p \in seen : \A q \in seen : files[q].mtime <= files[p].mtime}
    ELSE seen

GetSort(c) ==
    /\ io[c].pc = "sort"
    /\ \E p \in First(io[c].seen) :
         io' = [io EXCEPT ![c] =
                  [pc |-> "stat", path |-> p, seen |-> io[c].seen]]
    /\ UNCHANGED files

\* The Stat of the first file decides between deleting and reading it.
GetStat(c) ==
    /\ io[c].pc = "stat"
    /\ Exists(io[c].path)
    /\ io' = [io EXCEPT ![c].pc =
                IF Expired(io[c].path) THEN "remove" ELSE "read"]
    /\ UNCHANGED files

GetStatError(c) ==
    /\ io[c].pc = "stat"
    /\ IoMayFail \/ ~Exists(io[c].path)
    /\ Fail(c)

\* The newest file is expired: it alone is removed, and the call answers nil.
\* The error of Remove is ignored.
GetRemove(c) ==
    /\ io[c].pc = "remove"
    /\ \/ files' = [files EXCEPT ![io[c].path] = None]
       \/ IoMayFail /\ UNCHANGED files
    /\ io' = [io EXCEPT ![c] = Idle]

\* os.ReadFile: whatever the file holds now is the answer.
GetRead(c) ==
    /\ io[c].pc = "read"
    /\ Exists(io[c].path)
    /\ io' = [io EXCEPT ![c] = Idle]
    /\ UNCHANGED files

GetReadError(c) ==
    /\ io[c].pc = "read"
    /\ IoMayFail \/ ~Exists(io[c].path)
    /\ Fail(c)

-----------------------------------------------------------------------------
\* CleanupExpired lists the three directories, then reads the clock.
CleanGlob(c, nis) ==
    /\ io[c] = Idle
    /\ io' = [io EXCEPT ![c] =
                [pc |-> "clean", at |-> now,
                 seen |-> UNION {Glob(kind, nis) : kind \in Kind}]]
    /\ UNCHANGED files

\* It walks the listed files in an order that is of no consequence here: a
\* file that cannot be examined or is recent enough is passed over.
CleanStat(c) ==
    /\ io[c].pc = "clean"
    /\ \E p \in io[c].seen :
         LET rest == io[c].seen \ {p}
         IN  \/ /\ Exists(p) /\ OlderThanTTL(p, io[c].at)
                /\ io' = [io EXCEPT ![c] =
                            [pc |-> "unlink", path |-> p, seen |-> rest,
                             at |-> io[c].at]]
             \/ /\ IoMayFail \/ (Exists(p) => ~OlderThanTTL(p, io[c].at))
                /\ io' = [io EXCEPT ![c].seen = rest]
    /\ UNCHANGED files

CleanUnlink(c) ==
    /\ io[c].pc = "unlink"
    /\ \/ files' = [files EXCEPT ![io[c].path] = None]
       \/ IoMayFail /\ UNCHANGED files
    /\ io' = [io EXCEPT ![c] =
                [pc |-> "clean", seen |-> io[c].seen, at |-> io[c].at]]

CleanDone(c) ==
    /\ io[c].pc = "clean"
    /\ io[c].seen = {}
    /\ Fail(c)

-----------------------------------------------------------------------------
SaveStep(c) == SaveOpen(c) \/ SaveWrite(c) \/ SaveError(c)

\* A Get that ends without data: an error, or the newest file was expired.
GetMiss(c) == GetStatError(c) \/ GetRemove(c) \/ GetReadError(c)

GetStep(c) == GetSort(c) \/ GetStat(c) \/ GetRead(c) \/ GetMiss(c)

CleanStep(c) == CleanStat(c) \/ CleanUnlink(c) \/ CleanDone(c)

\* The process dies and is started again: calls in flight are gone, files stay.
Crash ==
    /\ io' = [c \in Caller |-> Idle]
    /\ UNCHANGED files

\* Time passes, but no save in flight grows older than MaxLatency.
MayTick ==
    \A c \in Caller :
        io[c].pc \in {"open", "write"} => now - io[c].path.stamp < MaxLatency

Tick ==
    /\ now < MaxTime
    /\ MayTick
    /\ now' = now + 1
    /\ UNCHANGED l2vars

Call1(c) ==
    \/ \E kind \in Kind, nis \in Nis, doc \in Doc : SaveName(c, kind, nis, doc)
    \/ SaveStep(c)
    \/ \E kind \in Kind \ {"extracted"}, nis \in Nis : GetGlob(c, kind, nis)
    \/ GetStep(c)
    \/ \E nis \in Nis : CleanGlob(c, nis)
    \/ CleanStep(c)

Next ==
    \/ \E c \in Caller : Call1(c) /\ UNCHANGED now
    \/ Crash /\ UNCHANGED now
    \/ Tick

Spec == Init /\ [][Next]_vars

-----------------------------------------------------------------------------
\* Whatever calls, failures and crashes do, a file disappears only when it is
\* older than the TTL at that very moment: the Stat that judged it is an
\* earlier step, and a save could have refreshed the path in between.
RemovesOnlyExpired ==
    [][\A p \in Path : Exists(p) /\ files'[p] = None => Expired(p)]_vars

\* Once the second in its name is MaxLatency old, a file is final: no save of
\* another time writes into it, and it stays until it has expired.
SettledIsFinal ==
    [][\A p \in Path :
          Exists(p) /\ now - p.stamp > MaxLatency =>
             \/ files'[p] = files[p]
             \/ files'[p] = None /\ Expired(p)]_vars

\* No cleaning and no Get takes away the file that a save has open: what is
\* then written would be lost with nobody told.
OpenFileKept ==
    \A c \in Caller : io[c].pc = "write" => Exists(io[c].path)

\* The documentation's rule that a file younger than the TTL is returned from
\* the cache: a Get ends without data only when no listed file is live.
LiveFileServed ==
    [][\A c \in Caller :
          GetMiss(c) => \A p \in io[c].seen : Exists(p) => Expired(p)]_vars

=============================================================================
