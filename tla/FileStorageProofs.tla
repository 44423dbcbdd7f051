------------------------- MODULE FileStorageProofs -------------------------
(***************************************************************************)
(* For every set of goroutines, students and documents: without any lock,  *)
(* the file cache removes a file only when it is expired, never takes away *)
(* a file that is being written, and leaves a settled file alone.  What    *)
(* carries the argument is the name: a save writes only for MaxLatency     *)
(* after the second in the name, a file is condemned only more than        *)
(* FileTTL after it, and MaxLatency <= FileTTL.                            *)
(***************************************************************************)
EXTENDS FileStorage, TLAPS

-----------------------------------------------------------------------------
(* The inductive invariant. *)

\* A file was last written not before the time in its name.
Stamped ==
    \A p \in Path : Exists(p) =>
        /\ p.stamp <= files[p].mtime
        /\ files[p].mtime <= now

\* The name is too old for a save to be under way, and the file, if it is
\* still there, is expired.
Condemned(p) ==
    /\ now - p.stamp > FileTTL
    /\ Exists(p) => Expired(p)

\* What a caller inside a call may rely on.
CallOK(c) ==
    /\ io[c].pc \in {"open", "write"} =>
          io[c].path.stamp <= now /\ now - io[c].path.stamp <= MaxLatency
    /\ io[c].pc = "write" => Exists(io[c].path)
    /\ io[c].pc \in {"remove", "unlink"} => Condemned(io[c].path)
    /\ io[c].pc \in {"clean", "unlink"} => io[c].at <= now

IInv ==
    /\ TypeOK
    /\ Stamped
    /\ \A c \in Caller : CallOK(c)

\* The place of a call determines its record.
LEMMA CallForm ==
    ASSUME NEW k \in Call
    PROVE  /\ k.pc \in {"open", "write"} => k \in Saving
           /\ k.pc = "sort" => k \in Sorting
           /\ k.pc \in {"stat", "remove", "read"} => k \in Reading
           /\ k.pc = "clean" => k \in Cleaning
           /\ k.pc = "unlink" => k \in Unlinking
BY DEF Call, Idle, Saving, Sorting, Reading, Cleaning, Unlinking

\* The three things a step can do to a file.
Kept(p) == files'[p] = files[p]

Saved(p) ==
    /\ files'[p] \in File /\ files'[p].mtime = now
    /\ p.stamp <= now /\ now - p.stamp <= MaxLatency

Dropped(p) ==
    /\ files'[p] = None
    /\ now - p.stamp > FileTTL

-----------------------------------------------------------------------------
\* A step of one caller that does to files only such things disturbs no other
\* caller: what one saves, no other has condemned.
LEMMA StepIInv ==
    ASSUME IInv, now' = now,
           NEW c \in Caller, NEW k \in Call,
           io' = [io EXCEPT ![c] = k],
           CallOK(c)',
           files' \in [Path -> File \cup {None}],
           \A p \in Path : Kept(p) \/ Saved(p) \/ Dropped(p)
    PROVE  IInv'
<1> USE FileAssumption
<1>1. now \in Nat
  BY DEF IInv, TypeOK
<1>2. TypeOK'
  BY DEF IInv, TypeOK
<1>3. Stamped'
  <2> SUFFICES ASSUME NEW p \in Path, files'[p] # None
               PROVE  p.stamp <= files'[p].mtime /\ files'[p].mtime <= now
    BY DEF Stamped, Exists
  <2>1. CASE Kept(p)
    BY <2>1 DEF Kept, IInv, Stamped, Exists
  <2>2. CASE Saved(p)
    BY <1>1, <2>2 DEF Saved
  <2>3. CASE Dropped(p)
    BY <2>3 DEF Dropped
  <2> QED BY <2>1, <2>2, <2>3
<1>4. ASSUME NEW d \in Caller, d # c
      PROVE  CallOK(d)'
  <2>1. io'[d] = io[d] /\ io[d] \in Call /\ CallOK(d)
    BY <1>4 DEF IInv, TypeOK
  <2>2. ASSUME io[d].pc = "write"
        PROVE  files'[io[d].path] # None
    <3>1. io[d].path \in Path
      BY <2>1, <2>2, CallForm DEF Saving
    <3>2. io[d].path.stamp \in Nat
      BY <3>1 DEF Path
    <3>3. files[io[d].path] # None /\ now - io[d].path.stamp <= MaxLatency
      BY <2>1, <2>2 DEF CallOK, Exists
    <3>4. ~Dropped(io[d].path)
      BY <1>1, <3>2, <3>3 DEF Dropped
    <3> QED BY <3>1, <3>3, <3>4 DEF Kept, Saved
  <2>3. ASSUME io[d].pc \in {"remove", "unlink"}
        PROVE  /\ now - io[d].path.stamp > FileTTL
               /\ files'[io[d].path] # None =>
                     now - files'[io[d].path].mtime > FileTTL
    <3>1. io[d].path \in Path
      BY <2>1, <2>3, CallForm DEF Reading, Unlinking
    <3>2. io[d].path.stamp \in Nat
      BY <3>1 DEF Path
    <3>3. /\ now - io[d].path.stamp > FileTTL
          /\ files[io[d].path] # None => now - files[io[d].path].mtime > FileTTL
      BY <2>1, <2>3 DEF CallOK, Condemned, Exists, Expired, OlderThanTTL
    <3>4. ~Saved(io[d].path)
      BY <1>1, <3>2, <3>3 DEF Saved
    <3> QED BY <3>1, <3>3, <3>4 DEF Kept, Dropped
  <2> QED BY <2>1, <2>2, <2>3
          DEF CallOK, Condemned, Exists, Expired, OlderThanTTL
<1> QED BY <1>2, <1>3, <1>4 DEF IInv

\* The same for a step that leaves the files alone.
LEMMA QuietIInv ==
    ASSUME IInv, now' = now, files' = files,
           NEW c \in Caller, NEW k \in Call,
           io' = [io EXCEPT ![c] = k],
           CallOK(c)'
    PROVE  IInv'
<1>1. files' \in [Path -> File \cup {None}]
  BY DEF IInv, TypeOK
<1>2. \A p \in Path : Kept(p)
  BY DEF Kept
<1> QED BY <1>1, <1>2, StepIInv

-----------------------------------------------------------------------------
\* A call that ends leaves nothing to rely on.
LEMMA EndOfCall ==
    ASSUME IInv, now' = now, NEW c \in Caller, io' = [io EXCEPT ![c] = Idle]
    PROVE  Idle \in Call /\ CallOK(c)'
<1>1. io'[c] = Idle
  BY DEF IInv, TypeOK
<1> QED BY <1>1 DEF Call, Idle, CallOK

LEMMA SaveNameIInv ==
    ASSUME IInv, now' = now, NEW c \in Caller,
           NEW kind \in Kind, NEW nis \in Nis, NEW doc \in Doc,
           SaveName(c, kind, nis, doc)
    PROVE  IInv'
<1> USE FileAssumption
<1> DEFINE k == [pc |-> "open", data |-> doc,
                 path |-> [kind |-> kind, nis |-> nis, stamp |-> now]]
<1>1. io' = [io EXCEPT ![c] = k] /\ files' = files
  BY DEF SaveName
<1>2. k \in Call
  BY DEF Call, Saving, Path, IInv, TypeOK
<1>3. io'[c] = k
  BY <1>1 DEF IInv, TypeOK
<1>4. now \in Nat
  BY DEF IInv, TypeOK
<1>5. CallOK(c)'
  BY <1>3, <1>4 DEF CallOK
<1> HIDE DEF k
<1> QED BY <1>1, <1>2, <1>5, QuietIInv

LEMMA SaveOpenIInv ==
    ASSUME IInv, now' = now, NEW c \in Caller, SaveOpen(c)
    PROVE  IInv'
<1> USE FileAssumption
<1> DEFINE path == io[c].path
           k == [io[c] EXCEPT !.pc = "write"]
           new == [mtime |-> now, data |-> Empty]
<1>1. /\ io[c].pc = "open"
      /\ files' = [files EXCEPT ![path] = new]
      /\ io' = [io EXCEPT ![c] = k]
  BY DEF SaveOpen
<1>2. io[c] \in Saving
  BY <1>1, CallForm DEF IInv, TypeOK
<1>3. path \in Path /\ k \in Saving /\ k.pc = "write" /\ k.path = path
  BY <1>2 DEF Saving
<1>4. path.stamp <= now /\ now - path.stamp <= MaxLatency
  BY <1>1 DEF IInv, CallOK
<1>5. new \in File /\ new # None
  BY DEF File, IInv, TypeOK
<1>6. files' \in [Path -> File \cup {None}] /\ files'[path] = new
  BY <1>1, <1>3, <1>5 DEF IInv, TypeOK
<1>7. \A p \in Path : Kept(p) \/ Saved(p)
  BY <1>1, <1>3, <1>4, <1>5, <1>6 DEF Kept, Saved, IInv, TypeOK
<1>8. io'[c] = k
  BY <1>1 DEF IInv, TypeOK
<1>9. CallOK(c)'
  BY <1>3, <1>4, <1>5, <1>6, <1>8 DEF CallOK, Exists
<1>10. k \in Call
  BY <1>3 DEF Call
<1> HIDE DEF k
<1> QED BY <1>1, <1>6, <1>7, <1>9, <1>10, StepIInv

\* The second half of a save, whole or failed, whatever bytes it leaves.
LEMMA SaveEndIInv ==
    ASSUME IInv, now' = now, NEW c \in Caller, io[c].pc = "write",
           NEW d \in Doc \cup {Empty, Torn},
           files' = [files EXCEPT ![io[c].path] = [mtime |-> now, data |-> d]],
           io' = [io EXCEPT ![c] = Idle]
    PROVE  IInv'
<1> USE FileAssumption
<1> DEFINE path == io[c].path
           new == [mtime |-> now, data |-> d]
<1>1. path \in Path
  BY CallForm DEF IInv, TypeOK, Saving
<1>2. path.stamp <= now /\ now - path.stamp <= MaxLatency
  BY DEF IInv, CallOK
<1>3. new \in File
  BY DEF File, IInv, TypeOK
<1>4. files' \in [Path -> File \cup {None}] /\ files'[path] = new
  BY <1>1, <1>3 DEF IInv, TypeOK
<1>5. \A p \in Path : Kept(p) \/ Saved(p)
  BY <1>1, <1>2, <1>3, <1>4 DEF Kept, Saved, IInv, TypeOK
<1> QED BY <1>4, <1>5, EndOfCall, StepIInv

LEMMA SaveWriteIInv ==
    ASSUME IInv, now' = now, NEW c \in Caller, SaveWrite(c)
    PROVE  IInv'
<1>1. io[c].pc = "write" /\ io' = [io EXCEPT ![c] = Idle]
  BY DEF SaveWrite
<1>2. Exists(io[c].path)
  BY <1>1 DEF IInv, CallOK
<1>3. io[c] \in Saving
  BY <1>1, CallForm DEF IInv, TypeOK
<1>4. PICK d \in Written(files[io[c].path].data, io[c].data) :
         files' = [files EXCEPT ![io[c].path] = [mtime |-> now, data |-> d]]
  BY <1>2 DEF SaveWrite
<1>5. d \in Doc \cup {Empty, Torn}
  BY <1>3, <1>4 DEF Written, Saving
<1> QED BY <1>1, <1>4, <1>5, SaveEndIInv

LEMMA SaveErrorIInv ==
    ASSUME IInv, now' = now, NEW c \in Caller, SaveError(c)
    PROVE  IInv'
<1>1. CASE Fail(c)
  BY <1>1, EndOfCall, QuietIInv DEF Fail
<1>2. CASE /\ io[c].pc = "write"
           /\ files' = [files EXCEPT ![io[c].path] = [mtime |-> now, data |-> Torn]]
           /\ io' = [io EXCEPT ![c] = Idle]
  BY <1>2, SaveEndIInv
<1> QED BY <1>1, <1>2 DEF SaveError

-----------------------------------------------------------------------------
LEMMA GetGlobIInv ==
    ASSUME IInv, now' = now, NEW c \in Caller, NEW kind, NEW nis,
           GetGlob(c, kind, nis)
    PROVE  IInv'
<1> DEFINE k == [pc |-> "sort", seen |-> Glob(kind, nis)]
<1>1. files' = files
  BY DEF GetGlob
<1>2. CASE Glob(kind, nis) = {}
  <2>1. io' = [io EXCEPT ![c] = io[c]] /\ io[c] \in Call
    BY <1>2 DEF GetGlob, IInv, TypeOK
  <2>2. CallOK(c)'
    BY <1>1, <1>2 DEF GetGlob, IInv, CallOK, Condemned, Exists, Expired, OlderThanTTL
  <2> QED BY <1>1, <2>1, <2>2, QuietIInv
<1>3. CASE Glob(kind, nis) # {}
  <2>1. io' = [io EXCEPT ![c] = k]
    BY <1>3 DEF GetGlob
  <2>2. k \in Call
    BY <1>3 DEF Call, Sorting, Listed, Glob
  <2>3. io'[c] = k
    BY <2>1 DEF IInv, TypeOK
  <2>4. CallOK(c)'
    BY <2>3 DEF CallOK
  <2> HIDE DEF k
  <2> QED BY <1>1, <2>1, <2>2, <2>4, QuietIInv
<1> QED BY <1>2, <1>3

LEMMA GetSortIInv ==
    ASSUME IInv, now' = now, NEW c \in Caller, GetSort(c)
    PROVE  IInv'
<1>1. io[c].pc = "sort" /\ files' = files
  BY DEF GetSort
<1>2. io[c].seen \in Listed
  BY <1>1, CallForm DEF IInv, TypeOK, Sorting
<1>3. PICK p \in First(io[c].seen) :
         io' = [io EXCEPT ![c] = [pc |-> "stat", path |-> p, seen |-> io[c].seen]]
  BY DEF GetSort
<1> DEFINE k == [pc |-> "stat", path |-> p, seen |-> io[c].seen]
<1>4. p \in Path
  BY <1>2, <1>3 DEF First, Listed
<1>5. k \in Call
  BY <1>2, <1>4 DEF Call, Reading
<1>6. io'[c] = k
  BY <1>3 DEF IInv, TypeOK
<1>7. CallOK(c)'
  BY <1>6 DEF CallOK
<1> HIDE DEF k
<1> QED BY <1>1, <1>3, <1>5, <1>7, QuietIInv DEF k

\* Stat condemns a file only when its very name is too old.
LEMMA OldFileOldName ==
    ASSUME IInv, NEW p \in Path, Exists(p), NEW t \in Nat, t <= now,
           OlderThanTTL(p, t)
    PROVE  Condemned(p)
<1>1. files[p].mtime \in Nat /\ p.stamp \in Nat /\ now \in Nat
  <2>1. files[p] \in File /\ now \in 0 .. MaxTime
    BY DEF IInv, TypeOK, Exists
  <2> QED BY <2>1, FileAssumption DEF File, Path
<1>2. p.stamp <= files[p].mtime
  BY DEF IInv, Stamped
<1> QED BY <1>1, <1>2, FileAssumption DEF Condemned, OlderThanTTL, Expired

LEMMA GetStatIInv ==
    ASSUME IInv, now' = now, NEW c \in Caller, GetStat(c)
    PROVE  IInv'
<1> DEFINE path == io[c].path
           pc == IF Expired(path) THEN "remove" ELSE "read"
           k == [io[c] EXCEPT !.pc = pc]
<1>1. /\ io[c].pc = "stat" /\ Exists(path)
      /\ io' = [io EXCEPT ![c] = k]
      /\ files' = files
  BY DEF GetStat
<1>2. io[c] \in Reading
  BY <1>1, CallForm DEF IInv, TypeOK
<1>3. path \in Path /\ k \in Reading /\ k.pc = pc /\ k.path = path
  BY <1>2 DEF Reading
<1>4. io'[c] = k
  BY <1>1 DEF IInv, TypeOK
<1>5. Expired(path) => Condemned(path)
  <2>1. now \in Nat
    BY FileAssumption DEF IInv, TypeOK
  <2> QED BY <1>1, <1>3, <2>1, OldFileOldName DEF Expired
<1>6. CallOK(c)'
  <2>1. Condemned(path) => Condemned(k.path)'
    BY <1>1, <1>3 DEF Condemned, Exists, Expired, OlderThanTTL
  <2> QED BY <1>3, <1>4, <1>5, <2>1 DEF CallOK
<1>7. k \in Call
  BY <1>3 DEF Call
<1> HIDE DEF k
<1> QED BY <1>1, <1>6, <1>7, QuietIInv

\* Removing by name what was judged before.
LEMMA UnlinkEffect ==
    ASSUME IInv, NEW c \in Caller, io[c].pc \in {"remove", "unlink"},
           \/ files' = [files EXCEPT ![io[c].path] = None]
           \/ UNCHANGED files
    PROVE  /\ files' \in [Path -> File \cup {None}]
           /\ \A p \in Path : Kept(p) \/ Dropped(p)
           /\ \A p \in Path : Exists(p) /\ files'[p] = None => Expired(p)
<1>1. io[c].path \in Path
  BY CallForm DEF IInv, TypeOK, Reading, Unlinking
<1>2. now - io[c].path.stamp > FileTTL
  BY DEF IInv, CallOK, Condemned
<1>3. Exists(io[c].path) => Expired(io[c].path)
  BY DEF IInv, CallOK, Condemned
<1>4. \A p \in Path : files'[p] = files[p] \/ (p = io[c].path /\ files'[p] = None)
  BY <1>1 DEF IInv, TypeOK
<1>5. files' \in [Path -> File \cup {None}]
  BY <1>1 DEF IInv, TypeOK
<1> QED BY <1>2, <1>3, <1>4, <1>5 DEF Kept, Dropped, Exists

LEMMA GetRemoveIInv ==
    ASSUME IInv, now' = now, NEW c \in Caller, GetRemove(c)
    PROVE  IInv'
<1>1. /\ io[c].pc \in {"remove", "unlink"}
      /\ \/ files' = [files EXCEPT ![io[c].path] = None]
         \/ UNCHANGED files
      /\ io' = [io EXCEPT ![c] = Idle]
  BY DEF GetRemove
<1>2. Idle \in Call /\ CallOK(c)'
  BY <1>1, EndOfCall
<1> QED BY <1>1, <1>2, UnlinkEffect, StepIInv

\* Reads and errors end the call and touch nothing.
LEMMA EndIInv ==
    ASSUME IInv, now' = now, NEW c \in Caller,
           GetStatError(c) \/ GetRead(c) \/ GetReadError(c) \/ CleanDone(c)
    PROVE  IInv'
<1>1. io' = [io EXCEPT ![c] = Idle] /\ files' = files
  BY DEF GetStatError, GetRead, GetReadError, CleanDone, Fail
<1> QED BY <1>1, EndOfCall, QuietIInv

-----------------------------------------------------------------------------
LEMMA CleanGlobIInv ==
    ASSUME IInv, now' = now, NEW c \in Caller, NEW nis, CleanGlob(c, nis)
    PROVE  IInv'
<1> DEFINE k == [pc |-> "clean", at |-> now,
                 seen |-> UNION {Glob(kind, nis) : kind \in Kind}]
<1>1. io' = [io EXCEPT ![c] = k] /\ files' = files
  BY DEF CleanGlob
<1>2. UNION {Glob(kind, nis) : kind \in Kind} \subseteq Path
  BY DEF Glob
<1>3. k \in Call
  BY <1>2 DEF Call, Cleaning, IInv, TypeOK
<1>4. io'[c] = k
  BY <1>1 DEF IInv, TypeOK
<1>5. now \in Nat
  BY FileAssumption DEF IInv, TypeOK
<1>6. CallOK(c)'
  BY <1>4, <1>5 DEF CallOK
<1> HIDE DEF k
<1> QED BY <1>1, <1>3, <1>6, QuietIInv

LEMMA CleanStatIInv ==
    ASSUME IInv, now' = now, NEW c \in Caller, CleanStat(c)
    PROVE  IInv'
<1>1. io[c].pc = "clean" /\ files' = files
  BY DEF CleanStat
<1>2. io[c] \in Cleaning
  BY <1>1, CallForm DEF IInv, TypeOK
<1>3. io[c].seen \subseteq Path /\ io[c].at \in 0 .. MaxTime
  BY <1>2 DEF Cleaning
<1>4. io[c].at <= now
  BY <1>1 DEF IInv, CallOK
<1>5. PICK p \in io[c].seen :
         \/ /\ Exists(p) /\ OlderThanTTL(p, io[c].at)
            /\ io' = [io EXCEPT ![c] =
                        [pc |-> "unlink", path |-> p, seen |-> io[c].seen \ {p},
                         at |-> io[c].at]]
         \/ io' = [io EXCEPT ![c].seen = io[c].seen \ {p}]
  BY DEF CleanStat
<1>6. p \in Path
  BY <1>3, <1>5
<1>7. CASE /\ Exists(p) /\ OlderThanTTL(p, io[c].at)
           /\ io' = [io EXCEPT ![c] =
                       [pc |-> "unlink", path |-> p, seen |-> io[c].seen \ {p},
                        at |-> io[c].at]]
  <2> DEFINE k == [pc |-> "unlink", path |-> p, seen |-> io[c].seen \ {p},
                   at |-> io[c].at]
  <2>1. k \in Call
    BY <1>3, <1>6 DEF Call, Unlinking
  <2>2. Condemned(p)
    BY <1>3, <1>4, <1>6, <1>7, OldFileOldName, FileAssumption
  <2>3. io'[c] = k
    BY <1>7 DEF IInv, TypeOK
  <2>4. CallOK(c)'
    BY <1>1, <1>4, <2>2, <2>3
       DEF CallOK, Condemned, Exists, Expired, OlderThanTTL
  <2>5. io' = [io EXCEPT ![c] = k]
    BY <1>7
  <2> HIDE DEF k
  <2> QED BY <1>1, <2>1, <2>4, <2>5, QuietIInv
<1>8. CASE io' = [io EXCEPT ![c].seen = io[c].seen \ {p}]
  <2> DEFINE k == [io[c] EXCEPT !.seen = io[c].seen \ {p}]
  <2>1. k \in Cleaning /\ k.pc = "clean" /\ k.at = io[c].at
    BY <1>1, <1>2, <1>3 DEF Cleaning
  <2>2. io' = [io EXCEPT ![c] = k] /\ io'[c] = k
    BY <1>8 DEF IInv, TypeOK
  <2>3. k \in Call
    BY <2>1 DEF Call
  <2> HIDE DEF k
  <2>4. CallOK(c)'
    BY <1>4, <2>1, <2>2 DEF CallOK
  <2> QED BY <1>1, <2>2, <2>3, <2>4, QuietIInv
<1> QED BY <1>5, <1>7, <1>8

LEMMA CleanUnlinkIInv ==
    ASSUME IInv, now' = now, NEW c \in Caller, CleanUnlink(c)
    PROVE  IInv'
<1> DEFINE k == [pc |-> "clean", seen |-> io[c].seen, at |-> io[c].at]
<1>1. /\ io[c].pc = "unlink"
      /\ \/ files' = [files EXCEPT ![io[c].path] = None]
         \/ UNCHANGED files
      /\ io' = [io EXCEPT ![c] = k]
  BY DEF CleanUnlink
<1>2. io[c] \in Unlinking
  BY <1>1, CallForm DEF IInv, TypeOK
<1>3. k \in Call
  BY <1>2 DEF Call, Unlinking, Cleaning
<1>4. io'[c] = k
  BY <1>1 DEF IInv, TypeOK
<1>5. CallOK(c)'
  BY <1>1, <1>4 DEF IInv, CallOK
<1> HIDE DEF k
<1> QED BY <1>1, <1>3, <1>5, UnlinkEffect, StepIInv

-----------------------------------------------------------------------------
\* A crash ends every call.
LEMMA CrashIInv ==
    ASSUME IInv, now' = now, Crash
    PROVE  IInv'
<1>1. files' = files /\ io' = [c \in Caller |-> Idle]
  BY DEF Crash
<1>2. TypeOK'
  BY <1>1 DEF IInv, TypeOK, Call
<1>3. Stamped'
  BY <1>1 DEF IInv, Stamped, Exists
<1>4. \A c \in Caller : CallOK(c)'
  BY <1>1 DEF CallOK, Idle
<1> QED BY <1>2, <1>3, <1>4 DEF IInv

\* Time passes no save by, and what is condemned only grows older.
LEMMA TickIInv ==
    ASSUME IInv, Tick
    PROVE  IInv'
<1> USE FileAssumption
<1>1. now < MaxTime /\ MayTick /\ now' = now + 1 /\ files' = files /\ io' = io
  BY DEF Tick, l2vars
<1>2. now \in Nat
  BY DEF IInv, TypeOK
<1>3. TypeOK'
  BY <1>1, <1>2 DEF IInv, TypeOK
<1>4. Stamped'
  <2>1. \A p \in Path : Exists(p) => files[p].mtime \in Nat
    BY DEF IInv, TypeOK, File, Exists
  <2> QED BY <1>1, <1>2, <2>1 DEF IInv, Stamped, Exists
<1>5. ASSUME NEW c \in Caller
      PROVE  CallOK(c)'
  <2>1. CallOK(c) /\ io[c] \in Call
    BY DEF IInv, TypeOK
  <2>2. CASE io[c].pc \in {"open", "write"}
    <3>1. now - io[c].path.stamp < MaxLatency
      BY <1>1, <2>2 DEF MayTick
    <3>2. io[c].path.stamp \in Nat
      BY <2>1, <2>2, CallForm DEF Saving, Path
    <3> QED BY <1>1, <1>2, <2>1, <2>2, <3>1, <3>2 DEF CallOK, Exists
  <2>3. CASE io[c].pc \in {"remove", "unlink"}
    <3>1. io[c].path \in Path /\ io[c].path.stamp \in Nat
      BY <2>1, <2>3, CallForm DEF Reading, Unlinking, Path
    <3>2. files[io[c].path] # None => files[io[c].path].mtime \in Nat
      BY <3>1 DEF IInv, TypeOK, File
    <3>3. io[c].pc = "unlink" => io[c].at \in Nat
      BY <2>1, CallForm DEF Unlinking
    <3> QED BY <1>1, <1>2, <2>1, <2>3, <3>1, <3>2, <3>3
            DEF CallOK, Condemned, Exists, Expired, OlderThanTTL
  <2>4. CASE io[c].pc = "clean"
    <3>1. io[c].at \in Nat
      BY <2>1, <2>4, CallForm DEF Cleaning
    <3> QED BY <1>1, <1>2, <2>1, <2>4, <3>1 DEF CallOK
  <2>5. CASE io[c].pc \notin {"open", "write", "remove", "unlink", "clean"}
    BY <1>1, <2>5 DEF CallOK
  <2> QED BY <2>2, <2>3, <2>4, <2>5
<1> QED BY <1>3, <1>4, <1>5 DEF IInv

\* The directory is empty and nobody is inside a call.
LEMMA InitIInv == Init => IInv
<1> SUFFICES ASSUME Init
             PROVE  IInv
  OBVIOUS
<1>1. TypeOK
  BY FileAssumption DEF Init, TypeOK, Call
<1>2. Stamped
  BY DEF Init, Stamped, Exists
<1>3. \A c \in Caller : CallOK(c)
  BY DEF Init, CallOK, Idle
<1> QED BY <1>1, <1>2, <1>3 DEF IInv

\* Every step keeps the invariant.
LEMMA NextIInv == IInv /\ [Next]_vars => IInv'
<1> SUFFICES ASSUME IInv, [Next]_vars
             PROVE  IInv'
  OBVIOUS
<1>1. ASSUME NEW c \in Caller, Call1(c), now' = now
      PROVE  IInv'
  <2>1. CASE \E kind \in Kind, nis \in Nis, doc \in Doc : SaveName(c, kind, nis, doc)
    BY <1>1, <2>1, SaveNameIInv
  <2>2. CASE SaveStep(c)
    BY <1>1, <2>2, SaveOpenIInv, SaveWriteIInv, SaveErrorIInv DEF SaveStep
  <2>3. CASE \E kind \in Kind \ {"extracted"}, nis \in Nis : GetGlob(c, kind, nis)
    BY <1>1, <2>3, GetGlobIInv
  <2>4. CASE GetStep(c)
    BY <1>1, <2>4, GetSortIInv, GetStatIInv, GetRemoveIInv, EndIInv
       DEF GetStep, GetMiss
  <2>5. CASE \E nis \in Nis : CleanGlob(c, nis)
    BY <1>1, <2>5, CleanGlobIInv
  <2>6. CASE CleanStep(c)
    BY <1>1, <2>6, CleanStatIInv, CleanUnlinkIInv, EndIInv DEF CleanStep
  <2> QED BY <1>1, <2>1, <2>2, <2>3, <2>4, <2>5, <2>6 DEF Call1
<1>2. CASE Crash /\ UNCHANGED now
  BY <1>2, CrashIInv
<1>3. CASE Tick
  BY <1>3, TickIInv
<1>4. CASE UNCHANGED vars
  BY <1>4 DEF vars, l2vars, IInv, TypeOK, Stamped, CallOK, Condemned, Exists,
              Expired, OlderThanTTL
<1> QED BY <1>1, <1>2, <1>3, <1>4 DEF Next

\* The invariant holds in every behaviour of the file cache.
THEOREM Invariance == Spec => []IInv
BY InitIInv, NextIInv, PTL DEF Spec

-----------------------------------------------------------------------------
\* Files and calls in flight are well typed: in particular a Get past its
\* Glob always has a first file.
THEOREM TypeCorrect == Spec => []TypeOK
<1>1. IInv => TypeOK
  BY DEF IInv
<1> QED BY <1>1, Invariance, PTL

\* No Get and no cleaning takes away the file that a save has open.
THEOREM OpenFiles == Spec => []OpenFileKept
<1>1. IInv => OpenFileKept
  BY DEF IInv, CallOK, OpenFileKept
<1> QED BY <1>1, Invariance, PTL

\* Only an unlink makes a file disappear, and only a save changes one.
LEMMA FileChange ==
    ASSUME IInv, [Next]_vars, NEW p \in Path, Exists(p), files'[p] # files[p]
    PROVE  \/ files'[p] = None /\ Expired(p)
           \/ files'[p] # None /\ now - p.stamp <= MaxLatency
<1> USE FileAssumption
<1>1. ASSUME NEW c \in Caller, io[c].pc \in {"remove", "unlink"},
             \/ files' = [files EXCEPT ![io[c].path] = None]
             \/ UNCHANGED files
      PROVE  files'[p] = None /\ Expired(p)
  <2>1. Kept(p) \/ Dropped(p)
    BY <1>1, UnlinkEffect
  <2>2. files'[p] = None
    BY <2>1 DEF Kept, Dropped
  <2> QED BY <1>1, <2>2, UnlinkEffect
<1>2. ASSUME NEW c \in Caller, io[c].pc \in {"open", "write"}, NEW d,
             files' = [files EXCEPT ![io[c].path] = [mtime |-> now, data |-> d]],
             d \in Doc \cup {Empty, Torn}
      PROVE  files'[p] # None /\ now - p.stamp <= MaxLatency
  <2>1. p = io[c].path
    BY <1>2 DEF IInv, TypeOK
  <2>2. files'[p] = [mtime |-> now, data |-> d]
    BY <1>2, <2>1 DEF IInv, TypeOK
  <2>3. files'[p] \in File
    BY <1>2, <2>2 DEF File, IInv, TypeOK
  <2>4. now - p.stamp <= MaxLatency
    BY <1>2, <2>1 DEF IInv, CallOK
  <2> QED BY <2>3, <2>4
<1>3. ASSUME NEW c \in Caller, SaveStep(c)
      PROVE  files'[p] # None /\ now - p.stamp <= MaxLatency
  <2>1. CASE SaveOpen(c)
    BY <1>2, <2>1 DEF SaveOpen
  <2>2. CASE SaveWrite(c)
    <3>1. io[c].pc = "write" /\ io[c] \in Saving /\ Exists(io[c].path)
      BY <2>2, CallForm DEF SaveWrite, IInv, TypeOK, CallOK
    <3>2. PICK d \in Written(files[io[c].path].data, io[c].data) :
             files' = [files EXCEPT ![io[c].path] = [mtime |-> now, data |-> d]]
      BY <2>2, <3>1 DEF SaveWrite
    <3>3. d \in Doc \cup {Empty, Torn}
      BY <3>1, <3>2 DEF Written, Saving
    <3> QED BY <1>2, <3>1, <3>2, <3>3
  <2>3. CASE SaveError(c)
    BY <1>2, <2>3 DEF SaveError, Fail
  <2> QED BY <1>3, <2>1, <2>2, <2>3 DEF SaveStep
<1>4. ASSUME NEW c \in Caller, GetRemove(c) \/ CleanUnlink(c)
      PROVE  files'[p] = None /\ Expired(p)
  BY <1>1, <1>4 DEF GetRemove, CleanUnlink
<1>5. ASSUME NEW c \in Caller, Call1(c), ~SaveStep(c),
             ~GetRemove(c), ~CleanUnlink(c)
      PROVE  FALSE
  <2>1. files' = files
    BY <1>5 DEF Call1, SaveName, GetGlob, CleanGlob,
                GetStep, GetSort, GetStat, GetRead, GetMiss, GetStatError,
                GetReadError, CleanStep, CleanStat, CleanDone, Fail
  <2> QED BY <2>1
<1>6. CASE Crash \/ Tick \/ UNCHANGED vars
  BY <1>6 DEF Crash, Tick, vars, l2vars
<1> QED BY <1>3, <1>4, <1>5, <1>6 DEF Next

\* Whatever calls, failures and crashes do, a file disappears only when it is
\* expired at that very moment.
THEOREM Removals == Spec => RemovesOnlyExpired
<1>1. IInv /\ [Next]_vars =>
         \A p \in Path : Exists(p) /\ files'[p] = None => Expired(p)
  BY FileChange DEF Exists
<1> QED BY <1>1, Invariance, PTL DEF Spec, RemovesOnlyExpired

\* A settled file keeps its content and its age until it has expired.
THEOREM Settled == Spec => SettledIsFinal
<1>1. IInv /\ [Next]_vars =>
         \A p \in Path : Exists(p) /\ now - p.stamp > MaxLatency =>
            \/ files'[p] = files[p]
            \/ files'[p] = None /\ Expired(p)
  <2> SUFFICES ASSUME IInv, [Next]_vars, NEW p \in Path, Exists(p),
                      now - p.stamp > MaxLatency, files'[p] # files[p]
               PROVE  files'[p] = None /\ Expired(p)
    OBVIOUS
  <2>1. now \in Nat /\ p.stamp \in Nat /\ MaxLatency \in Nat
    BY FileAssumption DEF IInv, TypeOK, Path
  <2> QED BY <2>1, FileChange
<1> QED BY <1>1, Invariance, PTL DEF Spec, SettledIsFinal
=============================================================================
