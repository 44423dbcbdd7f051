-------------------------- MODULE KRSParserProofs --------------------------
(***************************************************************************)
(* For every plan, every damage of its text and every set of credits and   *)
(* stray lines: the walk stays inside of the text, reads no line into two  *)
(* courses, and adds up the credits of those it returns.  At the end, what *)
(* the printed page looks like.                                            *)
(***************************************************************************)
EXTENDS KRSParser, SequenceTheorems, FiniteSetTheorems, WellFoundedInduction, TLAPS

-----------------------------------------------------------------------------
(* The text is a sequence of lines. *)

\* Min is what its name says.
LEMMA LeastIndex ==
    ASSUME NEW S \in SUBSET Nat, S # {}
    PROVE  /\ Min(S) \in S
           /\ \A i \in S : Min(S) <= i
<1> DEFINE Below == {ss \in Nat \X Nat : ss[1] < ss[2]}
<1>1. IsWellFoundedOn(Below, Nat)
  BY NatLessThanWellFounded DEF OpToRel
<1>2. PICK x \in S : \A y \in S : ~ (<<y, x>> \in Below)
  <2> HIDE DEF Below
  <2> QED BY <1>1, WFMin
<1>3. \A y \in S : x <= y
  <2> SUFFICES ASSUME NEW y \in S
               PROVE  x <= y
    OBVIOUS
  <2>1. x \in Nat /\ y \in Nat /\ ~ (y < x)
    BY <1>2
  <2> QED BY <2>1
<1> QED BY <1>3, Zenon DEF Min

\* What the text is put together from.
LEMMA Lines ==
    /\ \A n \in Nat : Text(n) \in Line /\ Number(n) \in Line
    /\ End \in Line
    /\ Credits \subseteq Line /\ Stray \subseteq Line
    /\ \A j \in 1 .. 7 : Header[j] \in Line
BY ParserAssumption DEF Text, Number, End, Line, Header

\* Every field of a course is a line.
LEMMA PrintedTyped ==
    ASSUME plan \in Seq(Course), NEW k \in 1 .. Len(plan), NEW f \in 1 .. 8
    PROVE  Printed(k)[f] \in Line
<1>1. plan[k] \in Course /\ k \in Nat
  OBVIOUS
<1>2. plan[k].credits \in Line
  BY <1>1, Lines DEF Course
<1>3. [kind |-> plan[k].name, value |-> 10 * k + 3] \in Line
  BY <1>1 DEF Course, Line
<1>4. Number(k) \in Line /\ Text(10 * k + f) \in Line
  BY <1>1, Lines
<1> QED BY <1>2, <1>3, <1>4 DEF Printed

\* So are the rows of the table.
LEMMA RowsTyped ==
    ASSUME plan \in Seq(Course)
    PROVE  Rows \in Seq(Line)
<1>1. Len(plan) \in Nat
  OBVIOUS
<1>2. ASSUME NEW q \in 1 .. 8 * Len(plan)
      PROVE  Printed(((q - 1) \div 8) + 1)[((q - 1) % 8) + 1] \in Line
  <2>1. ((q - 1) \div 8) + 1 \in 1 .. Len(plan) /\ ((q - 1) % 8) + 1 \in 1 .. 8
    BY <1>1
  <2> QED BY <2>1, PrintedTyped
<1> QED BY <1>1, <1>2 DEF Rows

\* So are the parts of the printed page.
LEMMA PartsTyped ==
    ASSUME plan \in Seq(Course)
    PROVE  /\ Top \in Seq(Line) /\ Header \in Seq(Line)
           /\ Rows \in Seq(Line) /\ Bottom \in Seq(Line)
<1>1. Top \in Seq(Line)
  <2>1. Text(1) \in Line
    BY Lines
  <2> QED BY <2>1 DEF Top
<1>2. Header \in Seq(Line)
  <2>1. Header \in [1 .. 7 -> Line]
    BY Lines DEF Header
  <2>2. PICK n \in Nat : n = 7
    OBVIOUS
  <2>3. Header \in [1 .. n -> Line]
    BY <2>1, <2>2
  <2> QED BY <2>3
<1>3. Bottom \in Seq(Line)
  <2>1. /\ End \in Line /\ Number(9) \in Line
        /\ Text(2) \in Line /\ Text(3) \in Line /\ Text(4) \in Line
    BY Lines
  <2> QED BY <2>1 DEF Bottom
<1>4. Rows \in Seq(Line)
  BY RowsTyped
<1> QED BY <1>1, <1>2, <1>3, <1>4

\* So is the page.
LEMMA PageTyped ==
    ASSUME plan \in Seq(Course)
    PROVE  Page \in Seq(Line)
<1>1. Top \o Header \in Seq(Line)
  BY PartsTyped
<1>2. (Top \o Header) \o Rows \in Seq(Line)
  BY <1>1, PartsTyped
<1> QED BY <1>2, PartsTyped DEF Page

\* So is what any one damage makes of it.
LEMMA ExtractedTyped ==
    ASSUME plan \in Seq(Course), damage \in Damages
    PROVE  Extracted \in Seq(Line)
<1>1. PICK p : p = Page
  OBVIOUS
<1>2. p \in Seq(Line) /\ Len(p) \in Nat
  BY <1>1, PageTyped
<1>3. \A i \in 1 .. Len(p) + 1, j \in 0 .. Len(p) : SubSeq(p, i, j) \in Seq(Line)
  BY <1>2
<1>4. SubSeq(p, 1, 0) \in Seq(Line)
  BY <1>3, <1>2
<1>5. CASE damage = NoDamage
  BY <1>1, <1>2, <1>5 DEF Extracted, NoDamage
<1>6. CASE damage \in [kind : {"drop"}, at : 1 .. Len(p), line : {End}]
  <2>1. /\ SubSeq(p, 1, damage.at - 1) \in Seq(Line)
        /\ SubSeq(p, damage.at + 1, Len(p)) \in Seq(Line)
    BY <1>2, <1>3, <1>6
  <2>2. RemoveAt(p, damage.at) \in Seq(Line)
    BY <2>1 DEF RemoveAt
  <2> QED BY <1>1, <1>6, <2>2 DEF Extracted
<1>7. CASE damage \in [kind : {"cut"}, at : 0 .. Len(p), line : {End}]
  BY <1>1, <1>2, <1>3, <1>7 DEF Extracted
<1>8. CASE damage \in [kind : {"insert"}, at : 1 .. Len(p) + 1, line : Stray]
  <2>1. /\ SubSeq(p, 1, damage.at - 1) \in Seq(Line)
        /\ SubSeq(p, damage.at, Len(p)) \in Seq(Line)
        /\ <<damage.line>> \in Seq(Line)
    BY <1>2, <1>3, <1>8, Lines
  <2>2. InsertAt(p, damage.at, damage.line) \in Seq(Line)
    BY <2>1 DEF InsertAt
  <2> QED BY <1>1, <1>8, <2>2 DEF Extracted
<1> QED BY <1>1, <1>5, <1>6, <1>7, <1>8 DEF Damages

-----------------------------------------------------------------------------
(* The walk. *)

\* Nothing is found before the rows are reached.
IInv ==
    /\ TypeOK
    /\ pc \in {"parse", "mahasiswa", "academic info", "header"} => found = <<>>
    /\ CoursesDisjoint

\* The parser begins before the text.
LEMMA InitIInv == Init => IInv
<1> SUFFICES ASSUME Init
             PROVE  IInv
  OBVIOUS
<1>1. plan \in Seq(Course)
  BY ParserAssumption DEF Init, BoundedSeq, SeqOf
<1>2. text \in Seq(Line)
  BY <1>1, ExtractedTyped DEF Init
<1>3. 1 \in 1 .. Len(text) + 1
  BY <1>2
<1>4. found = <<>> /\ index = 1 /\ pc = "parse" /\ total = 0
  BY DEF Init
<1>5. found \in Seq(1 .. Len(text)) /\ DOMAIN found = {}
  BY <1>4
<1> QED BY <1>2, <1>3, <1>4, <1>5 DEF IInv, TypeOK, CoursesDisjoint

\* What the types say of the walk.
LEMMA WalkTyped ==
    ASSUME TypeOK
    PROVE  /\ text \in Seq(Line) /\ Len(text) \in Nat
           /\ index \in Nat /\ index \in 1 .. Len(text) + 1
           /\ found \in Seq(1 .. Len(text)) /\ total \in Nat
           /\ Len(found) \in Nat /\ DOMAIN found = 1 .. Len(found)
           /\ \A m \in DOMAIN found : found[m] \in Nat
<1>1. /\ text \in Seq(Line) /\ index \in 1 .. Len(text) + 1
      /\ found \in Seq(1 .. Len(text)) /\ total \in Nat
  BY Zenon DEF TypeOK
<1>2. Len(text) \in Nat
  BY <1>1
<1>3. PICK n : n = Len(text)
  OBVIOUS
<1>4. n \in Nat /\ index \in 1 .. n + 1 /\ found \in Seq(1 .. n)
  BY <1>1, <1>2, <1>3
<1>5. index \in Nat /\ \A m \in DOMAIN found : found[m] \in Nat
  BY <1>4
<1>6. Len(found) \in Nat /\ DOMAIN found = 1 .. Len(found)
  BY <1>4
<1> QED BY <1>1, <1>2, <1>5, <1>6

\* Here is at or after the walk, at most one beyond the text.
LEMMA HereTyped ==
    ASSUME TypeOK
    PROVE  Here \in index .. Len(text) + 1
<1> DEFINE S == {i \in index .. Len(text) + 1 :
                   i = Len(text) + 1 \/ text[i].kind # "blank"}
<1>1. Len(text) \in Nat /\ index \in 1 .. Len(text) + 1
  BY WalkTyped
<1>2. S \in SUBSET Nat /\ Len(text) + 1 \in S
  BY <1>1
<1>3. Min(S) \in S
  <2> HIDE DEF S
  <2> QED BY <1>2, LeastIndex
<1> QED BY <1>3 DEF Here

\* A line that is not blank is where the walk looks next.
LEMMA LeastHere ==
    ASSUME index \in Nat, Len(text) \in Nat, index <= Len(text),
           text[index].kind # "blank"
    PROVE  Here = index
<1> DEFINE S == {i \in index .. Len(text) + 1 :
                   i = Len(text) + 1 \/ text[i].kind # "blank"}
<1>1. S \in SUBSET Nat /\ index \in S /\ \A i \in S : index <= i
  OBVIOUS
<1>2. Min(S) \in S /\ Min(S) <= index /\ Min(S) \in Nat
  <2> HIDE DEF S
  <2> QED BY <1>1, LeastIndex
<1>3. Min(S) = index
  <2> HIDE DEF S
  <2> QED BY <1>1, <1>2
<1> QED BY <1>3 DEF Here

\* Where the walk is not at its end, eight lines are left.
LEMMA EightLeft ==
    ASSUME TypeOK, ~AtEnd
    PROVE  /\ Here \in Nat /\ index \in Nat /\ Len(text) \in Nat
           /\ index <= Here /\ 1 <= Here /\ Here + 7 <= Len(text)
           /\ text[Here + 3].value \in Nat
<1>1. /\ Here \in Nat /\ index \in Nat /\ Len(text) \in Nat
      /\ index <= Here /\ 1 <= index /\ text \in Seq(Line)
  BY HereTyped, WalkTyped
<1>2. Here + 7 <= Len(text)
  BY DEF AtEnd, Fits
<1>3. text[Here + 3] \in Line
  BY <1>1, <1>2
<1> QED BY <1>1, <1>2, <1>3 DEF Line

\* The rows begin inside of the text, or just behind it.
LEMMA FindHeaderKeeps ==
    ASSUME IInv, FindHeader
    PROVE  IInv'
<1> DEFINE at == {i \in DOMAIN text : HeaderAt(i)}
<1>1. text \in Seq(Line) /\ Len(text) \in Nat /\ found = <<>> /\ total \in Nat
  <2>1. TypeOK /\ found = <<>>
    BY Zenon DEF IInv, FindHeader
  <2> QED BY <2>1, WalkTyped
<1>2. UNCHANGED <<text, found, total>> /\ pc' \in {"no table", "rows"}
  BY DEF FindHeader, input
<1>3. index' \in 1 .. Len(text) + 1
  <2>1. CASE at = {}
    BY <2>1 DEF FindHeader, IInv, TypeOK
  <2>2. CASE at # {}
    <3>1. at \in SUBSET Nat
      BY <1>1
    <3>2. Min(at) \in at
      <4> HIDE DEF at
      <4> QED BY <2>2, <3>1, LeastIndex
    <3>3. Min(at) \in Nat /\ Min(at) >= 1 /\ Min(at) + 6 <= Len(text)
      BY <1>1, <3>2 DEF HeaderAt
    <3>4. index' = Min(at) + 7
      BY <2>2 DEF FindHeader
    <3> HIDE DEF at
    <3> QED BY <1>1, <3>3, <3>4
  <2> QED BY <2>1, <2>2
<1>4. TypeOK'
  BY <1>1, <1>2, <1>3 DEF IInv, TypeOK, Results, Failures
<1>5. CoursesDisjoint'
  <2>1. DOMAIN found' = {}
    <3>1. found' = <<>>
      BY <1>1, <1>2
    <3> QED BY ONLY <3>1
  <2> QED BY <2>1 DEF CoursesDisjoint
<1> QED BY <1>1, <1>2, <1>4, <1>5 DEF IInv

\* Moving on by a line leaves the courses behind.
LEMMA SkipKeeps ==
    ASSUME IInv, Skip
    PROVE  IInv'
<1>1. /\ UNCHANGED <<text, found, total, pc>> /\ index' = Here + 1 /\ ~AtEnd
      /\ pc = "rows"
  BY DEF Skip, input
<1>2. /\ Here \in Nat /\ index \in Nat /\ Len(text) \in Nat
      /\ index <= Here /\ 1 <= Here /\ Here + 7 <= Len(text)
  BY <1>1, EightLeft DEF IInv
<1>3. index' \in 1 .. Len(text) + 1 /\ index <= index'
  BY <1>1, <1>2
<1>4. TypeOK'
  BY <1>1, <1>3 DEF IInv, TypeOK
<1>5. CoursesDisjoint'
  <2>1. ASSUME NEW m \in DOMAIN found
        PROVE  found[m] \in Nat /\ found[m] + 8 <= index'
    <3>1. found[m] \in Nat /\ found[m] + 8 <= index
      BY WalkTyped DEF IInv, CoursesDisjoint
    <3> QED BY <1>2, <1>3, <3>1
  <2> QED BY <1>1, <2>1 DEF IInv, CoursesDisjoint
<1> QED BY <1>1, <1>4, <1>5 DEF IInv

\* A course is taken from the lines between the walk and its next place.
LEMMA TakeKeeps ==
    ASSUME IInv, Take
    PROVE  IInv'
<1>1. PICK h : h = Here
  OBVIOUS
<1>2. /\ UNCHANGED <<text, pc>> /\ index' = h + 8 /\ ~AtEnd /\ pc = "rows"
      /\ found' = Append(found, h) /\ total' = total + text[h + 3].value
  BY <1>1 DEF Take, input
<1>3. /\ h \in Nat /\ index \in Nat /\ Len(text) \in Nat
      /\ index <= h /\ 1 <= h /\ h + 7 <= Len(text) /\ text[h + 3].value \in Nat
  BY <1>1, <1>2, EightLeft DEF IInv
<1>4. index' \in 1 .. Len(text) + 1 /\ h \in 1 .. Len(text)
  BY <1>2, <1>3
<1>5. found \in Seq(1 .. Len(text)) /\ total \in Nat
  BY DEF IInv, TypeOK
<1>6. found' \in Seq(1 .. Len(text)) /\ total' \in Nat
  BY <1>2, <1>3, <1>4, <1>5
<1>7. TypeOK'
  BY <1>2, <1>4, <1>6 DEF IInv, TypeOK
<1>8. /\ Len(found) \in Nat
      /\ DOMAIN found = 1 .. Len(found) /\ DOMAIN found' = 1 .. Len(found) + 1
      /\ found'[Len(found) + 1] = h
      /\ \A m \in 1 .. Len(found) : found'[m] = found[m]
  BY <1>2, <1>5
<1>9. ASSUME NEW m \in 1 .. Len(found)
      PROVE  /\ found[m] \in Nat /\ found[m] + 8 <= h /\ found[m] + 8 <= index'
             /\ \A l \in 1 .. m - 1 : found[l] + 8 <= found[m]
  <2>1. found[m] \in Nat /\ found[m] + 8 <= index
    BY <1>8, WalkTyped DEF IInv, CoursesDisjoint
  <2>2. \A l \in 1 .. m - 1 : found[l] + 8 <= found[m]
    BY <1>8 DEF IInv, CoursesDisjoint
  <2> QED BY <1>2, <1>3, <2>1, <2>2
<1>10. CoursesDisjoint'
  <2>1. ASSUME NEW m \in 1 .. Len(found) + 1
        PROVE  /\ found'[m] + 8 <= index'
               /\ \A l \in 1 .. m - 1 : found'[l] + 8 <= found'[m]
    <3>1. CASE m = Len(found) + 1
      BY <1>2, <1>3, <1>8, <1>9, <3>1
    <3>2. CASE m \in 1 .. Len(found)
      BY <1>8, <1>9, <3>2
    <3> QED BY <1>8, <3>1, <3>2
  <2> QED BY <1>8, <2>1 DEF CoursesDisjoint
<1> QED BY <1>2, <1>7, <1>10 DEF IInv

\* The other steps decide what comes next and move nothing.
LEMMA DecisionKeeps ==
    ASSUME IInv,
           \/ Start \/ ExtractMahasiswa \/ ExtractAcademicInfo
           \/ Finish \/ UNCHANGED vars
    PROVE  IInv'
<1>1. UNCHANGED <<text, index, found, total>>
  BY DEF Start, ExtractMahasiswa, ExtractAcademicInfo, Finish, vars, input
<1>2. /\ pc' \in {"parse", "mahasiswa", "academic info", "header", "rows"} \cup Results
      /\ pc' \in {"parse", "mahasiswa", "academic info", "header"} =>
            pc \in {"parse", "mahasiswa", "academic info", "header"}
  BY DEF Start, ExtractMahasiswa, ExtractAcademicInfo, Finish, vars, IInv, TypeOK,
         Results, Failures
<1> QED BY <1>1, <1>2 DEF IInv, TypeOK, CoursesDisjoint

\* The invariant holds in all reachable states.
THEOREM Invariance == Spec => []IInv
<1>1. IInv /\ [Next]_vars => IInv'
  BY FindHeaderKeeps, SkipKeeps, TakeKeeps, DecisionKeeps DEF Next
<1> QED BY <1>1, InitIInv, PTL DEF Spec

\* The walk never leaves the text, whatever the extraction did to it: every index
\* the parser uses is one of the text, or one beyond.
THEOREM TypeCorrect == Spec => []TypeOK
<1>1. IInv => TypeOK
  BY DEF IInv
<1> QED BY <1>1, Invariance, PTL

\* No line is read into two courses, however the walk had to resynchronise.
THEOREM Disjoint == Spec => []CoursesDisjoint
<1>1. IInv => CoursesDisjoint
  BY DEF IInv
<1> QED BY <1>1, Invariance, PTL

-----------------------------------------------------------------------------
(* The walk ends. *)

\* A bound on the steps still to be made: the stages, then a step per line.
StepsLeft ==
    CASE pc = "parse"         -> Len(text) + 5
      [] pc = "mahasiswa"     -> Len(text) + 4
      [] pc = "academic info" -> Len(text) + 3
      [] pc = "header"        -> Len(text) + 2
      [] pc = "rows"          -> Len(text) + 2 - index
      [] OTHER                -> 0

\* The bound, place by place.
LEMMA StepsTyped ==
    ASSUME IInv
    PROVE  /\ StepsLeft \in Nat
           /\ pc \in Results => StepsLeft = 0
           /\ pc = "parse" => StepsLeft = Len(text) + 5
           /\ pc = "mahasiswa" => StepsLeft = Len(text) + 4
           /\ pc = "academic info" => StepsLeft = Len(text) + 3
           /\ pc = "header" => StepsLeft = Len(text) + 2
           /\ pc = "rows" => StepsLeft = Len(text) + 2 - index
<1>0. PICK n, j : n = Len(text) /\ j = index
  OBVIOUS
<1>1. n \in Nat /\ j \in Nat /\ j <= n + 1
  <2>1. n \in Nat /\ j \in 1 .. n + 1
    BY <1>0, WalkTyped DEF IInv
  <2> QED BY <2>1
<1>2. pc \in {"parse", "mahasiswa", "academic info", "header", "rows"} \cup Results
  BY DEF IInv, TypeOK
<1>3. /\ pc \in Results => StepsLeft = 0
      /\ pc = "parse" => StepsLeft = n + 5
      /\ pc = "mahasiswa" => StepsLeft = n + 4
      /\ pc = "academic info" => StepsLeft = n + 3
      /\ pc = "header" => StepsLeft = n + 2
      /\ pc = "rows" => StepsLeft = n + 2 - j
  BY <1>0 DEF StepsLeft, Results, Failures
<1>4. n + 5 \in Nat /\ n + 4 \in Nat /\ n + 3 \in Nat /\ n + 2 \in Nat /\ n + 2 - j \in Nat
  BY <1>1
<1>5. StepsLeft \in Nat
  <2>1. StepsLeft \in {0, n + 5, n + 4, n + 3, n + 2, n + 2 - j}
    BY <1>2, <1>3, Zenon
  <2>2. 0 \in Nat
    OBVIOUS
  <2> QED BY <1>4, <2>1, <2>2, Zenon
<1> QED BY <1>0, <1>3, <1>5

\* Whatever the text, each step uses up the bound: the walk makes at most five
\* steps more than the text has lines.
THEOREM Terminates ==
    Spec => StepsLeft \in Nat /\ [][StepsLeft' \in Nat /\ StepsLeft' < StepsLeft]_vars
<1>1. IInv => StepsLeft \in Nat
  BY StepsTyped
<1>2. IInv /\ IInv' /\ [Next]_vars => [StepsLeft' \in Nat /\ StepsLeft' < StepsLeft]_vars
  <2> SUFFICES ASSUME IInv, IInv', Next
               PROVE  StepsLeft' \in Nat /\ StepsLeft' < StepsLeft
    BY DEF vars
  <2>0. PICK n, s, t, j, k : /\ n = Len(text) /\ s = StepsLeft /\ t = StepsLeft'
                             /\ j = index /\ k = index'
    OBVIOUS
  <2>1. n \in Nat /\ j \in Nat /\ 1 <= j /\ j <= n + 1
    <3>1. n \in Nat /\ j \in 1 .. n + 1
      BY <2>0, WalkTyped DEF IInv
    <3> QED BY <3>1
  <2>1a. text' = text
    BY DEF Next, Start, ExtractMahasiswa, ExtractAcademicInfo, FindHeader, Skip, Take,
           Finish, input
  <2>2. k \in Nat /\ 1 <= k /\ k <= n + 1
    <3>1. TypeOK'
      BY DEF IInv
    <3>2. k \in 1 .. n + 1
      BY <2>0, <2>1a, <3>1 DEF TypeOK
    <3> QED BY <2>1, <3>2
  <2>3. /\ s \in Nat
        /\ pc \in Results => s = 0
        /\ pc = "parse" => s = n + 5
        /\ pc = "mahasiswa" => s = n + 4
        /\ pc = "academic info" => s = n + 3
        /\ pc = "header" => s = n + 2
        /\ pc = "rows" => s = n + 2 - j
    BY <2>0, StepsTyped
  <2>4. /\ pc' \in Results => t = 0
        /\ pc' = "mahasiswa" => t = n + 4
        /\ pc' = "academic info" => t = n + 3
        /\ pc' = "header" => t = n + 2
        /\ pc' = "rows" => t = n + 2 - k
    BY <2>0, <2>1a DEF StepsLeft, Results, Failures
  <2>5. CASE Start \/ ExtractMahasiswa \/ ExtractAcademicInfo
    <3>1. \/ pc = "parse" /\ pc' \in Results \cup {"mahasiswa"}
          \/ pc = "mahasiswa" /\ pc' \in Results \cup {"academic info"}
          \/ pc = "academic info" /\ pc' \in Results \cup {"header"}
      BY <2>5 DEF Start, ExtractMahasiswa, ExtractAcademicInfo, Results, Failures
    <3>2. \/ s = n + 5 /\ t \in {0, n + 4}
          \/ s = n + 4 /\ t \in {0, n + 3}
          \/ s = n + 3 /\ t \in {0, n + 2}
      BY <2>3, <2>4, <3>1
    <3>3. t \in Nat /\ t < s
      BY <2>1, <3>2
    <3> QED BY <2>0, <3>3
  <2>6. CASE FindHeader
    <3>1. pc = "header" /\ pc' \in Results \cup {"rows"}
      BY <2>6 DEF FindHeader, Results, Failures
    <3>2. s = n + 2 /\ (t = 0 \/ t = n + 2 - k)
      BY <2>3, <2>4, <3>1
    <3>3. t \in Nat /\ t < s
      BY <2>1, <2>2, <3>2
    <3> QED BY <2>0, <3>3
  <2>7. CASE Skip \/ Take
    <3>1. pc = "rows" /\ pc' = "rows" /\ ~AtEnd /\ (index' = Here + 1 \/ index' = Here + 8)
      BY <2>7 DEF Skip, Take
    <3>2. Here \in Nat /\ index <= Here
      BY <3>1, EightLeft DEF IInv
    <3>3. j < k
      BY <2>0, <2>1, <3>1, <3>2
    <3>3a. s = n + 2 - j /\ t = n + 2 - k
      BY <2>3, <2>4, <3>1
    <3>4. t \in Nat /\ t < s
      BY <2>1, <2>2, <3>3, <3>3a
    <3> QED BY <2>0, <3>4
  <2>8. CASE Finish
    <3>1. pc = "rows" /\ pc' \in Results
      BY <2>8 DEF Finish, Results, Failures
    <3>2. s = n + 2 - j /\ t = 0
      BY <2>3, <2>4, <3>1
    <3>3. t \in Nat /\ t < s
      BY <2>1, <3>2
    <3> QED BY <2>0, <3>3
  <2> QED BY <2>5, <2>6, <2>7, <2>8 DEF Next
<1> QED BY <1>1, <1>2, InitIInv, Invariance, PTL DEF Spec

-----------------------------------------------------------------------------
(* The sum of the credits. *)

\* A sum of natural numbers g[x] is the size of a stack of g[x] items on each x.
Stack(g, T) == {p \in T \X Nat : 1 <= p[2] /\ p[2] <= g[p[1]]}

\* One more element brings its number of items.
LEMMA StackGrows ==
    ASSUME NEW g, NEW T, NEW y, y \notin T, g[y] \in Nat, IsFiniteSet(Stack(g, T))
    PROVE  /\ IsFiniteSet(Stack(g, T \cup {y}))
           /\ Cardinality(Stack(g, T \cup {y})) = Cardinality(Stack(g, T)) + g[y]
<1>1. PICK B : B = {y} \X (1 .. g[y])
  OBVIOUS
<1>2. IsFiniteSet(B) /\ Cardinality(B) = g[y]
  <2>1. IsFiniteSet({y}) /\ Cardinality({y}) = 1
    BY FS_Singleton
  <2>2. IsFiniteSet(1 .. g[y]) /\ Cardinality(1 .. g[y]) = g[y]
    <3>1. PICK n \in Nat : n = g[y]
      OBVIOUS
    <3>2. 1 \in Int /\ n \in Int
      OBVIOUS
    <3>3. IsFiniteSet(1 .. n) /\ Cardinality(1 .. n) = IF 1 > n THEN 0 ELSE n - 1 + 1
      BY <3>2, FS_Interval
    <3>4. Cardinality(1 .. n) = n
      BY <3>3
    <3> QED BY <3>1, <3>3, <3>4
  <2>3. /\ IsFiniteSet({y} \X (1 .. g[y]))
        /\ Cardinality({y} \X (1 .. g[y])) = Cardinality({y}) * Cardinality(1 .. g[y])
    BY <2>1, <2>2, FS_Product, Zenon
  <2> QED BY <1>1, <2>1, <2>2, <2>3
<1>3. Stack(g, T \cup {y}) = Stack(g, T) \cup B
  BY <1>1 DEF Stack
<1>4. Stack(g, T) \cap B = {}
  BY <1>1 DEF Stack
<1>5. Cardinality(Stack(g, T)) \in Nat
  BY FS_CardinalityType
<1>6. Cardinality(Stack(g, T) \cap B) = 0
  BY <1>4, FS_EmptySet
<1>7. /\ IsFiniteSet(Stack(g, T) \cup B)
      /\ Cardinality(Stack(g, T) \cup B)
            = Cardinality(Stack(g, T)) + Cardinality(B) - Cardinality(Stack(g, T) \cap B)
  BY <1>2, FS_Union
<1>8. /\ IsFiniteSet(Stack(g, T \cup {y}))
      /\ Cardinality(Stack(g, T \cup {y})) = Cardinality(Stack(g, T)) + g[y] - 0
  BY <1>2, <1>3, <1>6, <1>7, Zenon
<1> QED BY <1>5, <1>8

\* Every finite sum is finite.
LEMMA StackFinite ==
    ASSUME NEW S, IsFiniteSet(S), NEW g, \A x \in S : g[x] \in Nat
    PROVE  \A T \in SUBSET S : IsFiniteSet(Stack(g, T))
<1> DEFINE Bad == {T \in SUBSET S : ~ IsFiniteSet(Stack(g, T))}
<1> SUFFICES ASSUME Bad # {}
             PROVE  FALSE
  OBVIOUS
<1>1. PICK T \in Bad : \A U \in Bad : ~ (<<U, T>> \in StrictSubsetOrdering(S))
  <2>1. Bad \subseteq FiniteSubsetsOf(S)
    BY FS_FiniteSubsetsOfFinite
  <2> HIDE DEF Bad
  <2> QED BY <2>1, FS_StrictSubsetOrderingWellFounded, WFMin
<1>2. T # {}
  BY FS_EmptySet DEF Stack
<1>3. PICK y \in T : TRUE
  BY <1>2
<1>4. <<T \ {y}, T>> \in StrictSubsetOrdering(S)
  BY DEF StrictSubsetOrdering
<1>5. IsFiniteSet(Stack(g, T \ {y}))
  BY <1>1, <1>4
<1>6. (T \ {y}) \cup {y} = T /\ g[y] \in Nat
  OBVIOUS
<1>7. IsFiniteSet(Stack(g, T))
  BY <1>5, <1>6, StackGrows
<1> QED BY <1>7

\* What MapThenSumSet adds up is the size of the stack, in whatever order it takes
\* the elements.
CreditSum(t, f, S) == MapThenSumSet(LAMBDA m : t[f[m] + 3].value, S)

LEMMA SumIsStack ==
    ASSUME NEW S, IsFiniteSet(S), NEW t, NEW f, NEW g,
           \A x \in S : g[x] \in Nat /\ g[x] = t[f[x] + 3].value
    PROVE  CreditSum(t, f, S) = Cardinality(Stack(g, S))
<1> DEFINE c(s) == CHOOSE x \in s : TRUE
           P(F) == F = [s \in SUBSET S |->
                          IF s = {} THEN 0 ELSE t[f[c(s)] + 3].value + F[s \ {c(s)}]]
           H == [s \in SUBSET S |-> Cardinality(Stack(g, s))]
           Sum == CHOOSE F : P(F)
<1>1. CreditSum(t, f, S) = Sum[S]
  BY DEF CreditSum, MapThenSumSet, MapThenFoldSet
<1>2. P(H)
  <2>1. ASSUME NEW s \in SUBSET S, s # {}
        PROVE  H[s] = t[f[c(s)] + 3].value + H[s \ {c(s)}]
    <3>1. PICK y : y = c(s)
      OBVIOUS
    <3>2. y \in s /\ y \notin s \ {y} /\ (s \ {y}) \cup {y} = s /\ s \ {y} \in SUBSET S
      BY <2>1, <3>1
    <3>3. IsFiniteSet(Stack(g, s \ {y})) /\ g[y] \in Nat /\ g[y] = t[f[y] + 3].value
      BY <3>2, StackFinite
    <3>4. Cardinality(Stack(g, s)) = Cardinality(Stack(g, s \ {y})) + g[y]
      <4>1. PICK w : w = s \ {y}
        OBVIOUS
      <4>2. y \notin w /\ w \cup {y} = s /\ IsFiniteSet(Stack(g, w)) /\ g[y] \in Nat
        BY <3>2, <3>3, <4>1
      <4>3. Cardinality(Stack(g, w \cup {y})) = Cardinality(Stack(g, w)) + g[y]
        BY ONLY <4>2, StackGrows, Zenon
      <4> QED BY <4>1, <4>2, <4>3
    <3>5. Cardinality(Stack(g, s \ {y})) \in Nat
      BY <3>3, FS_CardinalityType
    <3>6. Cardinality(Stack(g, s)) = g[y] + Cardinality(Stack(g, s \ {y}))
      BY <3>3, <3>4, <3>5
    <3>7. H[s] = Cardinality(Stack(g, s)) /\ H[s \ {y}] = Cardinality(Stack(g, s \ {y}))
      BY <3>2
    <3> HIDE DEF H
    <3> QED BY <3>1, <3>3, <3>6, <3>7, Zenon
  <2>2. H[{}] = 0
    BY FS_EmptySet DEF Stack
  <2>3. \A s \in SUBSET S :
           H[s] = IF s = {} THEN 0 ELSE t[f[c(s)] + 3].value + H[s \ {c(s)}]
    <3> HIDE DEF H
    <3> QED BY <2>1, <2>2
  <2>4. H = [s \in SUBSET S |-> H[s]]
    OBVIOUS
  <2> HIDE DEF H
  <2> QED BY <2>3, <2>4
<1>3. ASSUME NEW F, P(F)
      PROVE  \A s \in SUBSET S : F[s] = H[s]
  <2> DEFINE Bad == {s \in SUBSET S : F[s] # H[s]}
  <2> SUFFICES ASSUME Bad # {}
               PROVE  FALSE
    OBVIOUS
  <2>1. PICK s \in Bad : \A u \in Bad : ~ (<<u, s>> \in StrictSubsetOrdering(S))
    <3>1. Bad \subseteq FiniteSubsetsOf(S)
      BY FS_FiniteSubsetsOfFinite
    <3> HIDE DEF Bad
    <3> QED BY <3>1, FS_StrictSubsetOrderingWellFounded, WFMin
  <2>2. \A u \in SUBSET S :
           /\ F[u] = IF u = {} THEN 0 ELSE t[f[c(u)] + 3].value + F[u \ {c(u)}]
           /\ H[u] = IF u = {} THEN 0 ELSE t[f[c(u)] + 3].value + H[u \ {c(u)}]
    <3> HIDE DEF H
    <3> QED BY <1>2, <1>3
  <2>3. s # {}
    <3> HIDE DEF H
    <3> QED BY <2>2
  <2>4. PICK y : y = c(s)
    OBVIOUS
  <2>5. y \in s
    BY <2>3, <2>4
  <2>6. <<s \ {y}, s>> \in StrictSubsetOrdering(S)
    BY <2>5 DEF StrictSubsetOrdering
  <2>7. F[s \ {y}] = H[s \ {y}]
    <3> HIDE DEF H
    <3> QED BY <2>1, <2>6
  <2>8. s \in SUBSET S /\ F[s] # H[s]
    OBVIOUS
  <2> HIDE DEF H
  <2>9. /\ F[s] = t[f[y] + 3].value + F[s \ {y}]
        /\ H[s] = t[f[y] + 3].value + H[s \ {y}]
    BY <2>2, <2>3, <2>4, <2>8, Zenon
  <2> QED BY <2>7, <2>8, <2>9
<1>4. P(Sum)
  <2>1. \E F : P(F)
    <3> HIDE DEF P, H
    <3> QED BY <1>2
  <2> HIDE DEF P
  <2> QED BY <2>1
<1>5. Sum[S] = H[S]
  <2> HIDE DEF P, H, Sum
  <2> QED BY <1>3, <1>4
<1>6. H[S] = Cardinality(Stack(g, S))
  OBVIOUS
<1> HIDE DEF Sum, H
<1> QED BY <1>1, <1>5, <1>6, Zenon

\* A course more brings its credits.
LEMMA SumGrows ==
    ASSUME NEW t, NEW f, NEW e, NEW n \in Nat,
           \A m \in 1 .. n : e[m] = f[m],
           \A m \in 1 .. n + 1 : t[e[m] + 3].value \in Nat
    PROVE  CreditSum(t, e, 1 .. n + 1) = CreditSum(t, f, 1 .. n) + t[e[n + 1] + 3].value
<1>1. PICK g : g = [m \in 1 .. n + 1 |-> t[e[m] + 3].value]
  OBVIOUS
<1>2. \A m \in 1 .. n + 1 : g[m] \in Nat /\ g[m] = t[e[m] + 3].value
  BY <1>1
<1>3. \A m \in 1 .. n : g[m] \in Nat /\ g[m] = t[f[m] + 3].value
  BY <1>2
<1>4. IsFiniteSet(1 .. n) /\ IsFiniteSet(1 .. n + 1)
  BY FS_Interval
<1>5. CreditSum(t, e, 1 .. n + 1) = Cardinality(Stack(g, 1 .. n + 1))
  BY <1>2, <1>4, SumIsStack
<1>6. CreditSum(t, f, 1 .. n) = Cardinality(Stack(g, 1 .. n))
  BY <1>3, <1>4, SumIsStack
<1>7. PICK S : S = 1 .. n
  OBVIOUS
<1>8. 1 .. n + 1 = S \cup {n + 1} /\ n + 1 \notin S /\ IsFiniteSet(S)
  BY <1>4, <1>7
<1>9. IsFiniteSet(Stack(g, S))
  <2>1. \A x \in S : g[x] \in Nat
    BY <1>3, <1>7
  <2> QED BY <1>8, <2>1, StackFinite
<1>10. g[n + 1] \in Nat /\ g[n + 1] = t[e[n + 1] + 3].value
  BY <1>2
<1>11. Cardinality(Stack(g, S \cup {n + 1})) = Cardinality(Stack(g, S)) + g[n + 1]
  BY <1>8, <1>9, <1>10, StackGrows
<1> QED BY <1>5, <1>6, <1>7, <1>8, <1>10, <1>11, Zenon

\* The total is the sum, and no course is taken that does not add to it.
IAdds == IInv /\ total = CreditSum(text, found, DOMAIN found)

\* The step that adds.
LEMMA TakeAdds ==
    ASSUME IAdds, Take
    PROVE  total' = CreditSum(text, found, DOMAIN found)'
<1>1. PICK h, n : h = Here /\ n = Len(found)
  OBVIOUS
<1>2. /\ text' = text /\ found' = Append(found, h) /\ ~ AtEnd
      /\ total' = total + text[h + 3].value
  BY <1>1 DEF Take, input
<1>3. IInv /\ TypeOK
  BY DEF IAdds, IInv
<1>4. /\ n \in Nat /\ DOMAIN found = 1 .. n /\ found \in Seq(1 .. Len(text))
      /\ Len(text) \in Nat /\ text \in Seq(Line) /\ total \in Nat
  BY <1>1, <1>3, WalkTyped
<1>5. \A m \in 1 .. n : text[found[m] + 3].value \in Nat
  <2> SUFFICES ASSUME NEW m \in 1 .. n
               PROVE  text[found[m] + 3].value \in Nat
    OBVIOUS
  <2>1. found[m] \in 1 .. Len(text) /\ found[m] + 8 <= index /\ index \in 1 .. Len(text) + 1
    <3>1. \A k \in DOMAIN found : found[k] + 8 <= index
      BY <1>3, Zenon DEF IInv, CoursesDisjoint
    <3>2. index \in 1 .. Len(text) + 1
      BY <1>3, WalkTyped
    <3>3. PICK L : L = Len(text)
      OBVIOUS
    <3>4. L \in Nat /\ found \in Seq(1 .. L) /\ Len(found) = n
      BY <1>1, <1>4, <3>3
    <3>5. found[m] \in 1 .. L
      BY <3>4
    <3> QED BY <1>4, <3>1, <3>2, <3>3, <3>5
  <2>2. found[m] + 3 \in 1 .. Len(text)
    BY <1>4, <2>1
  <2>3. text[found[m] + 3] \in Line
    BY <1>4, <2>2
  <2> QED BY <2>3 DEF Line
<1>6. text[h + 3].value \in Nat
  BY <1>1, <1>2, <1>3, EightLeft
<1>7. /\ DOMAIN found' = 1 .. n + 1 /\ found'[n + 1] = h
      /\ \A m \in 1 .. n : found'[m] = found[m]
  BY <1>1, <1>2, <1>4
<1>8. \A m \in 1 .. n + 1 : text[found'[m] + 3].value \in Nat
  <2>1. \A m \in 1 .. n + 1 : m \in 1 .. n \/ m = n + 1
    BY <1>4
  <2> QED BY <1>5, <1>6, <1>7, <2>1, Zenon
<1>9. CreditSum(text, found', 1 .. n + 1)
        = CreditSum(text, found, 1 .. n) + text[found'[n + 1] + 3].value
  <2>1. PICK e : e = found'
    OBVIOUS
  <2>2. PICK t, f : t = text /\ f = found
    OBVIOUS
  <2>3. /\ n \in Nat /\ \A m \in 1 .. n : e[m] = f[m]
        /\ \A m \in 1 .. n + 1 : t[e[m] + 3].value \in Nat
    BY <1>4, <1>7, <1>8, <2>1, <2>2
  <2>4. CreditSum(t, e, 1 .. n + 1) = CreditSum(t, f, 1 .. n) + t[e[n + 1] + 3].value
    BY ONLY <2>3, SumGrows
  <2> QED BY <2>1, <2>2, <2>4
<1>10. total = CreditSum(text, found, 1 .. n)
  BY <1>4 DEF IAdds
<1>11. CreditSum(text, found, DOMAIN found)' = CreditSum(text, found', 1 .. n + 1)
  BY <1>2, <1>7
<1> QED BY <1>2, <1>7, <1>9, <1>10, <1>11, Zenon

\* At any time the courses found are disjoint and the total is the sum of their
\* credits, for plans of any length and whatever the damage.
THEOREM AddsUp == Spec => []AnswerAddsUp
<1>1. Init => IAdds
  <2> SUFFICES ASSUME Init
               PROVE  total = CreditSum(text, found, DOMAIN found)
    BY InitIInv DEF IAdds
  <2>1. DOMAIN found = {} /\ total = 0
    BY DEF Init
  <2>2. CreditSum(text, found, {}) = Cardinality(Stack(<<>>, {}))
    BY FS_EmptySet, SumIsStack
  <2>3. Stack(<<>>, {}) = {}
    BY DEF Stack
  <2> QED BY <2>1, <2>2, <2>3, FS_EmptySet
<1>2. IAdds /\ [Next]_vars => IAdds'
  <2> SUFFICES ASSUME IAdds, [Next]_vars
               PROVE  IAdds'
    OBVIOUS
  <2>1. IInv'
    BY FindHeaderKeeps, SkipKeeps, TakeKeeps, DecisionKeeps DEF IAdds, Next
  <2>2. CASE Take
    BY <2>1, <2>2, TakeAdds DEF IAdds
  <2>3. CASE ~ Take
    <3>1. UNCHANGED <<text, found, total>>
      BY <2>3 DEF Next, Start, ExtractMahasiswa, ExtractAcademicInfo, FindHeader, Skip,
                  Finish, vars, input
    <3> QED BY <2>1, <3>1 DEF IAdds
  <2> QED BY <2>2, <2>3
<1>3. IAdds => AnswerAddsUp
  BY DEF IAdds, IInv, AnswerAddsUp, CreditSum
<1> QED BY <1>1, <1>2, <1>3, PTL DEF Spec

-----------------------------------------------------------------------------
(* The text as it was printed: the numbers of its lines. *)

\* Where a concatenation has its parts.
Joined(s, t, c) ==
    /\ c \in Seq(Line) /\ Len(c) = Len(s) + Len(t)
    /\ \A i \in 1 .. Len(s) : c[i] = s[i]
    /\ \A i \in 1 .. Len(t) : c[Len(s) + i] = t[i]

LEMMA TwoParts ==
    \A s, t \in Seq(Line) : \A c : c = s \o t => Joined(s, t, c)
<1> SUFFICES ASSUME NEW s \in Seq(Line), NEW t \in Seq(Line), NEW c, c = s \o t
             PROVE  Joined(s, t, c)
  OBVIOUS
<1>1. (s \o t) \in Seq(Line) /\ Len(s \o t) = Len(s) + Len(t)
  BY ConcatProperties
<1>2. \A i \in 1 .. Len(s) : c[i] = s[i]
  OBVIOUS
<1>3. \A i \in 1 .. Len(t) : c[Len(s) + i] = t[i]
  OBVIOUS
<1> QED BY <1>1, <1>2, <1>3 DEF Joined

\* The fields of the courses, one after the other.
LEMMA RowsLines ==
    ASSUME plan \in Seq(Course)
    PROVE  /\ Len(Rows) = 8 * Len(plan)
           /\ \A k \in 1 .. Len(plan), f \in 1 .. 8 :
                 Rows[8 * (k - 1) + f] = Printed(k)[f]
<1>1. Len(plan) \in Nat
  OBVIOUS
<1>2. Len(Rows) = 8 * Len(plan)
  BY <1>1 DEF Rows
<1>3. ASSUME NEW k \in 1 .. Len(plan), NEW f \in 1 .. 8
      PROVE  Rows[8 * (k - 1) + f] = Printed(k)[f]
  <2>1. PICK q : q = 8 * (k - 1) + f
    OBVIOUS
  <2>2. q \in 1 .. 8 * Len(plan)
    BY <1>1, <2>1
  <2>3. ((q - 1) \div 8) + 1 = k /\ ((q - 1) % 8) + 1 = f
    BY <1>1, <2>1
  <2>4. Rows[q] = Printed(((q - 1) \div 8) + 1)[((q - 1) % 8) + 1]
    BY <2>2 DEF Rows
  <2> QED BY <2>1, <2>3, <2>4
<1> QED BY <1>2, <1>3

\* Where the page has what: a line, the header, the courses, and a foot that is
\* too short for a course.
LEMMA PageLines ==
    ASSUME plan \in Seq(Course)
    PROVE  /\ Len(Page) = 15 + 8 * Len(plan)
           /\ Page[1] = Text(1)
           /\ \A j \in 1 .. 7 : Page[1 + j] = Header[j]
           /\ \A k \in 1 .. Len(plan), f \in 1 .. 8 :
                 Page[8 * k + f] = Printed(k)[f]
           /\ \A i \in 1 .. 7 : Page[8 + 8 * Len(plan) + i] = Bottom[i]
<1>0. PICK N : N = Len(plan)
  OBVIOUS
<1>1. N \in Nat
  BY <1>0
<1>2. PICK t, h, r, b : t = Top /\ h = Header /\ r = Rows /\ b = Bottom
  OBVIOUS
<1>3. t \in Seq(Line) /\ h \in Seq(Line) /\ r \in Seq(Line) /\ b \in Seq(Line)
  BY <1>2, PartsTyped
<1>4. /\ Len(t) = 1 /\ t[1] = Text(1)
      /\ Len(h) = 7 /\ \A j \in 1 .. 7 : h[j] = Header[j]
  BY <1>2 DEF Top, Header
<1>5. Len(b) = 7
  BY <1>2 DEF Bottom
<1>6. Len(r) = 8 * N /\ \A k \in 1 .. N, f \in 1 .. 8 : r[8 * (k - 1) + f] = Printed(k)[f]
  BY <1>0, <1>2, RowsLines
<1>7. PICK th, thr, p : th = t \o h /\ thr = th \o r /\ p = thr \o b
  OBVIOUS
<1>8. /\ th \in Seq(Line) /\ Len(th) = 8
      /\ \A i \in 1 .. 1 : th[i] = t[i]
      /\ \A j \in 1 .. 7 : th[1 + j] = h[j]
  <2>1. Joined(t, h, th)
    BY <1>3, <1>7, TwoParts, Zenon
  <2> QED BY <1>4, <2>1 DEF Joined
<1>9. /\ thr \in Seq(Line) /\ Len(thr) = 8 + 8 * N
      /\ \A i \in 1 .. 8 : thr[i] = th[i]
      /\ \A q \in 1 .. 8 * N : thr[8 + q] = r[q]
  <2>1. Joined(th, r, thr)
    BY <1>3, <1>7, <1>8, TwoParts, Zenon
  <2> QED BY <1>6, <1>8, <2>1 DEF Joined
<1>10. /\ Len(p) = 15 + 8 * N
       /\ \A i \in 1 .. 8 + 8 * N : p[i] = thr[i]
       /\ \A i \in 1 .. 7 : p[8 + 8 * N + i] = b[i]
  <2>1. Joined(thr, b, p)
    BY <1>3, <1>7, <1>9, TwoParts, Zenon
  <2>2. PICK n, m : n = Len(thr) /\ m = Len(b)
    OBVIOUS
  <2>3. n = 8 + 8 * N /\ m = 7
    BY <1>5, <1>9, <2>2
  <2>4. /\ Len(p) = n + m
        /\ \A i \in 1 .. n : p[i] = thr[i]
        /\ \A i \in 1 .. m : p[n + i] = b[i]
    BY <2>1, <2>2 DEF Joined
  <2>5. n + m = 15 + 8 * N
    BY <1>1, <2>3
  <2>6. \A i \in 1 .. 7 : p[8 + 8 * N + i] = b[i]
    BY <2>3, <2>4
  <2> QED BY <2>3, <2>4, <2>5, <2>6
<1>11. p[1] = Text(1) /\ \A j \in 1 .. 7 : p[1 + j] = Header[j]
  BY <1>1, <1>4, <1>8, <1>9, <1>10
<1>12. ASSUME NEW k \in 1 .. N, NEW f \in 1 .. 8
       PROVE  p[8 * k + f] = Printed(k)[f]
  <2>1. PICK q : q = 8 * (k - 1) + f
    OBVIOUS
  <2>2. q \in 1 .. 8 * N /\ 8 + q = 8 * k + f /\ 8 + q \in 1 .. 8 + 8 * N
    BY <1>1, <2>1
  <2>3. p[8 + q] = r[q]
    BY <1>9, <1>10, <2>2
  <2> QED BY <1>6, <2>1, <2>2, <2>3
<1>13. p = Page
  BY <1>2, <1>7 DEF Page
<1> QED BY <1>0, <1>2, <1>5, <1>10, <1>11, <1>12, <1>13

\* The page depends on the plan alone.
LEMMA PageKept ==
    ASSUME plan' = plan
    PROVE  Page' = Page
BY DEF Page, Rows, Printed, Top, Header, Bottom
=============================================================================
