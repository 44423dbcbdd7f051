----------------------- MODULE KRSParserDamageProofs -----------------------
(***************************************************************************)
(* For every plan and every single damage of its text: the walk finds the  *)
(* courses before the damage, may return one course made of the damaged    *)
(* lines, and is at the first line of a course again soon behind it.       *)
(***************************************************************************)
EXTENDS KRSParserProofs

-----------------------------------------------------------------------------
(* Where the damage is, and where the walk is in the meantime.             *)

\* The damage is in front of the header, or between two of its lines.
InTop == damage.kind \in {"drop", "insert"} /\ damage.at < FirstRow

\* How far the lines behind the damage have moved.
Shift == CASE damage.kind = "drop"   -> -1
           [] damage.kind = "insert" -> 1
           [] OTHER                  -> 0

\* The course that the damage is in: the one behind the last, if none is.
Damaged ==
    CASE damage.kind = "none" -> Len(plan) + 1
      [] damage.kind = "cut"  -> CourseOf(damage.at + 1)
      [] InTop                -> 1
      [] OTHER                -> CourseOf(damage.at)

\* The field of that course which is missing, or which the stray line precedes.
Field == ((damage.at - FirstRow) % 8) + 1

\* The first course behind the damage.
Resumed ==
    CASE damage.kind \in {"none", "cut"}  -> Len(plan) + 1
      [] InTop                            -> 1
      [] damage.kind = "drop" /\ ~ InTop -> IF Field <= 4 THEN Damaged + 1
                                                           ELSE Damaged + 2
      [] OTHER                            -> IF Field = 1 THEN Damaged
                                                          ELSE Damaged + 1

\* The first line of a course before the damage, and of one behind it.
Before(k) == 8 * k + 1
After(k) == 8 * k + 1 + Shift

\* The courses found: those before the damage, u of the damaged lines, and c
\* behind the damage.
Layout(fd, u, c) ==
    /\ Len(fd) = Damaged - 1 + u + c
    /\ \A m \in 1 .. Damaged - 1 : fd[m] = Before(m)
    /\ \A i \in 1 .. c : fd[Damaged - 1 + u + i] = After(Resumed + i - 1)
    /\ u = 1 => Damaged <= Len(plan) /\ Damaged < Resumed
    /\ c > 0 => Resumed + c <= Len(plan) + 1

\* A course that the damage disturbs has a word of the end marker in its name.
EndingName == \E k \in Disturbed \cap DOMAIN plan : plan[k].name = "end"

\* The walk is at a course before the damage, or at the damaged one.
OnPlan(fd, i) ==
    /\ ~ InTop
    /\ Len(fd) < Damaged
    /\ \A m \in 1 .. Len(fd) : fd[m] = Before(m)
    /\ i = Before(Len(fd) + 1)

\* The lines of the damaged course, and of the next one when its number was read
\* as the last field of the damaged one, that the walk passes one by one.
Between(i, u) ==
    \/ /\ damage.kind = "drop" /\ u = 0 /\ Field <= 4
       /\ i \in 8 * Damaged + 2 .. 8 * Damaged + 7
    \/ /\ damage.kind = "drop" /\ u = 1 /\ Field > 4
       /\ i \in 8 * Damaged + 9 .. 8 * Damaged + 15
    \/ /\ damage.kind = "insert" /\ u = 0 /\ Field \in 2 .. 4
       /\ i \in 8 * Damaged + 2 .. 8 * Damaged + 9
    \/ /\ damage.kind = "insert" /\ u = 1 /\ Field > 3
       /\ i = 8 * Damaged + 9

Astray(fd, i, u) ==
    /\ ~ InTop
    /\ Damaged <= Len(plan)
    /\ Layout(fd, u, 0)
    /\ Between(i, u)

\* The walk is at the next course behind the damage, or behind the last one.
OnAgain(fd, i, u, c) ==
    /\ damage.kind \in {"drop", "insert"}
    /\ Layout(fd, u, c)
    /\ Resumed + c <= Len(plan) + 1
    /\ i = After(Resumed + c)

Placed(fd, i) ==
    \/ OnPlan(fd, i)
    \/ \E u \in {0, 1} : Astray(fd, i, u)
    \/ \E u \in {0, 1}, c \in Nat : OnAgain(fd, i, u, c)

\* The walk may stop: it has all that it can find.
Complete(fd) ==
    \E u \in {0, 1}, c \in Nat :
        /\ Layout(fd, u, c)
        /\ Resumed + c > Len(plan) \/ (c = 0 /\ EndingName)

DamagedWalk ==
    /\ pc = "no table" => ~ HeaderIntact
    /\ pc = "rows" => HeaderIntact /\ Placed(found, index)
    /\ pc \in {"no courses", "success"} =>
          HeaderIntact /\ Complete(found) /\ (pc = "success") = (found # <<>>)

\* The parser is given the damaged text of a plan.
Given == plan \in Seq(Course) /\ damage \in Damages /\ text = Extracted

IDamage == IInv /\ Given /\ DamagedWalk

-----------------------------------------------------------------------------
(* Numbers of lines. *)

\* The first row is the ninth line.
LEMMA RowNine == FirstRow = 9 /\ Len(Top) = 1
<1>1. Len(Top) = 1 /\ Len(Header) = 7
  BY DEF Top, Header
<1> QED BY <1>1 DEF FirstRow

\* What a damage is.
LEMMA DamageTyped ==
    ASSUME plan \in Seq(Course), damage \in Damages
    PROVE  /\ Len(plan) \in Nat /\ DOMAIN plan = 1 .. Len(plan)
           /\ damage.kind \in {"none", "drop", "cut", "insert"}
           /\ damage.at \in Nat
           /\ damage.kind = "none" => damage.at = 0
           /\ damage.kind = "drop" => damage.at \in 1 .. 15 + 8 * Len(plan)
           /\ damage.kind = "cut" => damage.at \in 0 .. 15 + 8 * Len(plan)
           /\ damage.kind = "insert" =>
                 damage.at \in 1 .. 16 + 8 * Len(plan) /\ damage.line \in Stray
<1>1. PICK n, l : n = Len(plan) /\ l = Len(Page)
  OBVIOUS
<1>2. n \in Nat /\ DOMAIN plan = 1 .. n /\ l = 15 + 8 * n
  BY <1>1, PageLines
<1>3. \/ damage = NoDamage
      \/ damage \in [kind : {"drop"}, at : 1 .. l, line : {End}]
      \/ damage \in [kind : {"cut"}, at : 0 .. l, line : {End}]
      \/ damage \in [kind : {"insert"}, at : 1 .. l + 1, line : Stray]
  BY <1>1 DEF Damages
<1>4. CASE damage = NoDamage
  BY <1>1, <1>2, <1>4 DEF NoDamage
<1>5. CASE damage \in [kind : {"drop"}, at : 1 .. l, line : {End}]
  BY <1>1, <1>2, <1>5
<1>6. CASE damage \in [kind : {"cut"}, at : 0 .. l, line : {End}]
  BY <1>1, <1>2, <1>6
<1>7. CASE damage \in [kind : {"insert"}, at : 1 .. l + 1, line : Stray]
  BY <1>1, <1>2, <1>7
<1> QED BY <1>3, <1>4, <1>5, <1>6, <1>7

\* A line of the rows is a field of a course.
LEMMA CourseField ==
    \A i \in Nat : \A k, f : i >= 9 /\ k = CourseOf(i) /\ f = ((i - FirstRow) % 8) + 1 =>
        k \in Nat /\ k >= 1 /\ f \in 1 .. 8 /\ i = 8 * k + f
<1> SUFFICES ASSUME NEW i \in Nat, i >= 9
             PROVE  \A k, f : k = CourseOf(i) /\ f = ((i - FirstRow) % 8) + 1 =>
                       k \in Nat /\ k >= 1 /\ f \in 1 .. 8 /\ i = 8 * k + f
  OBVIOUS
<1>1. PICK j \in Nat : j = i - 9
  OBVIOUS
<1>2. /\ j \div 8 \in Nat /\ j % 8 \in 0 .. 7
      /\ j = 8 * (j \div 8) + (j % 8)
  BY <1>1
<1>3. CourseOf(i) = (j \div 8) + 1 /\ (i - FirstRow) % 8 = j % 8
  BY <1>1, RowNine DEF CourseOf
<1> QED BY <1>1, <1>2, <1>3

\* Without damage all courses are before it.
LEMMA NoneAt ==
    ASSUME plan \in Seq(Course), damage \in Damages, damage.kind = "none"
    PROVE  /\ Damaged = Len(plan) + 1 /\ Resumed = Len(plan) + 1
           /\ ~ InTop /\ HeaderIntact
BY DEF Damaged, Resumed, InTop, HeaderIntact

\* Where a cut is.
LEMMA CutAt ==
    ASSUME plan \in Seq(Course), damage \in Damages, damage.kind = "cut", HeaderIntact
    PROVE  /\ Damaged \in 1 .. Len(plan) + 1 /\ Resumed = Len(plan) + 1
           /\ 8 * Damaged <= damage.at /\ damage.at <= 8 * Damaged + 7
           /\ ~ InTop
<1>1. PICK n, at : n = Len(plan) /\ at = damage.at
  OBVIOUS
<1>2. n \in Nat /\ at \in 0 .. 15 + 8 * n
  BY <1>1, DamageTyped
<1>3. at + 1 >= 9 /\ at + 1 \in Nat
  BY <1>1, <1>2, RowNine DEF HeaderIntact
<1>4. /\ Damaged = CourseOf(at + 1) /\ Resumed = n + 1 /\ ~ InTop
  BY <1>1 DEF Damaged, Resumed, InTop
<1>5. PICK i, k, r :
          i \in Nat /\ i = at + 1 /\ k = CourseOf(i) /\ r = ((i - FirstRow) % 8) + 1
  BY <1>3
<1>6. k \in Nat /\ k >= 1 /\ r \in 1 .. 8 /\ at + 1 = 8 * k + r
  BY <1>3, <1>5, CourseField
<1>7. k \in 1 .. n + 1 /\ 8 * k <= at /\ at <= 8 * k + 7
  BY <1>2, <1>6
<1> QED BY <1>1, <1>4, <1>5, <1>7

\* A damage in front of the header moves all courses by a line.
LEMMA TopAt ==
    ASSUME plan \in Seq(Course), damage \in Damages, InTop, HeaderIntact
    PROVE  /\ Damaged = 1 /\ Resumed = 1
           /\ damage.kind = "drop" => damage.at = 1 /\ Shift = -1
           /\ damage.kind = "insert" => damage.at \in {1, 2} /\ Shift = 1
           /\ damage.kind \in {"drop", "insert"}
<1>1. damage.at \in Nat /\ damage.at >= 1 /\ damage.kind \in {"drop", "insert"}
  <2>1. damage.kind \in {"drop", "insert"}
    BY DEF InTop
  <2>2. PICK n, at : n = Len(plan) /\ at = damage.at
    OBVIOUS
  <2>3. n \in Nat /\ (at \in 1 .. 15 + 8 * n \/ at \in 1 .. 16 + 8 * n)
    BY <2>1, <2>2, DamageTyped
  <2> QED BY <2>1, <2>2, <2>3
<1>2. Damaged = 1 /\ Resumed = 1
  <2>1. damage.kind # "none" /\ damage.kind # "cut"
        /\ damage.kind \notin {"none", "cut"}
    BY <1>1
  <2>2. Damaged = 1
    BY <2>1, Zenon DEF Damaged
  <2>3. Resumed = 1
    BY <2>1, Zenon DEF Resumed
  <2> QED BY <2>2, <2>3
<1>3. /\ damage.kind = "drop" => Shift = -1
      /\ damage.kind = "insert" => Shift = 1
  BY DEF Shift
<1>4. damage.kind = "drop" => damage.at = 1
  BY <1>1, RowNine DEF HeaderIntact, InTop
<1>5. damage.kind = "insert" => damage.at \in {1, 2}
  BY <1>1, RowNine DEF HeaderIntact, InTop
<1> QED BY <1>1, <1>2, <1>3, <1>4, <1>5

\* A line that is missing from the rows or inserted into them.
LEMMA RowAt ==
    ASSUME plan \in Seq(Course), damage \in Damages, ~ InTop,
           damage.kind \in {"drop", "insert"}
    PROVE  /\ Damaged \in 1 .. Len(plan) + 1 /\ Field \in 1 .. 8
           /\ damage.at = 8 * Damaged + Field
           /\ damage.kind = "drop" =>
                 /\ Shift = -1
                 /\ Field <= 4 => Resumed = Damaged + 1
                 /\ Field > 4 => Resumed = Damaged + 2
           /\ damage.kind = "insert" =>
                 /\ Shift = 1
                 /\ Field = 1 => Resumed = Damaged
                 /\ Field > 1 => Resumed = Damaged + 1
<1>1. PICK n, at : n = Len(plan) /\ at = damage.at
  OBVIOUS
<1>2. n \in Nat /\ at \in Nat /\ at >= 9 /\ at <= 16 + 8 * n
  BY <1>1, DamageTyped, RowNine DEF InTop
<1>3. Damaged = CourseOf(at) /\ Field = ((at - FirstRow) % 8) + 1
  BY <1>1 DEF Damaged, Field
<1>4. PICK k, f : k = CourseOf(at) /\ f = ((at - FirstRow) % 8) + 1
  OBVIOUS
<1>5. k \in Nat /\ k >= 1 /\ f \in 1 .. 8 /\ at = 8 * k + f
  BY <1>2, <1>4, CourseField
<1>6. k \in 1 .. n + 1
  BY <1>2, <1>5
<1>7. damage.kind = "drop" =>
          /\ Shift = -1
          /\ f <= 4 => Resumed = Damaged + 1
          /\ f > 4 => Resumed = Damaged + 2
  BY <1>3, <1>4, <1>5 DEF Shift, Resumed
<1>8. damage.kind = "insert" =>
          /\ Shift = 1
          /\ f = 1 => Resumed = Damaged
          /\ f > 1 => Resumed = Damaged + 1
  BY <1>3, <1>4, <1>5 DEF Shift, Resumed
<1> QED BY <1>1, <1>3, <1>4, <1>5, <1>6, <1>7, <1>8

-----------------------------------------------------------------------------
(* Where the lines of the page are in the text. *)

\* A text t without line d of the page p, and one with the line l before it.
Without(p, d, t) ==
    /\ t \in Seq(Line) /\ Len(t) = Len(p) - 1
    /\ \A i \in 1 .. d - 1 : t[i] = p[i]
    /\ \A i \in d .. Len(p) - 1 : t[i] = p[i + 1]

With(p, d, l, t) ==
    /\ t \in Seq(Line) /\ Len(t) = Len(p) + 1
    /\ \A i \in 1 .. d - 1 : t[i] = p[i]
    /\ t[d] = l
    /\ \A i \in d .. Len(p) : t[i + 1] = p[i]

\* Dropping a line of a page.
LEMMA Removed ==
    ASSUME NEW p \in Seq(Line), NEW d \in 1 .. Len(p)
    PROVE  Without(p, d, RemoveAt(p, d))
<1>1. PICK n, s, r : n = Len(p) /\ s = SubSeq(p, 1, d - 1) /\ r = SubSeq(p, d + 1, n)
  OBVIOUS
<1>2. n \in Nat /\ d \in Nat /\ 1 <= d /\ d <= n
  BY <1>1
<1>3. s \in Seq(Line) /\ Len(s) = d - 1 /\ \A i \in 1 .. d - 1 : s[i] = p[i]
  BY <1>1, <1>2
<1>4. /\ r \in Seq(Line) /\ Len(r) = n - d
      /\ \A i \in 1 .. n - d : r[i] = p[d + i]
  BY <1>1, <1>2
<1>5. PICK t : t = s \o r
  OBVIOUS
<1>6. Joined(s, r, t)
  BY <1>3, <1>4, <1>5, TwoParts, Zenon
<1>7. /\ t \in Seq(Line) /\ Len(t) = n - 1
      /\ \A i \in 1 .. d - 1 : t[i] = p[i]
  BY <1>2, <1>3, <1>4, <1>6 DEF Joined
<1>8. ASSUME NEW i \in d .. n - 1
      PROVE  t[i] = p[i + 1]
  <2>1. PICK q \in 1 .. n - d : i = d - 1 + q
    BY <1>2
  <2>2. t[d - 1 + q] = r[q]
    BY <1>3, <1>4, <1>6 DEF Joined
  <2>3. r[q] = p[d + q] /\ i + 1 = d + q
    BY <1>2, <1>4, <2>1
  <2> QED BY <2>1, <2>2, <2>3
<1> QED BY <1>1, <1>5, <1>7, <1>8 DEF Without, RemoveAt

\* Inserting one.
LEMMA Inserted ==
    ASSUME NEW p \in Seq(Line), NEW d \in 1 .. Len(p) + 1, NEW l \in Line
    PROVE  With(p, d, l, InsertAt(p, d, l))
<1>1. PICK n, s, o, r :
          n = Len(p) /\ s = SubSeq(p, 1, d - 1) /\ o = <<l>> /\ r = SubSeq(p, d, n)
  OBVIOUS
<1>2. n \in Nat /\ d \in Nat /\ 1 <= d /\ d <= n + 1
  BY <1>1
<1>3. s \in Seq(Line) /\ Len(s) = d - 1 /\ \A i \in 1 .. d - 1 : s[i] = p[i]
  BY <1>1, <1>2
<1>4. /\ r \in Seq(Line) /\ Len(r) = n - d + 1
      /\ \A i \in 1 .. n - d + 1 : r[i] = p[d + i - 1]
  BY <1>1, <1>2
<1>5. o \in Seq(Line) /\ Len(o) = 1 /\ o[1] = l
  BY <1>1
<1>6. PICK so, t : so = s \o o /\ t = so \o r
  OBVIOUS
<1>7. Joined(s, o, so)
  BY <1>3, <1>5, <1>6, TwoParts, Zenon
<1>8. /\ so \in Seq(Line) /\ Len(so) = d
      /\ \A i \in 1 .. d - 1 : so[i] = p[i]
      /\ so[d] = l
  <2>1. /\ so \in Seq(Line) /\ Len(so) = Len(s) + Len(o)
        /\ \A i \in 1 .. Len(s) : so[i] = s[i]
        /\ so[Len(s) + 1] = o[1]
    BY <1>5, <1>7 DEF Joined
  <2> QED BY <1>2, <1>3, <1>5, <2>1
<1>9. Joined(so, r, t)
  BY <1>4, <1>6, <1>8, TwoParts, Zenon
<1>10. /\ t \in Seq(Line) /\ Len(t) = n + 1
       /\ \A i \in 1 .. d : t[i] = so[i]
       /\ \A q \in 1 .. n - d + 1 : t[d + q] = r[q]
  BY <1>2, <1>4, <1>8, <1>9 DEF Joined
<1>11. ASSUME NEW i \in d .. n
       PROVE  t[i + 1] = p[i]
  <2>1. PICK q \in 1 .. n - d + 1 : i = d + q - 1
    BY <1>2
  <2>2. t[d + q] = r[q] /\ r[q] = p[d + q - 1] /\ i + 1 = d + q
    BY <1>2, <1>4, <1>10, <2>1
  <2> QED BY <2>1, <2>2
<1>12. t[d] = l /\ \A i \in 1 .. d - 1 : t[i] = p[i]
  BY <1>2, <1>8, <1>10
<1>13. t = InsertAt(p, d, l)
  BY <1>1, <1>6 DEF InsertAt
<1> QED BY <1>1, <1>10, <1>11, <1>12, <1>13 DEF With

\* The text that the parser is given.
LEMMA TextGiven ==
    ASSUME Given
    PROVE  /\ Page \in Seq(Line) /\ Len(Page) = 15 + 8 * Len(plan)
           /\ text \in Seq(Line) /\ Len(text) \in Nat
           /\ damage.kind = "none" => text = Page
           /\ damage.kind = "drop" => Without(Page, damage.at, text)
           /\ damage.kind = "insert" => With(Page, damage.at, damage.line, text)
           /\ damage.kind = "cut" =>
                 /\ Len(text) = damage.at
                 /\ \A i \in 1 .. damage.at : text[i] = Page[i]
<1>1. PICK p, n, at : p = Page /\ n = Len(plan) /\ at = damage.at
  OBVIOUS
<1>2. /\ p \in Seq(Line) /\ Len(p) = 15 + 8 * n /\ n \in Nat /\ at \in Nat
  BY <1>1, PageTyped, PageLines, DamageTyped DEF Given
<1>3. text \in Seq(Line) /\ Len(text) \in Nat
  BY ExtractedTyped DEF Given
<1>4. damage.kind = "none" => text = p
  BY <1>1 DEF Given, Extracted
<1>5. ASSUME damage.kind = "drop"
      PROVE  Without(p, at, text)
  <2>1. at \in 1 .. Len(p)
    BY <1>1, <1>2, <1>5, DamageTyped DEF Given
  <2>2. text = RemoveAt(p, at)
    BY <1>1, <1>5 DEF Given, Extracted
  <2> QED BY <1>2, <2>1, <2>2, Removed
<1>6. ASSUME damage.kind = "insert"
      PROVE  With(p, at, damage.line, text)
  <2>1. at \in 1 .. Len(p) + 1 /\ damage.line \in Line
    <3>1. at \in 1 .. 16 + 8 * n /\ damage.line \in Stray
      BY <1>1, <1>6, DamageTyped DEF Given
    <3> QED BY <1>2, <3>1, Lines
  <2>2. text = InsertAt(p, at, damage.line)
    BY <1>1, <1>6 DEF Given, Extracted
  <2> QED BY <1>2, <2>1, <2>2, Inserted
<1>7. ASSUME damage.kind = "cut"
      PROVE  Len(text) = at /\ \A i \in 1 .. at : text[i] = p[i]
  <2>1. at \in 0 .. Len(p)
    BY <1>1, <1>2, <1>7, DamageTyped DEF Given
  <2>2. text = SubSeq(p, 1, at)
    BY <1>1, <1>7 DEF Given, Extracted
  <2> QED BY <1>2, <2>1, <2>2
<1> QED BY <1>1, <1>2, <1>3, <1>4, <1>5, <1>6, <1>7

\* The length of the text.
LEMMA TextLength ==
    ASSUME Given
    PROVE  /\ damage.kind = "none" => Len(text) = 15 + 8 * Len(plan)
           /\ damage.kind = "drop" => Len(text) = 14 + 8 * Len(plan)
           /\ damage.kind = "insert" => Len(text) = 16 + 8 * Len(plan)
           /\ damage.kind = "cut" => Len(text) = damage.at
           /\ Len(text) \in Nat /\ Len(plan) \in Nat
<1>1. PICK n : n = Len(plan)
  OBVIOUS
<1>2. n \in Nat /\ Len(Page) = 15 + 8 * n
  BY <1>1, TextGiven, DamageTyped DEF Given
<1> QED BY <1>1, <1>2, TextGiven DEF Without, With

\* A course before the damage is where it was printed.
LEMMA CourseBefore ==
    ASSUME Given, HeaderIntact, ~ InTop, NEW k \in 1 .. Len(plan), k < Damaged
    PROVE  /\ 8 * k + 8 <= Len(text)
           /\ \A f \in 1 .. 8 : text[8 * k + f] = Printed(k)[f]
<1>1. PICK n, at, d, p : n = Len(plan) /\ at = damage.at /\ d = Damaged /\ p = Page
  OBVIOUS
<1>2. /\ n \in Nat /\ at \in Nat /\ k \in Nat /\ 1 <= k /\ k <= n /\ k < d
      /\ plan \in Seq(Course) /\ damage \in Damages
      /\ damage.kind \in {"none", "drop", "cut", "insert"}
  BY <1>1, DamageTyped DEF Given
<1>3. /\ \A f \in 1 .. 8 : p[8 * k + f] = Printed(k)[f]
      /\ Len(p) = 15 + 8 * n
  BY <1>1, <1>2, PageLines
<1>4. CASE damage.kind = "none"
  <2>1. text = p
    BY <1>1, <1>4, TextGiven
  <2> QED BY <1>2, <1>3, <2>1
<1>5. CASE damage.kind = "cut"
  <2>1. d \in Nat /\ 8 * d <= at
    BY <1>1, <1>2, <1>5, CutAt
  <2>2. 8 * k + 8 <= at
    BY <1>2, <2>1
  <2>3. Len(text) = at /\ \A i \in 1 .. at : text[i] = p[i]
    BY <1>1, <1>5, TextGiven
  <2>4. \A f \in 1 .. 8 : 8 * k + f \in 1 .. at
    BY <1>2, <2>2
  <2> QED BY <1>3, <2>2, <2>3, <2>4
<1>6. CASE damage.kind \in {"drop", "insert"}
  <2>0. PICK r : r = Field
    OBVIOUS
  <2>1. r \in 1 .. 8 /\ at = 8 * d + r /\ d \in Nat
    BY <1>1, <1>2, <1>6, <2>0, RowAt
  <2>2. \A f \in 1 .. 8 : 8 * k + f \in 1 .. at - 1
    BY <1>2, <2>1
  <2>3. \A i \in 1 .. at - 1 : text[i] = p[i]
    BY <1>1, <1>6, TextGiven DEF Without, With
  <2>4. Len(text) \in Nat /\ Len(text) >= 14 + 8 * n
    <3>1. damage.kind = "drop" \/ damage.kind = "insert"
      BY <1>6
    <3>2. Len(text) = 14 + 8 * n \/ Len(text) = 16 + 8 * n
      BY <1>1, <3>1, TextLength
    <3> QED BY <1>2, <3>2
  <2>5. 8 * k + 8 <= Len(text)
    BY <1>2, <2>4
  <2> QED BY <1>3, <2>2, <2>3, <2>5
<1> QED BY <1>2, <1>4, <1>5, <1>6

\* A course behind the damage has moved by a line.
LEMMA CourseAfter ==
    ASSUME Given, HeaderIntact, damage.kind \in {"drop", "insert"},
           NEW k \in 1 .. Len(plan), Resumed <= k
    PROVE  /\ 8 * k + 8 + Shift <= Len(text)
           /\ \A f \in 1 .. 8 : text[8 * k + f + Shift] = Printed(k)[f]
<1>1. PICK n, at, p, s : n = Len(plan) /\ at = damage.at /\ p = Page /\ s = Shift
  OBVIOUS
<1>2. /\ n \in Nat /\ at \in Nat /\ k \in Nat /\ 1 <= k /\ k <= n
      /\ plan \in Seq(Course) /\ damage \in Damages
  BY <1>1, DamageTyped DEF Given
<1>3. /\ \A f \in 1 .. 8 : p[8 * k + f] = Printed(k)[f]
      /\ Len(p) = 15 + 8 * n
  BY <1>1, <1>2, PageLines
<1>4. CASE damage.kind = "drop"
  <2>1. at <= 8 * k /\ s = -1
    <3>1. CASE InTop
      <4>1. at = 1 /\ s = -1
        BY <1>1, <1>2, <1>4, <3>1, TopAt
      <4> QED BY <1>2, <4>1
    <3>2. CASE ~ InTop
      <4>1. PICK d, r : d = Damaged /\ r = Field
        OBVIOUS
      <4>2. /\ d \in Nat /\ r \in 1 .. 8 /\ at = 8 * d + r /\ s = -1
            /\ Resumed = d + 1 \/ Resumed = d + 2
        BY <1>1, <1>2, <1>4, <3>2, <4>1, RowAt
      <4>3. d + 1 <= k
        BY <1>2, <4>2
      <4> QED BY <1>2, <4>2, <4>3
    <3> QED BY <3>1, <3>2
  <2>2. /\ Len(text) = 14 + 8 * n
        /\ \A i \in at .. 14 + 8 * n : text[i] = p[i + 1]
    BY <1>1, <1>2, <1>3, <1>4, TextGiven, TextLength DEF Without
  <2>3. ASSUME NEW f \in 1 .. 8
        PROVE  text[8 * k + f + s] = Printed(k)[f]
    <3>1. PICK i : i = 8 * k + f - 1
      OBVIOUS
    <3>2. i \in at .. 14 + 8 * n /\ i + 1 = 8 * k + f /\ 8 * k + f + s = i
      BY <1>2, <2>1, <3>1
    <3> QED BY <1>3, <2>2, <3>2
  <2>4. 8 * k + 8 + s <= Len(text)
    BY <1>2, <2>1, <2>2
  <2> QED BY <1>1, <2>3, <2>4
<1>5. CASE damage.kind = "insert"
  <2>1. at <= 8 * k + 1 /\ s = 1
    <3>1. CASE InTop
      <4>1. at \in {1, 2} /\ s = 1
        BY <1>1, <1>2, <1>5, <3>1, TopAt
      <4> QED BY <1>2, <4>1
    <3>2. CASE ~ InTop
      <4>1. PICK d, r : d = Damaged /\ r = Field
        OBVIOUS
      <4>2. /\ d \in Nat /\ r \in 1 .. 8 /\ at = 8 * d + r /\ s = 1
            /\ r = 1 => Resumed = d
            /\ r > 1 => Resumed = d + 1
        BY <1>1, <1>2, <1>5, <3>2, <4>1, RowAt
      <4>3. (r = 1 /\ d <= k) \/ d + 1 <= k
        BY <1>2, <4>2
      <4> QED BY <1>2, <4>2, <4>3
    <3> QED BY <3>1, <3>2
  <2>2. /\ Len(text) = 16 + 8 * n
        /\ \A i \in at .. 15 + 8 * n : text[i + 1] = p[i]
    BY <1>1, <1>2, <1>3, <1>5, TextGiven, TextLength DEF With
  <2>3. ASSUME NEW f \in 1 .. 8
        PROVE  text[8 * k + f + s] = Printed(k)[f]
    <3>1. PICK i : i = 8 * k + f
      OBVIOUS
    <3>2. i \in at .. 15 + 8 * n /\ 8 * k + f + s = i + 1
      BY <1>2, <2>1, <3>1
    <3> QED BY <1>3, <2>2, <3>1, <3>2
  <2>4. 8 * k + 8 + s <= Len(text)
    BY <1>2, <2>1, <2>2
  <2> QED BY <1>1, <2>3, <2>4
<1> QED BY <1>4, <1>5

-----------------------------------------------------------------------------
(* What the walk makes of the line that it is at. *)

\* A line that the walk passes: eight lines are left, but it does not begin a
\* course, and only the name of a disturbed course ends the walk.
Lost(i) ==
    /\ Fits(i)
    /\ text[i].kind # "blank"
    /\ ~ (text[i].kind = "number" /\ IsCredits(text[i + 3]))
    /\ text[i].kind = "end" => EndingName

\* It passes such a line alone.
LEMMA LostStep ==
    ASSUME TypeOK, Lost(index)
    PROVE  Here = index /\ ~ AtCourse /\ (AtEnd => EndingName)
<1>1. index \in Nat /\ Len(text) \in Nat
  BY WalkTyped
<1>2. index <= Len(text)
  BY <1>1 DEF Lost, Fits
<1>3. Here = index
  BY <1>1, <1>2, LeastHere DEF Lost
<1> QED BY <1>3 DEF Lost, AtCourse, AtEnd

\* A blank line is passed together with the next one.
LEMMA BlankStep ==
    ASSUME TypeOK, index + 1 <= Len(text), text[index + 1].kind # "blank",
           text[index].kind = "blank"
    PROVE  Here = index + 1
<1> DEFINE S == {i \in index .. Len(text) + 1 :
                   i = Len(text) + 1 \/ text[i].kind # "blank"}
<1>1. index \in Nat /\ Len(text) \in Nat /\ index + 1 # index
  BY WalkTyped
<1>2. S \in SUBSET Nat /\ index + 1 \in S /\ index \notin S /\ \A i \in S : index <= i
  BY <1>1
<1>3. Min(S) \in S /\ Min(S) <= index + 1 /\ Min(S) \in Nat
  <2> HIDE DEF S
  <2> QED BY <1>2, LeastIndex
<1>4. Min(S) = index + 1
  <2> HIDE DEF S
  <2> QED BY <1>1, <1>2, <1>3
<1> QED BY <1>4 DEF Here

\* Seven lines are no course.
LEMMA ShortStep ==
    ASSUME TypeOK, index + 7 > Len(text)
    PROVE  AtEnd
<1>1. index \in Nat /\ Len(text) \in Nat /\ Here \in index .. Len(text) + 1
  BY WalkTyped, HereTyped
<1> QED BY <1>1 DEF AtEnd, Fits

\* The kinds of the fields.
LEMMA FieldKinds ==
    ASSUME Given, NEW k \in 1 .. Len(plan)
    PROVE  /\ Printed(k)[1].kind = "number"
           /\ Printed(k)[4].kind \in {"number", "spaced"}
           /\ Printed(k)[3].kind = plan[k].name /\ plan[k].name \in {"text", "end"}
           /\ \A f \in {2, 5, 6, 7, 8} : Printed(k)[f].kind = "text"
<1>1. plan[k] \in Course
  BY DEF Given
<1>2. plan[k].credits.kind \in {"number", "spaced"} /\ plan[k].name \in {"text", "end"}
  BY <1>1, ParserAssumption DEF Course
<1>3. Printed(k)[1].kind = "number" /\ Printed(k)[4] = plan[k].credits
  BY DEF Printed, Number
<1>4. Printed(k)[3].kind = plan[k].name
  BY DEF Printed
<1>5. \A f \in {2, 5, 6, 7, 8} : Printed(k)[f].kind = "text"
  <2> SUFFICES ASSUME NEW f \in {2, 5, 6, 7, 8}
               PROVE  Printed(k)[f].kind = "text"
    OBVIOUS
  <2>1. f \in 1 .. 8 /\ f # 1 /\ f # 3 /\ f # 4
    OBVIOUS
  <2>2. Printed(k)[f] = Text(10 * k + f)
    BY <2>1 DEF Printed
  <2> QED BY <2>2 DEF Text
<1> QED BY <1>2, <1>3, <1>4, <1>5

\* Fields that are not taken for credits.
LEMMA NoCredits ==
    ASSUME Given, NEW k \in 1 .. Len(plan), NEW f \in {2, 3, 5, 6, 7, 8},
           NEW line, line = Printed(k)[f]
    PROVE  ~ IsCredits(line)
<1>1. line.kind \in {"text", "end"}
  BY FieldKinds
<1> QED BY <1>1 DEF IsCredits

\* Where eight lines hold a number and credits in their places, a course is read.
LEMMA CourseStep ==
    ASSUME Given, TypeOK, Fits(index), text[index].kind = "number",
           IsCredits(text[index + 3])
    PROVE  Here = index /\ ~ AtEnd /\ AtCourse
<1>1. index \in Nat /\ Len(text) \in Nat
  BY WalkTyped
<1>2. Here = index
  BY <1>1, LeastHere DEF Fits
<1> QED BY <1>2 DEF AtEnd, AtCourse

\* So it is with the fields of a course of the plan.
LEMMA PrintedStep ==
    ASSUME Given, TypeOK, NEW k \in 1 .. Len(plan), Fits(index),
           text[index] = Printed(k)[1], text[index + 3] = Printed(k)[4]
    PROVE  Here = index /\ ~ AtEnd /\ AtCourse
<1>1. text[index].kind = "number" /\ IsCredits(text[index + 3])
  BY FieldKinds DEF IsCredits
<1> QED BY <1>1, CourseStep

\* When a field is passed.
LEMMA FieldLost ==
    ASSUME Given, NEW k \in 1 .. Len(plan), NEW f \in 1 .. 8, NEW i, Fits(i),
           text[i] = Printed(k)[f],
           f \in {1, 4} => ~ IsCredits(text[i + 3]),
           f = 3 => k \in Disturbed
    PROVE  Lost(i)
<1>1. DOMAIN plan = 1 .. Len(plan)
  BY DamageTyped DEF Given
<1>2. CASE f \in {1, 4}
  <2>1. text[i].kind \in {"number", "spaced"}
    BY <1>2, FieldKinds
  <2> QED BY <1>2, <2>1 DEF Lost
<1>3. CASE f = 3
  <2>1. text[i].kind = plan[k].name /\ plan[k].name \in {"text", "end"}
    BY <1>3, FieldKinds
  <2>2. plan[k].name = "end" => EndingName
    BY <1>1, <1>3 DEF EndingName
  <2> QED BY <2>1, <2>2 DEF Lost
<1>4. CASE f \in {2, 5, 6, 7, 8}
  <2>1. text[i].kind = "text"
    BY <1>4, FieldKinds
  <2> QED BY <2>1 DEF Lost
<1> QED BY <1>2, <1>3, <1>4

\* The courses that a damage disturbs.
LEMMA DisturbedIs ==
    ASSUME Given, HeaderIntact
    PROVE  /\ damage.kind = "none" \/ InTop => Disturbed = {}
           /\ damage.kind = "cut" => Disturbed = Damaged .. Len(plan)
           /\ damage.kind = "drop" /\ ~ InTop => Disturbed = {Damaged, Damaged + 1}
           /\ damage.kind = "insert" /\ ~ InTop =>
                 Disturbed = IF Field = 1 THEN {} ELSE {Damaged}
<1>1. plan \in Seq(Course) /\ damage \in Damages
  BY DEF Given
<1>2. damage.kind = "none" => Disturbed = {}
  BY DEF Disturbed
<1>3. ASSUME InTop
      PROVE  Disturbed = {}
  <2>1. damage.at \in {1, 2}
    BY <1>1, <1>3, TopAt
  <2>2. damage.at < FirstRow - 1
    BY <2>1, RowNine
  <2> QED BY <2>2 DEF Disturbed
<1>4. ASSUME damage.kind = "cut"
      PROVE  Disturbed = Damaged .. Len(plan)
  <2>1. damage.at \in Nat /\ damage.at >= 8
    BY <1>1, <1>4, RowNine, DamageTyped DEF HeaderIntact
  <2>2. ~ (damage.kind = "none" \/ damage.at < FirstRow - 1)
    BY <1>4, <2>1, RowNine
  <2>3. Damaged = CourseOf(damage.at + 1)
    BY <1>4 DEF Damaged, InTop
  <2> QED BY <1>4, <2>2, <2>3 DEF Disturbed
<1>5. ASSUME damage.kind \in {"drop", "insert"}, ~ InTop
      PROVE  /\ Damaged = CourseOf(damage.at)
             /\ ~ (damage.kind = "none" \/ damage.at < FirstRow - 1)
  <2>1. damage.at \in Nat /\ damage.at >= 9
    BY <1>1, <1>5, RowNine, DamageTyped DEF InTop
  <2>2. ~ (damage.kind = "none" \/ damage.at < FirstRow - 1)
    BY <1>5, <2>1, RowNine
  <2> QED BY <1>5, <2>2 DEF Damaged
<1>6. ASSUME damage.kind = "drop", ~ InTop
      PROVE  Disturbed = {Damaged, Damaged + 1}
  BY <1>5, <1>6 DEF Disturbed
<1>7. ASSUME damage.kind = "insert", ~ InTop
      PROVE  Disturbed = IF Field = 1 THEN {} ELSE {Damaged}
  <2>1. (Field = 1) = ((damage.at - FirstRow) % 8 = 0)
    <3>1. PICK r : r = (damage.at - FirstRow) % 8
      OBVIOUS
    <3>2. r \in 0 .. 7
      <4>1. damage.at \in Nat
        BY <1>1, DamageTyped
      <4> QED BY <3>1, <4>1, RowNine
    <3> QED BY <3>1, <3>2 DEF Field
  <2> QED BY <1>5, <1>7, <2>1 DEF Disturbed
<1> QED BY <1>2, <1>3, <1>4, <1>6, <1>7

-----------------------------------------------------------------------------
(* A course that has lost a line. *)

\* The lines that are left of it, and those of the next one.
LEMMA DropLines ==
    ASSUME Given, damage.kind = "drop", ~ InTop, Damaged <= Len(plan)
    PROVE  /\ Len(text) = 14 + 8 * Len(plan)
           /\ \A f \in 1 .. 8 :
                 /\ f < Field => text[8 * Damaged + f] = Printed(Damaged)[f]
                 /\ f > Field => text[8 * Damaged + f - 1] = Printed(Damaged)[f]
                 /\ Damaged < Len(plan) =>
                       text[8 * Damaged + 7 + f] = Printed(Damaged + 1)[f]
<1>1. PICK n, at, d, r, p :
          n = Len(plan) /\ at = damage.at /\ d = Damaged /\ r = Field /\ p = Page
  OBVIOUS
<1>2. /\ n \in Nat /\ d \in 1 .. n /\ r \in 1 .. 8 /\ at = 8 * d + r
      /\ plan \in Seq(Course)
  BY <1>1, RowAt, DamageTyped DEF Given
<1>3. /\ \A k \in 1 .. n, f \in 1 .. 8 : p[8 * k + f] = Printed(k)[f]
      /\ Len(p) = 15 + 8 * n
  BY <1>1, <1>2, PageLines
<1>4. /\ Len(text) = 14 + 8 * n
      /\ \A i \in 1 .. at - 1 : text[i] = p[i]
      /\ \A i \in at .. 14 + 8 * n : text[i] = p[i + 1]
  BY <1>1, <1>2, <1>3, TextGiven, TextLength DEF Without
<1>5. ASSUME NEW f \in 1 .. 8, f < r
      PROVE  text[8 * d + f] = Printed(d)[f]
  <2>1. 8 * d + f \in 1 .. at - 1
    BY <1>2, <1>5
  <2> QED BY <1>2, <1>3, <1>4, <2>1
<1>6. ASSUME NEW f \in 1 .. 8, f > r
      PROVE  text[8 * d + f - 1] = Printed(d)[f]
  <2>1. PICK i : i = 8 * d + f - 1
    OBVIOUS
  <2>2. i \in at .. 14 + 8 * n /\ i + 1 = 8 * d + f
    BY <1>2, <1>6, <2>1
  <2>3. text[i] = p[i + 1]
    BY <1>4, <2>2
  <2>4. p[8 * d + f] = Printed(d)[f]
    BY <1>2, <1>3
  <2> QED BY <2>1, <2>2, <2>3, <2>4
<1>7. ASSUME NEW f \in 1 .. 8, d < n
      PROVE  text[8 * d + 7 + f] = Printed(d + 1)[f]
  <2>1. PICK i : i = 8 * d + 7 + f
    OBVIOUS
  <2>2. i \in at .. 14 + 8 * n /\ i + 1 = 8 * (d + 1) + f /\ d + 1 \in 1 .. n
    BY <1>2, <1>7, <2>1
  <2>3. text[i] = p[i + 1]
    BY <1>4, <2>2
  <2>4. p[8 * (d + 1) + f] = Printed(d + 1)[f]
    BY <1>3, <2>2
  <2> QED BY <2>1, <2>2, <2>3, <2>4
<1> QED BY <1>1, <1>4, <1>5, <1>6, <1>7

\* Without one of its first four lines no course is read; without one of the
\* others a course is, and the next one is not.
LEMMA DropLost ==
    ASSUME Given, HeaderIntact, damage.kind = "drop", ~ InTop, Damaged <= Len(plan)
    PROVE  /\ Field <= 4 => \A i \in 1 .. 7 : Lost(8 * Damaged + i)
           /\ Field > 4 =>
                 /\ Fits(8 * Damaged + 1)
                 /\ text[8 * Damaged + 1] = Printed(Damaged)[1]
                 /\ text[8 * Damaged + 4] = Printed(Damaged)[4]
           /\ Field > 4 /\ Damaged < Len(plan) =>
                 \A i \in 9 .. 15 : Lost(8 * Damaged + i)
<1>1. PICK n, d, r : n = Len(plan) /\ d = Damaged /\ r = Field
  OBVIOUS
<1>2. n \in Nat /\ d \in Nat /\ 1 <= d /\ d <= n /\ d \in 1 .. Len(plan) /\ r \in 1 .. 8
  <2>1. n \in Nat /\ d \in 1 .. n + 1 /\ d <= n /\ r \in 1 .. 8
    BY <1>1, RowAt, DamageTyped DEF Given
  <2> QED BY <1>1, <2>1
<1>3. /\ Len(text) = 14 + 8 * n
      /\ \A f \in 1 .. 8 : f < r => text[8 * d + f] = Printed(d)[f]
      /\ \A f \in 1 .. 8 : f > r => text[8 * d + f - 1] = Printed(d)[f]
      /\ d < n => \A f \in 1 .. 8 : text[8 * d + 7 + f] = Printed(d + 1)[f]
  BY <1>1, DropLines
<1>4. d \in Disturbed /\ d + 1 \in Disturbed
  BY <1>1, DisturbedIs
<1>5. ASSUME NEW i \in 1 .. 7, r <= 4
      PROVE  Lost(8 * d + i)
  <2>1. Fits(8 * d + i)
    <3>1. 8 * d + i + 7 <= 14 + 8 * n
      BY <1>2
    <3> QED BY <1>3, <3>1 DEF Fits
  <2>2. CASE i < r
    <3>0. i \in 1 .. 8 /\ i # 4
      BY <1>2, <1>5, <2>2
    <3>1. i \in 1 .. 8 /\ i # 4 /\ text[8 * d + i] = Printed(d)[i]
      BY <1>3, <2>2, <3>0
    <3>2. ASSUME i = 1
          PROVE  ~ IsCredits(text[8 * d + i + 3])
      <4>1. 5 > r /\ 8 * d + i + 3 = 8 * d + 5 - 1
        BY <1>2, <1>5, <3>2
      <4>2. text[8 * d + 5 - 1] = Printed(d)[5]
        BY <1>3, <4>1
      <4> QED BY <1>2, <4>1, <4>2, NoCredits
    <3>3. i \in {1, 4} => ~ IsCredits(text[8 * d + i + 3])
      BY <3>1, <3>2
    <3> QED BY <1>2, <1>4, <2>1, <3>1, <3>3, FieldLost
  <2>3. CASE ~ (i < r)
    <3>1. /\ i + 1 \in 1 .. 8 /\ i + 1 # 1 /\ i + 1 > r
          /\ 8 * d + (i + 1) - 1 = 8 * d + i
      BY <1>2, <2>3
    <3>2. text[8 * d + i] = Printed(d)[i + 1]
      BY <1>3, <3>1
    <3>3. ASSUME i + 1 = 4
          PROVE  ~ IsCredits(text[8 * d + i + 3])
      <4>1. 7 > r /\ 8 * d + i + 3 = 8 * d + 7 - 1
        BY <1>2, <1>5, <3>3
      <4>2. text[8 * d + 7 - 1] = Printed(d)[7]
        BY <1>3, <4>1
      <4> QED BY <1>2, <4>1, <4>2, NoCredits
    <3>4. PICK f, j : f \in 1 .. 8 /\ f = i + 1 /\ j = 8 * d + i
      BY <3>1
    <3>5. /\ text[j] = Printed(d)[f]
          /\ f \in {1, 4} => ~ IsCredits(text[j + 3])
      BY <3>1, <3>2, <3>3, <3>4
    <3> QED BY <1>2, <1>4, <2>1, <3>4, <3>5, FieldLost
  <2> QED BY <2>2, <2>3
<1>6. ASSUME r > 4
      PROVE  /\ Fits(8 * d + 1)
             /\ text[8 * d + 1] = Printed(d)[1] /\ text[8 * d + 4] = Printed(d)[4]
  <2>1. Fits(8 * d + 1)
    BY <1>2, <1>3 DEF Fits
  <2>2. 1 < r /\ 4 < r
    BY <1>2, <1>6
  <2> QED BY <1>3, <2>1, <2>2
<1>7. ASSUME d < n, NEW i \in 9 .. 15
      PROVE  Lost(8 * d + i)
  <2>1. PICK f, j : f = i - 7 /\ j = 8 * d + i
    OBVIOUS
  <2>2. /\ f \in 2 .. 8 /\ f \in 1 .. 8 /\ j = 8 * d + 7 + f
        /\ d + 1 \in 1 .. Len(plan)
    BY <1>1, <1>2, <1>7, <2>1
  <2>3. text[j] = Printed(d + 1)[f]
    BY <1>3, <1>7, <2>2
  <2>4. Fits(j)
    BY <1>2, <1>3, <1>7, <2>1 DEF Fits
  <2>5. ASSUME f = 4
        PROVE  ~ IsCredits(text[j + 3])
    <3>1. j + 3 = 8 * d + 7 + 7
      BY <1>2, <2>2, <2>5
    <3>2. text[8 * d + 7 + 7] = Printed(d + 1)[7]
      BY <1>3, <1>7
    <3> QED BY <2>2, <3>1, <3>2, NoCredits
  <2>6. f \in {1, 4} => ~ IsCredits(text[j + 3])
    BY <2>2, <2>5
  <2>7. PICK k \in 1 .. Len(plan) : k = d + 1
    BY <2>2
  <2> QED BY <1>4, <2>1, <2>2, <2>3, <2>4, <2>6, <2>7, FieldLost
<1> QED BY <1>1, <1>5, <1>6, <1>7

-----------------------------------------------------------------------------
(* A course with a line too many. *)

\* Its lines, and the stray one among them.
LEMMA InsertLines ==
    ASSUME Given, damage.kind = "insert", ~ InTop, Damaged <= Len(plan)
    PROVE  /\ Len(text) = 16 + 8 * Len(plan)
           /\ text[8 * Damaged + Field] = damage.line
           /\ damage.line.kind \in {"blank", "text", "number"}
           /\ \A f \in 1 .. 8 :
                 /\ f < Field => text[8 * Damaged + f] = Printed(Damaged)[f]
                 /\ f >= Field => text[8 * Damaged + f + 1] = Printed(Damaged)[f]
<1>1. PICK n, at, d, r, p :
          n = Len(plan) /\ at = damage.at /\ d = Damaged /\ r = Field /\ p = Page
  OBVIOUS
<1>2. /\ n \in Nat /\ d \in 1 .. n /\ r \in 1 .. 8 /\ at = 8 * d + r
      /\ plan \in Seq(Course) /\ damage.line \in Stray
  BY <1>1, RowAt, DamageTyped DEF Given
<1>3. /\ \A k \in 1 .. n, f \in 1 .. 8 : p[8 * k + f] = Printed(k)[f]
      /\ Len(p) = 15 + 8 * n
  BY <1>1, <1>2, PageLines
<1>4. /\ Len(text) = 16 + 8 * n
      /\ text[at] = damage.line
      /\ \A i \in 1 .. at - 1 : text[i] = p[i]
      /\ \A i \in at .. 15 + 8 * n : text[i + 1] = p[i]
  BY <1>1, <1>2, <1>3, TextGiven, TextLength DEF With
<1>5. ASSUME NEW f \in 1 .. 8, f < r
      PROVE  text[8 * d + f] = Printed(d)[f]
  <2>1. 8 * d + f \in 1 .. at - 1
    BY <1>2, <1>5
  <2> QED BY <1>2, <1>3, <1>4, <2>1
<1>6. ASSUME NEW f \in 1 .. 8, f >= r
      PROVE  text[8 * d + f + 1] = Printed(d)[f]
  <2>1. PICK i : i = 8 * d + f
    OBVIOUS
  <2>2. i \in at .. 15 + 8 * n
    BY <1>2, <1>6, <2>1
  <2> QED BY <1>2, <1>3, <1>4, <2>1, <2>2
<1>7. damage.line.kind \in {"blank", "text", "number"}
  BY <1>2, ParserAssumption
<1> QED BY <1>1, <1>2, <1>4, <1>5, <1>6, <1>7

\* A line that is inserted behind the credits is in a course that is read; the
\* line at its end is passed.  One inserted before them makes all lines be
\* passed, but for a number in the right place.
LEMMA InsertLost ==
    ASSUME Given, HeaderIntact, damage.kind = "insert", ~ InTop,
           Damaged <= Len(plan), Field > 1
    PROVE  /\ Field <= 4 =>
                 \A i \in 1 .. 9 : i # Field /\ ~ (Field = 4 /\ i = 1) =>
                                     Lost(8 * Damaged + i)
           /\ Field > 3 => Lost(8 * Damaged + 9)
           /\ Field > 4 =>
                 /\ text[8 * Damaged + 1] = Printed(Damaged)[1]
                 /\ text[8 * Damaged + 4] = Printed(Damaged)[4]
<1>1. PICK n, d, r : n = Len(plan) /\ d = Damaged /\ r = Field
  OBVIOUS
<1>2. n \in Nat /\ d \in Nat /\ 1 <= d /\ d <= n /\ d \in 1 .. Len(plan) /\ r \in 2 .. 8
  <2>1. n \in Nat /\ d \in 1 .. n + 1 /\ d <= n /\ r \in 1 .. 8 /\ r > 1
    BY <1>1, RowAt, DamageTyped DEF Given
  <2> QED BY <1>1, <2>1
<1>3. /\ Len(text) = 16 + 8 * n
      /\ \A f \in 1 .. 8 : f < r => text[8 * d + f] = Printed(d)[f]
      /\ \A f \in 1 .. 8 : f >= r => text[8 * d + f + 1] = Printed(d)[f]
  BY <1>1, InsertLines
<1>4. d \in Disturbed
  <2>1. Disturbed = IF r = 1 THEN {} ELSE {d}
    BY <1>1, DisturbedIs
  <2> QED BY <1>2, <2>1
<1>5. ASSUME NEW i \in 1 .. 9, i # r, ~ (r = 4 /\ i = 1), r <= 4 \/ i = 9
      PROVE  Lost(8 * d + i)
  <2>1. Fits(8 * d + i)
    <3>1. 8 * d + i + 7 <= 16 + 8 * n
      BY <1>2
    <3> QED BY <1>3, <3>1 DEF Fits
  <2>2. CASE i < r
    <3>0. i \in 1 .. 8 /\ i # 4
      BY <1>2, <1>5, <2>2
    <3>1. i \in 1 .. 8 /\ i # 4 /\ text[8 * d + i] = Printed(d)[i]
      BY <1>3, <2>2, <3>0
    <3>2. ASSUME i = 1
          PROVE  ~ IsCredits(text[8 * d + i + 3])
      <4>1. 3 >= r /\ 8 * d + i + 3 = 8 * d + 3 + 1
        BY <1>2, <1>5, <3>2
      <4>2. text[8 * d + 3 + 1] = Printed(d)[3]
        BY <1>3, <4>1
      <4> QED BY <1>2, <4>1, <4>2, NoCredits
    <3>3. i \in {1, 4} => ~ IsCredits(text[8 * d + i + 3])
      BY <3>1, <3>2
    <3> QED BY <1>2, <1>4, <2>1, <3>1, <3>3, FieldLost
  <2>3. CASE i > r
    <3>1. PICK f, j : f = i - 1 /\ j = 8 * d + i
      OBVIOUS
    <3>2. /\ f \in 2 .. 8 /\ f \in 1 .. 8 /\ f >= r /\ j = 8 * d + f + 1
      BY <1>2, <2>3, <3>1
    <3>3. text[j] = Printed(d)[f]
      BY <1>3, <3>2
    <3>4. ASSUME f = 4
          PROVE  ~ IsCredits(text[j + 3])
      <4>1. 7 >= r /\ j + 3 = 8 * d + 7 + 1
        BY <1>2, <1>5, <3>1, <3>2, <3>4
      <4>2. text[8 * d + 7 + 1] = Printed(d)[7]
        BY <1>3, <4>1
      <4> QED BY <1>2, <4>1, <4>2, NoCredits
    <3>5. f \in {1, 4} => ~ IsCredits(text[j + 3])
      BY <3>2, <3>4
    <3> QED BY <1>2, <1>4, <2>1, <3>1, <3>2, <3>3, <3>5, FieldLost
  <2> QED BY <1>2, <1>5, <2>2, <2>3
<1>6. r > 3 => Lost(8 * d + 9)
  BY <1>2, <1>5
<1>7. ASSUME r > 4
      PROVE  text[8 * d + 1] = Printed(d)[1] /\ text[8 * d + 4] = Printed(d)[4]
  BY <1>2, <1>3, <1>7
<1> QED BY <1>1, <1>5, <1>6, <1>7

-----------------------------------------------------------------------------
(* How the courses found grow. *)

\* What one more course changes.
LEMMA Appended ==
    ASSUME TypeOK, NEW x \in Nat
    PROVE  /\ Len(Append(found, x)) = Len(found) + 1
           /\ \A m \in 1 .. Len(found) : Append(found, x)[m] = found[m]
           /\ Append(found, x)[Len(found) + 1] = x
           /\ Len(found) \in Nat
<1>1. PICK n : n = Len(text)
  OBVIOUS
<1>2. n \in Nat /\ found \in Seq(1 .. n)
  BY <1>1, WalkTyped
<1> QED BY <1>2

\* By a course before the damaged one.
LEMMA OnPlanGrows ==
    ASSUME TypeOK, Damaged \in Nat, Len(found) + 1 < Damaged, NEW x \in Nat,
           OnPlan(found, x)
    PROVE  OnPlan(Append(found, x), x + 8)
<1>1. PICK d, l, fd : d = Damaged /\ l = Len(found) /\ fd = Append(found, x)
  OBVIOUS
<1>2. /\ l \in Nat /\ Len(fd) = l + 1 /\ fd[l + 1] = x
      /\ \A m \in 1 .. l : fd[m] = found[m]
  BY <1>1, Appended
<1>3. /\ ~ InTop /\ x = 8 * (l + 1) + 1
      /\ \A m \in 1 .. l : found[m] = 8 * m + 1
  BY <1>1 DEF OnPlan, Before
<1>4. \A m \in 1 .. l + 1 : fd[m] = 8 * m + 1
  <2>1. \A m \in 1 .. l + 1 : m \in 1 .. l \/ m = l + 1
    BY <1>2
  <2> QED BY <1>2, <1>3, <2>1, Zenon
<1>5. x + 8 = 8 * (Len(fd) + 1) + 1 /\ Len(fd) < d
  BY <1>1, <1>2, <1>3
<1> QED BY <1>1, <1>2, <1>3, <1>4, <1>5 DEF OnPlan, Before

\* Before the damaged course.
LEMMA OnPlanLayout ==
    ASSUME TypeOK, Damaged \in Nat, Len(found) + 1 = Damaged, NEW x, OnPlan(found, x)
    PROVE  Layout(found, 0, 0)
<1>1. PICK d, l : d = Damaged /\ l = Len(found)
  OBVIOUS
<1>2. l \in Nat /\ d = l + 1 /\ \A m \in 1 .. l : found[m] = Before(m)
  BY <1>1, WalkTyped DEF OnPlan
<1>3. l = d - 1 + 0 + 0 /\ d - 1 = l
  BY <1>2
<1> QED BY <1>1, <1>2, <1>3 DEF Layout

\* By a course of damaged lines.
LEMMA AcrossGrows ==
    ASSUME TypeOK, Damaged \in Nat, 1 <= Damaged, Damaged <= Len(plan),
           Damaged < Resumed, NEW x \in Nat, Layout(found, 0, 0)
    PROVE  Layout(Append(found, x), 1, 0)
<1>1. PICK d, l, fd : d = Damaged /\ l = Len(found) /\ fd = Append(found, x)
  OBVIOUS
<1>2. /\ l \in Nat /\ Len(fd) = l + 1
      /\ \A m \in 1 .. l : fd[m] = found[m]
  BY <1>1, Appended
<1>3. l = d - 1 + 0 + 0 /\ \A m \in 1 .. d - 1 : found[m] = Before(m)
  BY <1>1 DEF Layout
<1>4. d \in Nat /\ l = d - 1
  BY <1>1, <1>3
<1>5. Len(fd) = d - 1 + 1 + 0 /\ \A m \in 1 .. d - 1 : fd[m] = Before(m)
  BY <1>2, <1>3, <1>4
<1> QED BY <1>1, <1>5 DEF Layout

\* By a course behind the damage.
LEMMA AfterGrows ==
    ASSUME TypeOK, Damaged \in Nat, 1 <= Damaged, Resumed \in Nat, Len(plan) \in Nat,
           NEW u \in {0, 1}, NEW c \in Nat, Layout(found, u, c),
           Resumed + c <= Len(plan), NEW x \in Nat, x = After(Resumed + c)
    PROVE  Layout(Append(found, x), u, c + 1)
<1>1. PICK d, r, l, fd :
          d = Damaged /\ r = Resumed /\ l = Len(found) /\ fd = Append(found, x)
  OBVIOUS
<1>2. /\ l \in Nat /\ Len(fd) = l + 1 /\ fd[l + 1] = x
      /\ \A m \in 1 .. l : fd[m] = found[m]
  BY <1>1, Appended
<1>3. /\ l = d - 1 + u + c
      /\ \A m \in 1 .. d - 1 : found[m] = Before(m)
      /\ \A i \in 1 .. c : found[d - 1 + u + i] = After(r + i - 1)
      /\ u = 1 => d <= Len(plan) /\ d < r
  BY <1>1, Zenon DEF Layout
<1>4. d \in Nat /\ 1 <= d /\ u \in Nat
  BY <1>1
<1>5. Len(fd) = d - 1 + u + (c + 1)
  BY <1>2, <1>3, <1>4
<1>6. \A m \in 1 .. d - 1 : fd[m] = Before(m)
  <2>1. \A m \in 1 .. d - 1 : m \in 1 .. l
    BY <1>3, <1>4
  <2> QED BY <1>2, <1>3, <2>1
<1>7. ASSUME NEW i \in 1 .. c + 1
      PROVE  fd[d - 1 + u + i] = After(r + i - 1)
  <2>1. CASE i = c + 1
    <3>1. d - 1 + u + i = l + 1 /\ r + i - 1 = r + c
      BY <1>1, <1>3, <1>4, <2>1
    <3> QED BY <1>1, <1>2, <3>1
  <2>2. CASE i # c + 1
    <3>1. i \in 1 .. c /\ d - 1 + u + i \in 1 .. l
      BY <1>3, <1>4, <2>2
    <3> QED BY <1>2, <1>3, <3>1
  <2> QED BY <2>1, <2>2
<1>8. r + (c + 1) <= Len(plan) + 1
  BY <1>1
<1> QED BY <1>1, <1>3, <1>5, <1>6, <1>7, <1>8 DEF Layout

-----------------------------------------------------------------------------
(* What the walk does next, wherever it is. *)

\* It stops when it has all, or moves to a place of its own again.
StaysPlaced ==
    /\ AtEnd => Complete(found)
    /\ ~ AtEnd /\ ~ AtCourse => Placed(found, Here + 1)
    /\ ~ AtEnd /\ AtCourse => Placed(Append(found, Here), Here + 8)

\* A line that it passes.
LEMMA LostStays ==
    ASSUME TypeOK, Lost(index), NEW u \in {0, 1}, Layout(found, u, 0),
           Placed(found, index + 1)
    PROVE  StaysPlaced
<1>1. Here = index /\ ~ AtCourse /\ (AtEnd => EndingName)
  BY LostStep
<1>2. EndingName => Complete(found)
  BY DEF Complete
<1> QED BY <1>1, <1>2 DEF StaysPlaced

\* The end of what it can find.
LEMMA EndStays ==
    ASSUME NEW u \in {0, 1}, NEW c \in Nat, Layout(found, u, c),
           Resumed + c > Len(plan), AtEnd
    PROVE  StaysPlaced
BY DEF StaysPlaced, Complete

\* A course that is read.
LEMMA CourseStays ==
    ASSUME Here = index, ~ AtEnd, AtCourse, Placed(Append(found, index), index + 8)
    PROVE  StaysPlaced
BY DEF StaysPlaced

\* Before the damaged course the walk is at a course of the plan.
LEMMA BeforeStays ==
    ASSUME Given, HeaderIntact, TypeOK, OnPlan(found, index),
           Damaged \in 1 .. Len(plan) + 1, Len(found) + 1 < Damaged
    PROVE  StaysPlaced
<1>1. PICK d, n, k : d = Damaged /\ n = Len(plan) /\ k = Len(found) + 1
  OBVIOUS
<1>2. /\ n \in Nat /\ d \in Nat /\ index \in Nat /\ k \in 1 .. Len(plan) /\ k < d
      /\ index = 8 * k + 1 /\ ~ InTop /\ Len(text) \in Nat /\ k \in Nat
  <2>1. n \in Nat /\ Len(found) \in Nat /\ index \in Nat /\ Len(text) \in Nat
    BY <1>1, WalkTyped, DamageTyped DEF Given
  <2>2. d \in 1 .. n + 1 /\ k \in 1 .. n /\ k < d
    BY <1>1, <2>1
  <2> QED BY <1>1, <2>1, <2>2 DEF OnPlan, Before
<1>3. /\ 8 * k + 8 <= Len(text)
      /\ \A f \in 1 .. 8 : text[8 * k + f] = Printed(k)[f]
  BY <1>1, <1>2, CourseBefore
<1>4. Fits(index) /\ text[index] = Printed(k)[1] /\ text[index + 3] = Printed(k)[4]
  <2>1. index + 7 = 8 * k + 8 /\ index + 3 = 8 * k + 4
    BY <1>2
  <2>2. Fits(index)
    BY <1>3, <2>1 DEF Fits
  <2> QED BY <1>2, <1>3, <2>1, <2>2
<1>5. Here = index /\ ~ AtEnd /\ AtCourse
  BY <1>2, <1>4, PrintedStep
<1>6. OnPlan(Append(found, index), index + 8)
  BY <1>1, <1>2, OnPlanGrows
<1> QED BY <1>5, <1>6, CourseStays DEF Placed

\* Behind the damage it is at a course of the plan again, or behind the last one.
LEMMA AgainStays ==
    ASSUME Given, HeaderIntact, TypeOK, NEW u \in {0, 1}, NEW c \in Nat,
           Damaged \in 1 .. Len(plan) + 1, Resumed \in Nat, Resumed >= 1,
           OnAgain(found, index, u, c)
    PROVE  StaysPlaced
<1>1. PICK r, n, k, s : r = Resumed /\ n = Len(plan) /\ k = Resumed + c /\ s = Shift
  OBVIOUS
<1>2. /\ n \in Nat /\ r \in Nat /\ k \in Nat /\ 1 <= k /\ k <= n + 1 /\ r <= k
      /\ index \in Nat /\ Len(text) \in Nat
  <2>1. n \in Nat /\ index \in Nat /\ Len(text) \in Nat /\ r \in Nat /\ r >= 1
    BY <1>1, WalkTyped, DamageTyped DEF Given
  <2>2. k <= n + 1
    BY <1>1 DEF OnAgain
  <2> QED BY <1>1, <2>1, <2>2
<1>3. /\ damage.kind \in {"drop", "insert"} /\ Layout(found, u, c)
      /\ index = 8 * k + 1 + s
  BY <1>1 DEF OnAgain, After
<1>4. /\ s \in {-1, 1}
      /\ Len(text) = 15 + 8 * n + s
  <2>1. CASE damage.kind = "drop"
    <3>1. s = -1 /\ Len(text) = 14 + 8 * n
      BY <1>1, <2>1, TextLength DEF Shift
    <3> QED BY <1>2, <3>1
  <2>2. CASE damage.kind = "insert"
    <3>1. s = 1 /\ Len(text) = 16 + 8 * n
      BY <1>1, <2>2, TextLength DEF Shift
    <3> QED BY <1>2, <3>1
  <2> QED BY <1>3, <2>1, <2>2
<1>5. CASE k = n + 1
  <2>1. index + 7 > Len(text)
    BY <1>2, <1>3, <1>4, <1>5
  <2>2. AtEnd
    BY <2>1, ShortStep
  <2>3. Resumed + c > Len(plan)
    BY <1>1, <1>2, <1>5
  <2> QED BY <1>3, <2>2, <2>3, EndStays
<1>6. CASE k # n + 1
  <2>1. k \in 1 .. Len(plan) /\ Resumed <= k
    BY <1>1, <1>2, <1>6
  <2>2. /\ 8 * k + 8 + s <= Len(text)
        /\ \A f \in 1 .. 8 : text[8 * k + f + s] = Printed(k)[f]
    BY <1>1, <1>3, <2>1, CourseAfter
  <2>3. Fits(index) /\ text[index] = Printed(k)[1] /\ text[index + 3] = Printed(k)[4]
    <3>1. /\ index + 7 = 8 * k + 8 + s /\ index = 8 * k + 1 + s
          /\ index + 3 = 8 * k + 4 + s
      BY <1>2, <1>3, <1>4
    <3>2. Fits(index)
      BY <2>2, <3>1 DEF Fits
    <3> QED BY <2>2, <3>1, <3>2
  <2>4. Here = index /\ ~ AtEnd /\ AtCourse
    BY <2>1, <2>3, PrintedStep
  <2>5. Layout(Append(found, index), u, c + 1)
    <3>1. Damaged \in Nat /\ 1 <= Damaged /\ Resumed \in Nat /\ Len(plan) \in Nat
      BY <1>1, <1>2
    <3>2. Resumed + c <= Len(plan)
      BY <1>1, <2>1, <1>2
    <3>3. index = After(Resumed + c)
      BY DEF OnAgain
    <3> QED BY <1>2, <1>3, <3>1, <3>2, <3>3, AfterGrows
  <2>6. OnAgain(Append(found, index), index + 8, u, c + 1)
    <3>1. /\ r + (c + 1) <= n + 1 /\ index + 8 = 8 * (r + (c + 1)) + 1 + s
      BY <1>1, <1>2, <1>3, <1>4, <1>6
    <3> QED BY <1>1, <1>3, <2>5, <3>1 DEF OnAgain, After
  <2>7. c + 1 \in Nat
    OBVIOUS
  <2>8. Placed(Append(found, index), index + 8)
    BY <2>6, <2>7 DEF Placed
  <2> QED BY <2>4, <2>8, CourseStays
<1> QED BY <1>5, <1>6

\* On its way through the damaged lines.
LEMMA PlacedAstray ==
    ASSUME NEW fd, NEW i, NEW u \in {0, 1}, ~ InTop, Damaged <= Len(plan),
           Layout(fd, u, 0), Between(i, u)
    PROVE  Placed(fd, i)
BY DEF Placed, Astray

\* At the first course behind the damage.
LEMMA PlacedAgain ==
    ASSUME NEW fd, NEW i, NEW u \in {0, 1}, damage.kind \in {"drop", "insert"},
           Layout(fd, u, 0), Resumed \in Nat, Resumed <= Len(plan) + 1,
           i = After(Resumed)
    PROVE  Placed(fd, i)
<1>1. Resumed + 0 = Resumed
  OBVIOUS
<1>2. OnAgain(fd, i, u, 0)
  BY <1>1 DEF OnAgain
<1> QED BY <1>2 DEF Placed

\* In a course that has lost a line.
LEMMA DropStays ==
    ASSUME Given, HeaderIntact, TypeOK, damage.kind = "drop", ~ InTop,
           NEW u \in {0, 1}, Layout(found, u, 0),
           \/ u = 0 /\ index = 8 * Damaged + 1
           \/ Damaged <= Len(plan) /\ Between(index, u)
    PROVE  StaysPlaced
<1>1. PICK d, n, r, i : d = Damaged /\ n = Len(plan) /\ r = Field /\ i = index
  OBVIOUS
<1>2. /\ n \in Nat /\ d \in 1 .. n + 1 /\ d \in Nat /\ r \in 1 .. 8 /\ i \in Nat
      /\ Len(text) = 14 + 8 * n /\ Shift = -1
      /\ r <= 4 => Resumed = d + 1
      /\ r > 4 => Resumed = d + 2
  <2>1. n \in Nat /\ i \in Nat
    BY <1>1, WalkTyped, DamageTyped DEF Given
  <2>2. d \in 1 .. n + 1 /\ d \in Nat
    BY <1>1, <2>1, RowAt DEF Given
  <2>3. /\ r \in 1 .. 8 /\ Len(text) = 14 + 8 * n /\ Shift = -1
        /\ r <= 4 => Resumed = d + 1
        /\ r > 4 => Resumed = d + 2
    BY <1>1, RowAt, TextLength DEF Given
  <2> QED BY <2>1, <2>2, <2>3
<1>3. CASE d = n + 1
  <2>1. i = 8 * d + 1
    BY <1>1, <1>2, <1>3
  <2>2. i + 7 > 14 + 8 * n
    BY <1>2, <1>3, <2>1
  <2>3. AtEnd
    BY <1>1, <1>2, <2>2, ShortStep
  <2>4. Resumed + 0 > Len(plan)
    BY <1>1, <1>2, <1>3
  <2> QED BY <2>3, <2>4, EndStays
<1>4. CASE d <= n /\ r <= 4
  <2>1. u = 0 /\ i \in 8 * d + 1 .. 8 * d + 7
    BY <1>1, <1>2, <1>4 DEF Between
  <2>2. PICK j \in 1 .. 7 : i = 8 * d + j
    BY <1>2, <2>1
  <2>3. Lost(index)
    BY <1>1, <1>4, <2>2, DropLost
  <2>4. Placed(found, i + 1)
    <3>1. CASE j < 7
      <4>1. i + 1 \in 8 * d + 2 .. 8 * d + 7
        BY <1>2, <2>2, <3>1
      <4>2. Between(i + 1, 0)
        BY <1>1, <1>4, <4>1 DEF Between
      <4> QED BY <1>1, <1>4, <2>1, <4>2, PlacedAstray
    <3>2. CASE j = 7
      <4>1. i + 1 = 8 * (d + 1) + 1 + (-1) /\ d + 1 <= n + 1 /\ d + 1 \in Nat
        BY <1>2, <1>4, <2>2, <3>2
      <4>2. i + 1 = After(Resumed)
        BY <1>2, <1>4, <4>1 DEF After
      <4>3. Resumed \in Nat /\ Resumed <= Len(plan) + 1
        BY <1>1, <1>2, <1>4, <4>1
      <4> QED BY <4>2, <4>3, PlacedAgain
    <3> QED BY <2>2, <3>1, <3>2
  <2> QED BY <1>1, <2>3, <2>4, LostStays
<1>5. CASE d <= n /\ r > 4 /\ u = 0
  <2>1. i = 8 * d + 1
    BY <1>1, <1>2, <1>5 DEF Between
  <2>2. /\ Fits(index) /\ text[index] = Printed(d)[1]
        /\ text[index + 3] = Printed(d)[4]
    <3>1. index + 3 = 8 * d + 4
      BY <1>1, <1>2, <2>1
    <3> QED BY <1>1, <1>5, <2>1, <3>1, DropLost
  <2>3. d \in 1 .. Len(plan)
    BY <1>1, <1>2, <1>5
  <2>4. Here = index /\ ~ AtEnd /\ AtCourse
    BY <2>2, <2>3, PrintedStep
  <2>5. Layout(Append(found, index), 1, 0)
    <3>1. /\ Damaged \in Nat /\ 1 <= Damaged /\ Damaged <= Len(plan)
          /\ Damaged < Resumed /\ index \in Nat
      BY <1>1, <1>2, <1>5
    <3> QED BY <1>5, <3>1, AcrossGrows
  <2>6. Between(index + 8, 1)
    <3>1. index + 8 \in 8 * d + 9 .. 8 * d + 15
      BY <1>1, <1>2, <2>1
    <3> QED BY <1>1, <1>5, <3>1 DEF Between
  <2>7. Placed(Append(found, index), index + 8)
    BY <1>1, <1>5, <2>5, <2>6, PlacedAstray
  <2> QED BY <2>4, <2>7, CourseStays
<1>6. CASE d <= n /\ r > 4 /\ u = 1
  <2>1. i \in 8 * d + 9 .. 8 * d + 15
    BY <1>1, <1>2, <1>6 DEF Between
  <2>2. PICK j \in 9 .. 15 : i = 8 * d + j
    BY <1>2, <2>1
  <2>3. CASE d = n
    <3>1. i + 7 > 14 + 8 * n
      BY <1>2, <2>2, <2>3
    <3>2. AtEnd
      BY <1>1, <1>2, <3>1, ShortStep
    <3>3. Resumed + 0 > Len(plan)
      BY <1>1, <1>2, <1>6, <2>3
    <3> QED BY <3>2, <3>3, EndStays
  <2>4. CASE d < n
    <3>1. Lost(index)
      BY <1>1, <1>6, <2>2, <2>4, DropLost
    <3>2. Placed(found, i + 1)
      <4>1. CASE j < 15
        <5>1. i + 1 \in 8 * d + 9 .. 8 * d + 15
          BY <1>2, <2>2, <4>1
        <5>2. Between(i + 1, 1)
          BY <1>1, <1>6, <5>1 DEF Between
        <5> QED BY <1>1, <1>6, <5>2, PlacedAstray
      <4>2. CASE j = 15
        <5>1. i + 1 = 8 * (d + 2) + 1 + (-1) /\ d + 2 <= n + 1 /\ d + 2 \in Nat
          BY <1>2, <2>2, <2>4, <4>2
        <5>2. i + 1 = After(Resumed)
          BY <1>2, <1>6, <5>1 DEF After
        <5>3. Resumed \in Nat /\ Resumed <= Len(plan) + 1
          BY <1>1, <1>2, <1>6, <5>1
        <5> QED BY <5>2, <5>3, PlacedAgain
      <4> QED BY <2>2, <4>1, <4>2
    <3> QED BY <1>1, <3>1, <3>2, LostStays
  <2> QED BY <1>2, <1>6, <2>3, <2>4
<1> QED BY <1>2, <1>3, <1>4, <1>5, <1>6

\* With a line between two courses.
LEMMA BetweenStays ==
    ASSUME Given, HeaderIntact, TypeOK, damage.kind = "insert", ~ InTop, Field = 1,
           Damaged <= Len(plan), Layout(found, 0, 0), index = 8 * Damaged + 1
    PROVE  StaysPlaced
<1>1. PICK d, n : d = Damaged /\ n = Len(plan)
  OBVIOUS
<1>2. /\ n \in Nat /\ d \in Nat /\ 1 <= d /\ d <= n /\ d \in 1 .. Len(plan)
      /\ index = 8 * d + 1 /\ index \in Nat
      /\ Len(text) = 16 + 8 * n /\ Shift = 1 /\ Resumed = d
  <2>1. n \in Nat /\ index \in Nat
    BY <1>1, WalkTyped, DamageTyped DEF Given
  <2>2. d \in 1 .. n + 1
    BY <1>1, <2>1, RowAt DEF Given
  <2>3. Len(text) = 16 + 8 * n /\ Shift = 1 /\ Resumed = d
    BY <1>1, RowAt, TextLength DEF Given
  <2>4. d \in 1 .. Len(plan)
    BY <1>1, <2>1, <2>2
  <2> QED BY <1>1, <2>1, <2>2, <2>3, <2>4
<1>3. /\ text[8 * d + 1] = damage.line
      /\ damage.line.kind \in {"blank", "text", "number"}
      /\ \A f \in 1 .. 8 : text[8 * d + f + 1] = Printed(d)[f]
  <2>1. \A f \in 1 .. 8 : f >= 1
    OBVIOUS
  <2> QED BY <1>1, <2>1, InsertLines
<1>4. CASE damage.line.kind = "blank"
  <2>1. /\ index + 1 = 8 * d + 1 + 1 /\ (index + 1) + 3 = 8 * d + 4 + 1
        /\ index + 1 <= 16 + 8 * n /\ (index + 1) + 7 <= 16 + 8 * n
    BY <1>2
  <2>2. text[index + 1] = Printed(d)[1] /\ text[(index + 1) + 3] = Printed(d)[4]
    BY <1>3, <2>1
  <2>3. text[index + 1].kind = "number" /\ IsCredits(text[(index + 1) + 3])
    BY <1>2, <2>2, FieldKinds DEF IsCredits
  <2>4. Here = index + 1
    BY <1>2, <1>3, <1>4, <2>1, <2>3, BlankStep
  <2>5. ~ AtEnd /\ AtCourse
    <3>1. Fits(index + 1)
      BY <1>2, <2>1 DEF Fits
    <3> QED BY <2>3, <2>4, <3>1 DEF AtEnd, AtCourse
  <2>6. Layout(Append(found, index + 1), 0, 1)
    <3>1. index + 1 = After(Resumed + 0) /\ Resumed + 0 <= Len(plan)
      BY <1>1, <1>2 DEF After
    <3>2. /\ Damaged \in Nat /\ 1 <= Damaged /\ Resumed \in Nat /\ Len(plan) \in Nat
          /\ index + 1 \in Nat /\ 0 + 1 = 1
      BY <1>1, <1>2
    <3> QED BY <3>1, <3>2, AfterGrows
  <2>7. OnAgain(Append(found, index + 1), index + 1 + 8, 0, 1)
    <3>1. index + 1 + 8 = After(Resumed + 1) /\ Resumed + 1 <= Len(plan) + 1
      BY <1>1, <1>2 DEF After
    <3> QED BY <2>6, <3>1 DEF OnAgain
  <2>8. Placed(Append(found, index + 1), index + 1 + 8)
    BY <2>7 DEF Placed
  <2> QED BY <2>4, <2>5, <2>8 DEF StaysPlaced
<1>5. CASE damage.line.kind # "blank"
  <2>1. ~ IsCredits(text[index + 3])
    <3>1. index + 3 = 8 * d + 3 + 1
      BY <1>2
    <3>2. text[8 * d + 3 + 1] = Printed(d)[3]
      BY <1>3
    <3> QED BY <1>2, <3>1, <3>2, NoCredits
  <2>2. Fits(index)
    BY <1>2 DEF Fits
  <2>3. Lost(index)
    BY <1>2, <1>3, <1>5, <2>1, <2>2 DEF Lost
  <2>4. Placed(found, index + 1)
    <3>1. index + 1 = After(Resumed) /\ Resumed \in Nat /\ Resumed <= Len(plan) + 1
      BY <1>1, <1>2 DEF After
    <3> QED BY <3>1, PlacedAgain
  <2> QED BY <2>3, <2>4, LostStays
<1> QED BY <1>4, <1>5

\* With a line in the foot of the page.
LEMMA FootStays ==
    ASSUME Given, HeaderIntact, TypeOK, damage.kind = "insert", ~ InTop,
           Damaged = Len(plan) + 1, Layout(found, 0, 0), index = 8 * Damaged + 1
    PROVE  StaysPlaced
<1>1. PICK d, n, r, p : d = Damaged /\ n = Len(plan) /\ r = Field /\ p = Page
  OBVIOUS
<1>2. /\ n \in Nat /\ d = n + 1 /\ index = 8 * n + 9 /\ index \in Nat
      /\ r \in 1 .. 8 /\ damage.at = 8 * n + 8 + r
      /\ Len(text) = 16 + 8 * n /\ Shift = 1
      /\ r = 1 => Resumed = n + 1
      /\ r > 1 => Resumed = n + 2
  <2>1. n \in Nat /\ index \in Nat /\ d = n + 1
    BY <1>1, WalkTyped, DamageTyped DEF Given
  <2>2. r \in 1 .. 8 /\ damage.at = 8 * d + r
    BY <1>1, RowAt DEF Given
  <2>3. /\ Len(text) = 16 + 8 * n /\ Shift = 1
        /\ r = 1 => Resumed = d
        /\ r > 1 => Resumed = d + 1
    BY <1>1, RowAt, TextLength DEF Given
  <2> QED BY <1>1, <2>1, <2>2, <2>3
<1>3. /\ text[8 * n + 8 + r] = damage.line
      /\ damage.line.kind \in {"blank", "text", "number"}
      /\ \A i \in 1 .. 8 * n + 8 + r - 1 : text[i] = p[i]
      /\ \A i \in 8 * n + 8 + r .. 15 + 8 * n : text[i + 1] = p[i]
  <2>1. damage.line.kind \in {"blank", "text", "number"}
    BY DamageTyped, ParserAssumption DEF Given
  <2>2. /\ With(p, damage.at, damage.line, text) /\ Len(p) = 15 + 8 * n
    BY <1>1, TextGiven
  <2> QED BY <1>2, <2>1, <2>2 DEF With
<1>4. p[8 * n + 9] = End /\ p[8 * n + 11] = Text(2)
  <2>1. \A i \in 1 .. 7 : p[8 + 8 * n + i] = Bottom[i]
    BY <1>1, PageLines DEF Given
  <2>2. Bottom[1] = End /\ Bottom[3] = Text(2)
    BY DEF Bottom
  <2>3. 8 + 8 * n + 1 = 8 * n + 9 /\ 8 + 8 * n + 3 = 8 * n + 11
    BY <1>2
  <2>4. p[8 + 8 * n + 1] = Bottom[1] /\ p[8 + 8 * n + 3] = Bottom[3]
    BY <2>1
  <2> QED BY <2>2, <2>3, <2>4
<1>5. Resumed + 0 > Len(plan)
  BY <1>1, <1>2
<1>6. CASE r > 1
  <2>1. text[index] = End
    <3>1. 8 * n + 9 \in 1 .. 8 * n + 8 + r - 1
      BY <1>2, <1>6
    <3> QED BY <1>2, <1>3, <1>4, <3>1
  <2>2. Here = index
    BY <1>2, <2>1, LeastHere DEF End
  <2>3. AtEnd
    BY <2>1, <2>2 DEF AtEnd, End
  <2> QED BY <1>5, <2>3, EndStays
<1>7. CASE r = 1
  <2>1. text[index] = damage.line
    <3>1. index = 8 * n + 8 + r
      BY <1>2, <1>7
    <3> QED BY <1>3, <3>1
  <2>2. text[index + 1] = End
    <3>1. 8 * n + 9 \in 8 * n + 8 + r .. 15 + 8 * n
      BY <1>2, <1>7
    <3> QED BY <1>2, <1>3, <1>4, <3>1
  <2>3. text[index + 3] = Text(2)
    <3>1. PICK i : i = 8 * n + 11
      OBVIOUS
    <3>2. i \in 8 * n + 8 + r .. 15 + 8 * n /\ index + 3 = i + 1
      BY <1>2, <1>7, <3>1
    <3> QED BY <1>3, <1>4, <3>1, <3>2
  <2>4. CASE damage.line.kind = "blank"
    <3>1. index + 1 <= Len(text) /\ index + 1 + 7 > Len(text)
      BY <1>2
    <3>2. Here = index + 1
      BY <2>1, <2>2, <2>4, <3>1, BlankStep DEF End
    <3>3. AtEnd
      BY <1>2, <3>1, <3>2 DEF AtEnd, Fits
    <3> QED BY <1>5, <3>3, EndStays
  <2>5. CASE damage.line.kind # "blank"
    <3>1. ~ IsCredits(text[index + 3])
      BY <2>3 DEF IsCredits, Text
    <3>2. Fits(index)
      BY <1>2 DEF Fits
    <3>3. Lost(index)
      BY <1>3, <2>1, <2>5, <3>1, <3>2 DEF Lost
    <3>4. Placed(found, index + 1)
      <4>1. index + 1 = After(Resumed) /\ Resumed \in Nat /\ Resumed <= Len(plan) + 1
        BY <1>1, <1>2, <1>7 DEF After
      <4> QED BY <4>1, PlacedAgain
    <3> QED BY <3>3, <3>4, LostStays
  <2> QED BY <2>4, <2>5
<1> QED BY <1>2, <1>6, <1>7

\* At the line that was inserted before the credits of a course.
LEMMA StrayStays ==
    ASSUME Given, HeaderIntact, TypeOK, damage.kind = "insert", ~ InTop,
           Damaged <= Len(plan), Field \in 2 .. 4, Layout(found, 0, 0),
           index = 8 * Damaged + Field
    PROVE  StaysPlaced
<1>1. PICK d, n, r : d = Damaged /\ n = Len(plan) /\ r = Field
  OBVIOUS
<1>2. /\ n \in Nat /\ d \in Nat /\ 1 <= d /\ d <= n /\ d \in 1 .. Len(plan)
      /\ r \in 2 .. 4 /\ index = 8 * d + r /\ index \in Nat
      /\ Len(text) = 16 + 8 * n /\ Shift = 1 /\ Resumed = d + 1
  <2>1. n \in Nat /\ index \in Nat /\ r \in 2 .. 4 /\ r > 1
    BY <1>1, WalkTyped, DamageTyped DEF Given
  <2>2. d \in 1 .. n + 1
    BY <1>1, <2>1, RowAt DEF Given
  <2>3. Len(text) = 16 + 8 * n /\ Shift = 1 /\ Resumed = d + 1
    BY <1>1, <2>1, RowAt, TextLength DEF Given
  <2>4. d \in 1 .. Len(plan)
    BY <1>1, <2>1, <2>2
  <2> QED BY <1>1, <2>1, <2>2, <2>3, <2>4
<1>3. /\ text[index] = damage.line
      /\ damage.line.kind \in {"blank", "text", "number"}
      /\ \A f \in 1 .. 8 : f >= r => text[8 * d + f + 1] = Printed(d)[f]
  BY <1>1, <1>2, InsertLines
<1>4. \A i \in 1 .. 9 : i # r /\ ~ (r = 4 /\ i = 1) => Lost(8 * d + i)
  <2>1. Field > 1 /\ Field <= 4
    BY <1>1, <1>2
  <2> QED BY <1>1, <2>1, InsertLost
<1>5. Fits(index)
  BY <1>2 DEF Fits
<1>6. CASE damage.line.kind = "blank"
  <2>1. r + 1 \in 1 .. 9 /\ r + 1 # r /\ r + 1 # 1 /\ index + 1 = 8 * d + (r + 1)
    BY <1>2
  <2>2. Lost(index + 1)
    BY <1>4, <2>1
  <2>3. index + 1 <= Len(text)
    BY <1>2
  <2>4. Here = index + 1
    BY <1>3, <1>6, <2>2, <2>3, BlankStep DEF Lost
  <2>5. ~ AtCourse /\ (AtEnd => EndingName)
    BY <2>2, <2>4 DEF Lost, AtCourse, AtEnd
  <2>6. EndingName => Complete(found)
    BY DEF Complete
  <2>7. Between(index + 1 + 1, 0)
    <3>1. index + 1 + 1 \in 8 * d + 2 .. 8 * d + 9
      BY <1>2
    <3> QED BY <1>1, <3>1 DEF Between
  <2>8. Placed(found, index + 1 + 1)
    BY <2>7, PlacedAstray
  <2> QED BY <2>4, <2>5, <2>6, <2>8 DEF StaysPlaced
<1>7. CASE damage.line.kind = "number" /\ IsCredits(text[index + 3])
  <2>1. r = 2
    <3>1. ASSUME r \in {3, 4}
          PROVE  FALSE
      <4>1. PICK f : f = r + 2
        OBVIOUS
      <4>2. f \in {2, 3, 5, 6, 7, 8} /\ f \in 1 .. 8 /\ f >= r /\ index + 3 = 8 * d + f + 1
        BY <1>2, <3>1, <4>1
      <4>3. text[index + 3] = Printed(d)[f]
        BY <1>3, <4>2
      <4> QED BY <1>2, <1>7, <4>2, <4>3, NoCredits
    <3> QED BY <1>2, <3>1
  <2>2. Here = index /\ ~ AtEnd /\ AtCourse
    BY <1>3, <1>5, <1>7, CourseStep
  <2>3. Layout(Append(found, index), 1, 0)
    <3>1. /\ Damaged \in Nat /\ 1 <= Damaged /\ Damaged <= Len(plan)
          /\ Damaged < Resumed
      BY <1>1, <1>2
    <3> QED BY <1>2, <3>1, AcrossGrows
  <2>4. Placed(Append(found, index), index + 8)
    <3>1. /\ index + 8 = After(Resumed) /\ Resumed \in Nat /\ Resumed <= Len(plan) + 1
      BY <1>1, <1>2, <2>1 DEF After
    <3> QED BY <2>3, <3>1, PlacedAgain
  <2> QED BY <2>2, <2>4, CourseStays
<1>8. CASE damage.line.kind # "blank"
           /\ ~ (damage.line.kind = "number" /\ IsCredits(text[index + 3]))
  <2>1. Lost(index)
    BY <1>3, <1>5, <1>8 DEF Lost
  <2>2. Between(index + 1, 0)
    <3>1. index + 1 \in 8 * d + 2 .. 8 * d + 9
      BY <1>2
    <3> QED BY <1>1, <3>1 DEF Between
  <2>3. Placed(found, index + 1)
    BY <2>2, PlacedAstray
  <2> QED BY <2>1, <2>3, LostStays
<1> QED BY <1>6, <1>7, <1>8

\* In a course with a line too many.
LEMMA InsertStays ==
    ASSUME Given, HeaderIntact, TypeOK, damage.kind = "insert", ~ InTop,
           NEW u \in {0, 1}, Layout(found, u, 0),
           \/ u = 0 /\ index = 8 * Damaged + 1
           \/ Damaged <= Len(plan) /\ Between(index, u)
    PROVE  StaysPlaced
<1>1. PICK d, n, r, i : d = Damaged /\ n = Len(plan) /\ r = Field /\ i = index
  OBVIOUS
<1>2. /\ n \in Nat /\ d \in 1 .. n + 1 /\ d \in Nat /\ r \in 1 .. 8 /\ i \in Nat
      /\ Len(text) = 16 + 8 * n /\ Shift = 1
      /\ r > 1 => Resumed = d + 1
  <2>1. n \in Nat /\ i \in Nat
    BY <1>1, WalkTyped, DamageTyped DEF Given
  <2>2. d \in 1 .. n + 1 /\ d \in Nat
    BY <1>1, <2>1, RowAt DEF Given
  <2>3. /\ r \in 1 .. 8 /\ Len(text) = 16 + 8 * n /\ Shift = 1
        /\ r > 1 => Resumed = d + 1
    BY <1>1, RowAt, TextLength DEF Given
  <2> QED BY <2>1, <2>2, <2>3
<1>3. ASSUME d <= n, r > 1, NEW v \in {0, 1}, NEW fd, Layout(fd, v, 0), i = 8 * d + 9
      PROVE  Placed(fd, i + 1)
  <2>1. i + 1 = After(Resumed) /\ Resumed \in Nat /\ Resumed <= Len(plan) + 1
    BY <1>1, <1>2, <1>3 DEF After
  <2> QED BY <1>3, <2>1, PlacedAgain
<1>4. CASE d = n + 1
  <2>1. u = 0 /\ index = 8 * Damaged + 1
    BY <1>1, <1>2, <1>4
  <2> QED BY <1>1, <1>4, <2>1, FootStays
<1>5. CASE d <= n /\ r = 1
  <2>1. u = 0 /\ index = 8 * Damaged + 1
    BY <1>1, <1>2, <1>5 DEF Between
  <2> QED BY <1>1, <1>5, <2>1, BetweenStays
<1>6. CASE d <= n /\ r \in 2 .. 4 /\ u = 0
  <2>1. i \in 8 * d + 1 .. 8 * d + 9
    BY <1>1, <1>2, <1>6 DEF Between
  <2>2. PICK j \in 1 .. 9 : i = 8 * d + j
    BY <1>2, <2>1
  <2>3. Placed(found, i + 1)
    <3>1. CASE j < 9
      <4>1. i + 1 \in 8 * d + 2 .. 8 * d + 9
        BY <1>2, <2>2, <3>1
      <4>2. Between(i + 1, 0)
        BY <1>1, <1>6, <4>1 DEF Between
      <4> QED BY <1>1, <1>6, <4>2, PlacedAstray
    <3>2. CASE j = 9
      BY <1>3, <1>6, <2>2, <3>2
    <3> QED BY <2>2, <3>1, <3>2
  <2>4. CASE j = r
    BY <1>1, <1>6, <2>2, <2>4, StrayStays
  <2>5. CASE r = 4 /\ j = 1
    <3>1. /\ text[i] = Printed(d)[1] /\ text[i + 3] = damage.line
      <4>1. i + 3 = 8 * d + r /\ 1 < r
        BY <1>2, <2>2, <2>5
      <4> QED BY <1>1, <1>6, <2>2, <2>5, <4>1, InsertLines
    <3>2. Fits(i) /\ d \in 1 .. Len(plan)
      BY <1>1, <1>2, <1>6, <2>2 DEF Fits
    <3>3. CASE IsCredits(damage.line)
      <4>1. Here = index /\ ~ AtEnd /\ AtCourse
        BY <1>1, <3>1, <3>2, <3>3, CourseStep, FieldKinds
      <4>2. Layout(Append(found, index), 1, 0)
        <5>1. /\ Damaged \in Nat /\ 1 <= Damaged /\ Damaged <= Len(plan)
              /\ Damaged < Resumed /\ index \in Nat
          BY <1>1, <1>2, <1>6
        <5> QED BY <1>6, <5>1, AcrossGrows
      <4>3. Between(index + 8, 1)
        BY <1>1, <1>2, <2>2, <2>5 DEF Between
      <4>4. Placed(Append(found, index), index + 8)
        BY <1>1, <1>6, <4>2, <4>3, PlacedAstray
      <4> QED BY <4>1, <4>4, CourseStays
    <3>4. CASE ~ IsCredits(damage.line)
      <4>1. Lost(i)
        BY <3>1, <3>2, <3>4, FieldLost
      <4> QED BY <1>1, <1>6, <2>3, <4>1, LostStays
    <3> QED BY <3>3, <3>4
  <2>6. CASE j # r /\ ~ (r = 4 /\ j = 1)
    <3>1. Field > 1 /\ Field <= 4
      BY <1>1, <1>6
    <3>2. Lost(i)
      BY <1>1, <1>6, <2>2, <2>6, <3>1, InsertLost
    <3> QED BY <1>1, <1>6, <2>3, <3>2, LostStays
  <2> QED BY <2>4, <2>5, <2>6
<1>7. CASE d <= n /\ r > 4 /\ u = 0
  <2>1. i = 8 * d + 1
    BY <1>1, <1>2, <1>7 DEF Between
  <2>2. /\ Fits(index) /\ text[index] = Printed(d)[1]
        /\ text[index + 3] = Printed(d)[4]
    <3>1. index + 3 = 8 * d + 4 /\ Field > 1 /\ index + 7 <= 16 + 8 * n
      BY <1>1, <1>2, <1>7, <2>1
    <3>2. Fits(index)
      BY <1>2, <3>1 DEF Fits
    <3> QED BY <1>1, <1>7, <2>1, <3>1, <3>2, InsertLost
  <2>3. d \in 1 .. Len(plan)
    BY <1>1, <1>2, <1>7
  <2>4. Here = index /\ ~ AtEnd /\ AtCourse
    BY <2>2, <2>3, PrintedStep
  <2>5. Layout(Append(found, index), 1, 0)
    <3>1. /\ Damaged \in Nat /\ 1 <= Damaged /\ Damaged <= Len(plan)
          /\ Damaged < Resumed /\ index \in Nat
      BY <1>1, <1>2, <1>7
    <3> QED BY <1>7, <3>1, AcrossGrows
  <2>6. Between(index + 8, 1)
    BY <1>1, <1>2, <1>7, <2>1 DEF Between
  <2>7. Placed(Append(found, index), index + 8)
    BY <1>1, <1>7, <2>5, <2>6, PlacedAstray
  <2> QED BY <2>4, <2>7, CourseStays
<1>8. CASE d <= n /\ r > 1 /\ u = 1
  <2>1. i = 8 * d + 9 /\ r > 3
    BY <1>1, <1>2, <1>8 DEF Between
  <2>2. Lost(i)
    BY <1>1, <1>8, <2>1, InsertLost
  <2>3. Placed(found, i + 1)
    BY <1>3, <1>8, <2>1
  <2> QED BY <1>1, <1>8, <2>2, <2>3, LostStays
<1>9. d = n + 1 \/ d <= n
  BY <1>2
<1>10. r = 1 \/ r \in 2 .. 4 \/ r > 4
  BY <1>2
<1>11. r \in 2 .. 4 => r > 1
  BY <1>2
<1>12. r > 4 => r > 1
  BY <1>2
<1> QED BY <1>4, <1>5, <1>6, <1>7, <1>8, <1>9, <1>10, <1>11, <1>12

\* The damaged course is one of the plan or behind it.
LEMMA PlacesTyped ==
    ASSUME Given, HeaderIntact
    PROVE  /\ Damaged \in 1 .. Len(plan) + 1 /\ Resumed \in Nat /\ Resumed >= 1
           /\ Damaged <= Resumed /\ Len(plan) \in Nat
<1>1. PICK n : n = Len(plan)
  OBVIOUS
<1>2. /\ n \in Nat /\ plan \in Seq(Course) /\ damage \in Damages
      /\ damage.kind \in {"none", "drop", "cut", "insert"}
  BY <1>1, DamageTyped DEF Given
<1>3. CASE damage.kind = "none"
  BY <1>1, <1>2, <1>3, NoneAt
<1>4. CASE damage.kind = "cut"
  BY <1>1, <1>2, <1>4, CutAt
<1>5. CASE InTop
  BY <1>1, <1>2, <1>5, TopAt
<1>6. CASE damage.kind \in {"drop", "insert"} /\ ~ InTop
  <2>1. PICK d, r : d = Damaged /\ r = Field
    OBVIOUS
  <2>2. d \in 1 .. n + 1 /\ r \in 1 .. 8
    BY <1>1, <1>2, <1>6, <2>1, RowAt
  <2>3. Resumed = d \/ Resumed = d + 1 \/ Resumed = d + 2
    <3>1. damage.kind = "drop" \/ damage.kind = "insert"
      BY <1>6
    <3>2. (r <= 4 \/ r > 4) /\ (r = 1 \/ r > 1)
      BY <2>2
    <3> QED BY <1>2, <1>6, <2>1, <3>1, <3>2, RowAt
  <2> QED BY <1>1, <1>2, <2>1, <2>2, <2>3
<1> QED BY <1>2, <1>3, <1>4, <1>5, <1>6

\* All places together.
LEMMA PlacedStays ==
    ASSUME Given, HeaderIntact, TypeOK, Placed(found, index)
    PROVE  StaysPlaced
<1>1. PICK d, n, l : d = Damaged /\ n = Len(plan) /\ l = Len(found)
  OBVIOUS
<1>2. /\ n \in Nat /\ d \in 1 .. n + 1 /\ Resumed \in Nat /\ Resumed >= 1
      /\ l \in Nat /\ d \in Nat /\ index \in Nat /\ Len(text) \in Nat
      /\ plan \in Seq(Course) /\ damage \in Damages
      /\ damage.kind \in {"none", "drop", "cut", "insert"}
  <2>1. n \in Nat /\ d \in 1 .. n + 1 /\ Resumed \in Nat /\ Resumed >= 1
    BY <1>1, PlacesTyped
  <2>2. l \in Nat /\ index \in Nat /\ Len(text) \in Nat
    BY <1>1, WalkTyped
  <2>3. /\ plan \in Seq(Course) /\ damage \in Damages
        /\ damage.kind \in {"none", "drop", "cut", "insert"}
    BY DamageTyped DEF Given
  <2> QED BY <2>1, <2>2, <2>3
<1>3. CASE OnPlan(found, index)
  <2>1. l < d /\ ~ InTop /\ index = 8 * (l + 1) + 1
    BY <1>1, <1>3 DEF OnPlan, Before
  <2>2. CASE l + 1 < d
    BY <1>1, <1>2, <1>3, <2>2, BeforeStays
  <2>3. CASE l + 1 = d
    <3>1. Layout(found, 0, 0) /\ index = 8 * d + 1
      BY <1>1, <1>2, <1>3, <2>1, <2>3, OnPlanLayout
    <3>2. CASE damage.kind \in {"none", "cut"}
      <4>1. index + 7 > Len(text)
        <5>1. CASE damage.kind = "none"
          <6>1. d = n + 1 /\ Len(text) = 15 + 8 * n
            BY <1>1, <1>2, <5>1, NoneAt, TextLength
          <6> QED BY <1>2, <3>1, <6>1
        <5>2. CASE damage.kind = "cut"
          <6>1. damage.at <= 8 * d + 7 /\ Len(text) = damage.at
            BY <1>1, <1>2, <5>2, CutAt, TextLength
          <6> QED BY <1>2, <3>1, <6>1
        <5> QED BY <3>2, <5>1, <5>2
      <4>2. AtEnd
        BY <4>1, ShortStep
      <4>3. Resumed = n + 1
        BY <1>1, <1>2, <3>2, NoneAt, CutAt
      <4>4. Resumed + 0 > Len(plan)
        BY <1>1, <1>2, <4>3
      <4> QED BY <3>1, <4>2, <4>4, EndStays
    <3>3. CASE damage.kind = "drop"
      BY <1>1, <2>1, <3>1, <3>3, DropStays
    <3>4. CASE damage.kind = "insert"
      BY <1>1, <2>1, <3>1, <3>4, InsertStays
    <3> QED BY <1>2, <3>2, <3>3, <3>4
  <2> QED BY <1>2, <2>1, <2>2, <2>3
<1>4. ASSUME NEW u \in {0, 1}, Astray(found, index, u)
      PROVE  StaysPlaced
  <2>1. ~ InTop /\ Damaged <= Len(plan) /\ Layout(found, u, 0) /\ Between(index, u)
    BY <1>4 DEF Astray
  <2>2. damage.kind = "drop" \/ damage.kind = "insert"
    BY <2>1 DEF Between
  <2>3. CASE damage.kind = "drop"
    BY <2>1, <2>3, DropStays
  <2>4. CASE damage.kind = "insert"
    BY <2>1, <2>4, InsertStays
  <2> QED BY <2>2, <2>3, <2>4
<1>5. ASSUME NEW u \in {0, 1}, NEW c \in Nat, OnAgain(found, index, u, c)
      PROVE  StaysPlaced
  BY <1>1, <1>2, <1>5, AgainStays
<1> QED BY <1>3, <1>4, <1>5 DEF Placed

-----------------------------------------------------------------------------
(* The header. *)

\* Only the lines of the header look like it.
LEMMA HeaderOnPage ==
    ASSUME plan \in Seq(Course), NEW i \in 1 .. Len(Page), NEW j \in 1 .. 7,
           Page[i] = Header[j]
    PROVE  i = j + 1
<1>1. PICK n, p : n = Len(plan) /\ p = Page
  OBVIOUS
<1>2. /\ n \in Nat /\ Len(p) = 15 + 8 * n /\ p[1] = Text(1)
      /\ \A l \in 1 .. 7 : p[1 + l] = Header[l]
      /\ \A k \in 1 .. n, f \in 1 .. 8 : p[8 * k + f] = Printed(k)[f]
      /\ \A l \in 1 .. 7 : p[8 + 8 * n + l] = Bottom[l]
  <2>1. n \in Nat
    BY <1>1
  <2> QED BY <1>1, <2>1, PageLines
<1>3. \A l \in 1 .. 7 : Header[l] = [kind |-> "header", value |-> l]
  BY DEF Header
<1>4. p[i].kind = "header" /\ p[i].value = j /\ i \in Nat /\ i >= 1 /\ i <= 15 + 8 * n
  <2>1. p[i] = [kind |-> "header", value |-> j]
    BY <1>1, <1>3
  <2>2. i \in 1 .. 15 + 8 * n
    BY <1>1, <1>2
  <2> QED BY <1>2, <2>1, <2>2
<1>5. CASE i = 1
  BY <1>2, <1>4, <1>5 DEF Text
<1>6. CASE i \in 2 .. 8
  <2>1. PICK l \in 1 .. 7 : i = 1 + l
    BY <1>6
  <2>2. p[i] = Header[l]
    BY <1>2, <2>1
  <2>3. Header[l].value = l
    BY <1>3
  <2> QED BY <1>4, <2>1, <2>2, <2>3
<1>7. CASE i >= 9 /\ i <= 8 + 8 * n
  <2>1. PICK k, f : k = CourseOf(i) /\ f = ((i - FirstRow) % 8) + 1
    OBVIOUS
  <2>2. k \in Nat /\ k >= 1 /\ f \in 1 .. 8 /\ i = 8 * k + f
    BY <1>4, <1>7, <2>1, CourseField
  <2>3. k \in 1 .. n
    BY <1>2, <1>7, <2>2
  <2>4. p[i] = Printed(k)[f]
    BY <1>2, <2>2, <2>3
  <2>5. Printed(k)[f].kind # "header"
    <3>1. plan[k] \in Course
      BY <1>1, <2>3
    <3>2. plan[k].credits.kind # "header" /\ plan[k].name # "header"
      BY <3>1, ParserAssumption DEF Course
    <3> QED BY <2>2, <3>2 DEF Printed, Number, Text
  <2> QED BY <1>4, <2>4, <2>5
<1>8. CASE i >= 9 + 8 * n
  <2>1. PICK l \in 1 .. 7 : i = 8 + 8 * n + l
    BY <1>2, <1>4, <1>8
  <2>2. p[i] = Bottom[l]
    BY <1>2, <2>1
  <2>3. Bottom[l].kind # "header"
    BY DEF Bottom, End, Number, Text
  <2> QED BY <1>4, <2>2, <2>3
<1> QED BY <1>2, <1>4, <1>5, <1>6, <1>7, <1>8

\* Where they are in the text.
LEMMA HeaderInText ==
    ASSUME Given, NEW i \in 1 .. Len(text), NEW j \in 1 .. 7, text[i] = Header[j]
    PROVE  /\ damage.kind \in {"none", "cut"} => i = j + 1
           /\ damage.kind = "drop" => (i < damage.at /\ i = j + 1)
                                        \/ (i >= damage.at /\ i = j)
           /\ damage.kind = "insert" => (i < damage.at /\ i = j + 1)
                                          \/ (i > damage.at /\ i = j + 2)
<1>1. PICK n, at, p, l : n = Len(plan) /\ at = damage.at /\ p = Page /\ l = Len(text)
  OBVIOUS
<1>2. /\ n \in Nat /\ at \in Nat /\ Len(p) = 15 + 8 * n /\ plan \in Seq(Course)
      /\ l \in Nat /\ i \in Nat /\ i >= 1 /\ i <= l
  BY <1>1, TextGiven, DamageTyped DEF Given
<1>3. \A m \in 1 .. 15 + 8 * n : p[m] = Header[j] => m = j + 1
  BY <1>1, <1>2, HeaderOnPage
<1>4. ASSUME damage.kind = "none"
      PROVE  i = j + 1
  <2>1. text = p /\ l = 15 + 8 * n
    BY <1>1, <1>4, TextGiven, TextLength
  <2> QED BY <1>1, <1>3, <2>1
<1>5. ASSUME damage.kind = "cut"
      PROVE  i = j + 1
  <2>1. l = at /\ at <= 15 + 8 * n /\ \A m \in 1 .. at : text[m] = p[m]
    BY <1>1, <1>5, TextGiven, DamageTyped DEF Given
  <2>2. i \in 1 .. at /\ i \in 1 .. 15 + 8 * n
    BY <1>2, <2>1
  <2> QED BY <1>3, <2>1, <2>2
<1>6. ASSUME damage.kind = "drop"
      PROVE  (i < at /\ i = j + 1) \/ (i >= at /\ i = j)
  <2>1. /\ l = 14 + 8 * n
        /\ \A m \in 1 .. at - 1 : text[m] = p[m]
        /\ \A m \in at .. 14 + 8 * n : text[m] = p[m + 1]
    BY <1>1, <1>2, <1>6, TextGiven, TextLength DEF Without
  <2>2. CASE i < at
    <3>1. i \in 1 .. at - 1 /\ i \in 1 .. 15 + 8 * n
      BY <1>2, <2>1, <2>2
    <3> QED BY <1>3, <2>1, <2>2, <3>1
  <2>3. CASE i >= at
    <3>1. i \in at .. 14 + 8 * n /\ i + 1 \in 1 .. 15 + 8 * n
      BY <1>2, <2>1, <2>3
    <3>2. p[i + 1] = Header[j]
      BY <2>1, <3>1
    <3>3. i + 1 = j + 1
      BY <1>3, <3>1, <3>2
    <3> QED BY <1>2, <2>3, <3>3
  <2> QED BY <1>2, <2>2, <2>3
<1>7. ASSUME damage.kind = "insert"
      PROVE  (i < at /\ i = j + 1) \/ (i > at /\ i = j + 2)
  <2>1. /\ l = 16 + 8 * n
        /\ \A m \in 1 .. at - 1 : text[m] = p[m]
        /\ text[at] = damage.line
        /\ \A m \in at .. 15 + 8 * n : text[m + 1] = p[m]
    BY <1>1, <1>2, <1>7, TextGiven, TextLength DEF With
  <2>2. CASE i < at
    <3>0. at <= 16 + 8 * n
      BY <1>1, <1>2, <1>7, DamageTyped DEF Given
    <3>1. i \in 1 .. at - 1 /\ i \in 1 .. 15 + 8 * n
      BY <1>2, <2>2, <3>0
    <3> QED BY <1>3, <2>1, <2>2, <3>1
  <2>3. CASE i = at
    <3>1. damage.line.kind # "header"
      BY <1>7, DamageTyped, ParserAssumption DEF Given
    <3>2. Header[j].kind = "header"
      BY DEF Header
    <3> QED BY <2>1, <2>3, <3>1, <3>2
  <2>4. CASE i > at
    <3>1. PICK m : m = i - 1
      OBVIOUS
    <3>2. m \in at .. 15 + 8 * n /\ m + 1 = i /\ m \in 1 .. 15 + 8 * n
      <4>1. at >= 1
        BY <1>1, <1>2, <1>7, DamageTyped DEF Given
      <4> QED BY <1>2, <2>1, <2>4, <3>1, <4>1
    <3>3. p[m] = Header[j]
      BY <2>1, <3>2
    <3>4. m = j + 1
      BY <1>3, <3>2, <3>3
    <3> QED BY <1>2, <2>4, <3>2, <3>4
  <2> QED BY <1>2, <2>2, <2>3, <2>4
<1> QED BY <1>1, <1>4, <1>5, <1>6, <1>7

\* A damaged header is not found.
LEMMA HeaderGone ==
    ASSUME Given, ~ HeaderIntact, NEW i \in 1 .. Len(text)
    PROVE  ~ HeaderAt(i)
<1> SUFFICES ASSUME HeaderAt(i)
             PROVE  FALSE
  OBVIOUS
<1>1. PICK at, l : at = damage.at /\ l = Len(text)
  OBVIOUS
<1>2. /\ at \in Nat /\ l \in Nat /\ damage.kind \in {"none", "drop", "cut", "insert"}
      /\ i \in Nat /\ i >= 1 /\ i + 6 <= l
  BY <1>1, TextGiven, DamageTyped DEF Given, HeaderAt
<1>3. \A j \in 1 .. 7 : text[i + j - 1] = Header[j]
  BY DEF HeaderAt
<1>4. PICK b : b = i + 6
  OBVIOUS
<1>5. text[i] = Header[1] /\ text[b] = Header[7] /\ b \in 1 .. Len(text)
  <2>1. i + 1 - 1 = i /\ i + 7 - 1 = b
    BY <1>2, <1>4
  <2>2. text[i + 1 - 1] = Header[1] /\ text[i + 7 - 1] = Header[7]
    BY <1>3
  <2> QED BY <1>1, <1>2, <1>4, <2>1, <2>2
<1>6. /\ damage.kind \in {"none", "cut"} => i = 1 + 1
      /\ damage.kind = "drop" => (i < at /\ i = 1 + 1) \/ (i >= at /\ i = 1)
      /\ damage.kind = "insert" => (i < at /\ i = 1 + 1) \/ (i > at /\ i = 1 + 2)
  BY <1>1, <1>5, HeaderInText
<1>7. /\ damage.kind = "drop" => (b < at /\ b = 7 + 1) \/ (b >= at /\ b = 7)
      /\ damage.kind = "insert" => (b < at /\ b = 7 + 1) \/ (b > at /\ b = 7 + 2)
  BY <1>1, <1>5, HeaderInText
<1>8. damage.kind # "none"
  BY DEF HeaderIntact
<1>9. CASE damage.kind = "cut"
  <2>1. at < 8
    BY <1>1, <1>2, <1>9, RowNine DEF HeaderIntact
  <2>2. l = at
    BY <1>1, <1>9, TextLength
  <2> QED BY <1>2, <1>6, <1>9, <2>1, <2>2
<1>10. CASE damage.kind = "drop"
  <2>1. at > 1 /\ at < 9
    BY <1>1, <1>2, <1>10, RowNine DEF HeaderIntact
  <2> QED BY <1>2, <1>4, <1>6, <1>7, <1>10, <2>1
<1>11. CASE damage.kind = "insert"
  <2>1. at > 2 /\ at < 9
    BY <1>1, <1>2, <1>11, RowNine DEF HeaderIntact
  <2> QED BY <1>2, <1>4, <1>6, <1>7, <1>11, <2>1
<1> QED BY <1>2, <1>8, <1>9, <1>10, <1>11

\* An intact one is found where it is.
LEMMA HeaderFound ==
    ASSUME Given, HeaderIntact
    PROVE  \E w \in Nat :
              /\ w = IF InTop THEN 2 + Shift ELSE 2
              /\ w \in 1 .. Len(text) /\ HeaderAt(w)
              /\ \A i \in 1 .. Len(text) : HeaderAt(i) => i = w
<1>1. PICK at, l, n, p : at = damage.at /\ l = Len(text) /\ n = Len(plan) /\ p = Page
  OBVIOUS
<1>2. /\ at \in Nat /\ l \in Nat /\ n \in Nat
      /\ damage.kind \in {"none", "drop", "cut", "insert"}
      /\ plan \in Seq(Course) /\ damage \in Damages
      /\ \A j \in 1 .. 7 : p[1 + j] = Header[j]
      /\ Len(p) = 15 + 8 * n
  BY <1>1, TextGiven, DamageTyped, PageLines DEF Given
<1>3. ASSUME NEW i \in 1 .. Len(text), HeaderAt(i)
      PROVE  /\ damage.kind \in {"none", "cut"} => i = 2
             /\ damage.kind = "drop" => (i < at /\ i = 2) \/ (i >= at /\ i = 1)
             /\ damage.kind = "insert" => (i < at /\ i = 2) \/ (i > at /\ i = 3)
             /\ i \in Nat /\ i >= 1
  <2>1. i \in Nat /\ i >= 1 /\ i + 1 - 1 = i
    BY <1>1, <1>2
  <2>2. text[i] = Header[1]
    BY <1>3, <2>1 DEF HeaderAt
  <2> QED BY <1>1, <2>1, <2>2, HeaderInText
<1>4. CASE ~ InTop
  <2>1. l >= 8 /\ \A m \in 1 .. 8 : text[m] = p[m]
    <3>1. CASE damage.kind = "none"
      <4>1. text = p /\ l = 15 + 8 * n
        BY <1>1, <3>1, TextGiven, TextLength
      <4> QED BY <1>2, <4>1
    <3>2. CASE damage.kind = "cut"
      <4>1. at >= 8
        BY <1>1, <1>2, <3>2, RowNine DEF HeaderIntact
      <4>2. l = at /\ \A m \in 1 .. at : text[m] = p[m]
        BY <1>1, <3>2, TextGiven
      <4> QED BY <1>2, <4>1, <4>2
    <3>3. CASE damage.kind \in {"drop", "insert"}
      <4>1. at >= 9
        BY <1>1, <1>2, <1>4, <3>3, RowNine DEF InTop
      <4>2. \A m \in 1 .. at - 1 : text[m] = p[m]
        BY <1>1, <3>3, TextGiven DEF Without, With
      <4>3. l = 14 + 8 * n \/ l = 16 + 8 * n
        BY <1>1, <3>3, TextLength
      <4>4. \A m \in 1 .. 8 : m \in 1 .. at - 1
        BY <1>2, <4>1
      <4>5. l >= 8
        BY <1>2, <4>3
      <4> QED BY <4>2, <4>4, <4>5
    <3> QED BY <1>2, <3>1, <3>2, <3>3
  <2>2. HeaderAt(2) /\ 2 \in 1 .. Len(text)
    <3>1. \A j \in 1 .. 7 : 2 + j - 1 = 1 + j /\ 1 + j \in 1 .. 8
      OBVIOUS
    <3>2. \A j \in 1 .. 7 : text[2 + j - 1] = Header[j]
      BY <1>2, <2>1, <3>1
    <3> QED BY <1>1, <1>2, <2>1, <3>2 DEF HeaderAt
  <2>3. ASSUME NEW i \in 1 .. Len(text), HeaderAt(i)
        PROVE  i = 2
    <3>1. damage.kind \in {"drop", "insert"} => at >= 9
      BY <1>1, <1>2, <1>4, RowNine DEF InTop
    <3> QED BY <1>2, <1>3, <2>3, <3>1
  <2> QED BY <1>4, <2>2, <2>3
<1>5. CASE InTop /\ damage.kind = "drop"
  <2>1. at = 1 /\ Shift = -1
    BY <1>1, <1>2, <1>5, TopAt
  <2>2. l = 14 + 8 * n /\ \A m \in 1 .. 14 + 8 * n : text[m] = p[m + 1]
    BY <1>1, <1>2, <1>5, <2>1, TextGiven, TextLength DEF Without
  <2>3. HeaderAt(1) /\ 1 \in 1 .. Len(text)
    <3>1. \A j \in 1 .. 7 : /\ 1 + j - 1 \in 1 .. 14 + 8 * n
                            /\ (1 + j - 1) + 1 = 1 + j
      BY <1>2
    <3>2. \A j \in 1 .. 7 : text[1 + j - 1] = Header[j]
      <4> SUFFICES ASSUME NEW j \in 1 .. 7
                   PROVE  text[1 + j - 1] = Header[j]
        OBVIOUS
      <4>1. PICK m : m = 1 + j - 1
        OBVIOUS
      <4>2. m \in 1 .. 14 + 8 * n /\ m + 1 = 1 + j
        BY <3>1, <4>1
      <4> QED BY <1>2, <2>2, <4>1, <4>2
    <3>3. 1 + 6 <= l
      BY <1>2, <2>2
    <3> QED BY <1>1, <1>2, <3>2, <3>3 DEF HeaderAt
  <2>4. ASSUME NEW i \in 1 .. Len(text), HeaderAt(i)
        PROVE  i = 1
    BY <1>3, <1>5, <2>1, <2>4
  <2>5. 2 + Shift = 1
    BY <2>1
  <2> QED BY <1>5, <2>3, <2>4, <2>5
<1>6. CASE InTop /\ damage.kind = "insert"
  <2>1. at \in {1, 2} /\ Shift = 1
    BY <1>1, <1>2, <1>6, TopAt
  <2>2. l = 16 + 8 * n /\ \A m \in at .. 15 + 8 * n : text[m + 1] = p[m]
    BY <1>1, <1>2, <1>6, TextGiven, TextLength DEF With
  <2>3. HeaderAt(3) /\ 3 \in 1 .. Len(text)
    <3>1. \A j \in 1 .. 7 : text[3 + j - 1] = Header[j]
      <4> SUFFICES ASSUME NEW j \in 1 .. 7
                   PROVE  text[3 + j - 1] = Header[j]
        OBVIOUS
      <4>1. PICK m : m = 1 + j
        OBVIOUS
      <4>2. m \in at .. 15 + 8 * n /\ 3 + j - 1 = m + 1
        BY <1>2, <2>1, <4>1
      <4> QED BY <1>2, <2>2, <4>1, <4>2
    <3>2. 3 + 6 <= l
      BY <1>2, <2>2
    <3> QED BY <1>1, <1>2, <3>1, <3>2 DEF HeaderAt
  <2>4. ASSUME NEW i \in 1 .. Len(text), HeaderAt(i)
        PROVE  i = 3
    BY <1>3, <1>6, <2>1, <2>4
  <2>5. 2 + Shift = 3
    BY <2>1
  <2> QED BY <1>6, <2>3, <2>4, <2>5
<1> QED BY <1>4, <1>5, <1>6 DEF InTop

-----------------------------------------------------------------------------
(* The invariant holds in all reachable states. *)

\* What was printed and what happened to it say where the walk may be.
LEMMA PlacesKept ==
    ASSUME plan' = plan, damage' = damage
    PROVE  /\ Damaged' = Damaged /\ Resumed' = Resumed /\ Shift' = Shift
           /\ Field' = Field /\ InTop' = InTop /\ EndingName' = EndingName
           /\ HeaderIntact' = HeaderIntact
<1>1. FirstRow' = FirstRow
  BY DEF FirstRow, Top, Header
<1>2. Field' = Field /\ InTop' = InTop /\ HeaderIntact' = HeaderIntact
  BY <1>1 DEF Field, InTop, HeaderIntact, Top, FirstRow, Header
<1>3. Damaged' = Damaged
  BY DEF Damaged, CourseOf, FirstRow, Top, Header, InTop
<1>4. Resumed' = Resumed
  BY <1>3 DEF Resumed, Damaged, CourseOf, FirstRow, Top, Header, InTop, Field
<1>5. Shift' = Shift
  BY DEF Shift
<1>6. EndingName' = EndingName
  BY DEF EndingName, Disturbed, CourseOf, FirstRow, Top, Header
<1> QED BY <1>2, <1>3, <1>4, <1>5, <1>6

\* The text stays given.
LEMMA GivenKept ==
    ASSUME Given, UNCHANGED input
    PROVE  Given'
<1>1. Page' = Page
  BY PageKept DEF input
<1> QED BY <1>1 DEF Given, Damages, Extracted, input

\* So does the place of the walk, wherever it is.
LEMMA PlacedKept ==
    ASSUME plan' = plan, damage' = damage, NEW fd, NEW i, Placed(fd, i),
           found' = fd, index' = i
    PROVE  Placed(found, index)'
<1>1. CASE OnPlan(fd, i)
  <2>1. OnPlan(found, index)'
    BY <1>1, PlacesKept DEF OnPlan, Before
  <2> QED BY <2>1 DEF Placed
<1>2. ASSUME NEW u \in {0, 1}, Astray(fd, i, u)
      PROVE  Placed(found, index)'
  <2>1. Layout(found, u, 0)'
    BY <1>2, PlacesKept DEF Astray, Layout, Before, After
  <2>2. Between(index, u)'
    BY <1>2, PlacesKept DEF Astray, Between
  <2>3. Astray(found, index, u)'
    BY <1>2, <2>1, <2>2, PlacesKept DEF Astray
  <2> QED BY <2>3 DEF Placed
<1>3. ASSUME NEW u \in {0, 1}, NEW c \in Nat, OnAgain(fd, i, u, c)
      PROVE  Placed(found, index)'
  <2>1. Layout(found, u, c)'
    BY <1>3, PlacesKept DEF OnAgain, Layout, Before, After
  <2>2. OnAgain(found, index, u, c)'
    BY <1>3, <2>1, PlacesKept DEF OnAgain, After
  <2> QED BY <2>2 DEF Placed
<1> QED BY <1>1, <1>2, <1>3 DEF Placed

\* And what it has found.
LEMMA CompleteKept ==
    ASSUME plan' = plan, damage' = damage, found' = found, Complete(found)
    PROVE  Complete(found)'
<1>1. PICK u \in {0, 1}, c \in Nat :
          Layout(found, u, c) /\ (Resumed + c > Len(plan) \/ (c = 0 /\ EndingName))
  BY DEF Complete
<1>2. Layout(found, u, c)'
  BY <1>1, PlacesKept DEF Layout, Before, After
<1> QED BY <1>1, <1>2, PlacesKept DEF Complete

\* The text of a plan is given.
LEMMA InitIDamage == Init => IDamage
<1> SUFFICES ASSUME Init
             PROVE  IDamage
  OBVIOUS
<1>1. plan \in Seq(Course)
  BY ParserAssumption DEF Init, BoundedSeq, SeqOf
<1> QED BY <1>1, InitIInv DEF Init, IDamage, Given, DamagedWalk

\* The walk begins at the first course, or the table is not found.
LEMMA FindHeaderPlaces ==
    ASSUME IDamage, FindHeader
    PROVE  DamagedWalk'
<1> DEFINE at == {i \in DOMAIN text : HeaderAt(i)}
<1>1. /\ Given /\ found = <<>> /\ Len(text) \in Nat /\ DOMAIN text = 1 .. Len(text)
      /\ UNCHANGED <<plan, damage, found>>
      /\ IF at = {} THEN pc' = "no table" ELSE pc' = "rows" /\ index' = Min(at) + 7
  <2>1. Given /\ found = <<>>
    BY Zenon DEF IDamage, IInv, FindHeader
  <2>2. text \in Seq(Line)
    BY <2>1, TextGiven
  <2>3. Len(text) \in Nat /\ DOMAIN text = 1 .. Len(text)
    BY <2>2
  <2>4. UNCHANGED <<plan, damage, found>>
    BY DEF FindHeader, input
  <2>5. IF at = {} THEN pc' = "no table" ELSE pc' = "rows" /\ index' = Min(at) + 7
    BY DEF FindHeader
  <2> QED BY <2>1, <2>3, <2>4, <2>5
<1>2. HeaderIntact' = HeaderIntact
  BY <1>1, PlacesKept
<1>3. CASE ~ HeaderIntact
  <2>1. at = {}
    BY <1>1, <1>3, HeaderGone
  <2> QED BY <1>1, <1>2, <1>3, <2>1 DEF DamagedWalk
<1>4. CASE HeaderIntact
  <2>1. PICK w \in Nat :
            /\ w = IF InTop THEN 2 + Shift ELSE 2
            /\ w \in 1 .. Len(text) /\ HeaderAt(w)
            /\ \A i \in 1 .. Len(text) : HeaderAt(i) => i = w
    BY <1>1, <1>4, HeaderFound
  <2>2. at = {w}
    BY <1>1, <2>1
  <2>3. pc' = "rows" /\ index' = w + 7
    <3>1. at # {}
      BY <2>2
    <3>2. Min(at) = w
      <4>1. at \in SUBSET Nat
        BY <2>1, <2>2
      <4>2. Min(at) \in at
        <5> HIDE DEF at
        <5> QED BY <3>1, <4>1, LeastIndex
      <4> HIDE DEF at
      <4> QED BY <2>2, <4>2
    <3> HIDE DEF at
    <3> QED BY <1>1, <3>1, <3>2
  <2>4. Placed(<<>>, w + 7)
    <3>1. Damaged \in 1 .. Len(plan) + 1 /\ Len(plan) \in Nat
      BY <1>1, <1>4, PlacesTyped
    <3>2. PICK e : e = <<>>
      OBVIOUS
    <3>3. Len(e) = 0
      BY <3>2
    <3>4. CASE ~ InTop
      <4>1. w + 7 = 8 * (Len(e) + 1) + 1
        BY <2>1, <3>3, <3>4
      <4>2. Len(e) < Damaged /\ \A m \in 1 .. Len(e) : e[m] = Before(m)
        BY <3>1, <3>3
      <4>3. OnPlan(e, w + 7)
        BY <3>4, <4>1, <4>2 DEF OnPlan, Before
      <4> QED BY <3>2, <4>3 DEF Placed
    <3>5. CASE InTop
      <4>1. Damaged = 1 /\ Resumed = 1 /\ damage.kind \in {"drop", "insert"}
            /\ Shift \in {-1, 1}
        BY <1>1, <1>4, <3>5, TopAt DEF Given
      <4>2. Layout(e, 0, 0)
        BY <3>3, <4>1 DEF Layout
      <4>3. w + 7 = After(Resumed)
        BY <2>1, <3>5, <4>1 DEF After
      <4>4. Resumed \in Nat /\ Resumed <= Len(plan) + 1
        BY <3>1, <4>1
      <4>5. Placed(e, w + 7)
        BY <4>1, <4>2, <4>3, <4>4, PlacedAgain
      <4> QED BY <3>2, <4>5
    <3> QED BY <3>4, <3>5
  <2>5. found' = <<>>
    BY <1>1
  <2>6. Placed(found, index)'
    <3>1. PICK i : i = w + 7
      OBVIOUS
    <3> QED BY <1>1, <2>3, <2>4, <2>5, <3>1, PlacedKept
  <2> QED BY <1>2, <1>4, <2>3, <2>6 DEF DamagedWalk
<1> QED BY <1>3, <1>4

\* Every step of the walk keeps to its places.
LEMMA WalkPlaces ==
    ASSUME IDamage, Skip \/ Take \/ Finish
    PROVE  DamagedWalk'
<1>1. Given /\ HeaderIntact /\ TypeOK /\ Placed(found, index)
  BY Zenon DEF IDamage, IInv, DamagedWalk, Skip, Take, Finish
<1>2. /\ AtEnd => Complete(found)
      /\ ~ AtEnd /\ ~ AtCourse => Placed(found, Here + 1)
      /\ ~ AtEnd /\ AtCourse => Placed(Append(found, Here), Here + 8)
  BY <1>1, PlacedStays DEF StaysPlaced
<1>3. plan' = plan /\ damage' = damage
  BY Zenon DEF Skip, Take, Finish, input
<1>4. HeaderIntact'
  BY <1>1, <1>3, PlacesKept
<1>5. CASE Skip
  <2>1. pc' = "rows" /\ index' = Here + 1 /\ found' = found /\ ~ AtEnd /\ ~ AtCourse
    BY <1>5 DEF Skip
  <2>2. PICK fd, i : fd = found /\ i = Here + 1
    OBVIOUS
  <2>3. Placed(found, index)'
    BY <1>2, <1>3, <2>1, <2>2, PlacedKept
  <2> QED BY <1>4, <2>1, <2>3 DEF DamagedWalk
<1>6. CASE Take
  <2>1. /\ pc' = "rows" /\ index' = Here + 8 /\ found' = Append(found, Here)
        /\ ~ AtEnd /\ AtCourse
    BY <1>6 DEF Take
  <2>2. PICK fd, i : fd = Append(found, Here) /\ i = Here + 8
    OBVIOUS
  <2>3. Placed(found, index)'
    BY <1>2, <1>3, <2>1, <2>2, PlacedKept
  <2> QED BY <1>4, <2>1, <2>3 DEF DamagedWalk
<1>7. CASE Finish
  <2>1. /\ AtEnd /\ found' = found
        /\ pc' = IF found = <<>> THEN "no courses" ELSE "success"
    BY <1>7 DEF Finish
  <2>2. Complete(found)'
    BY <1>2, <1>3, <2>1, CompleteKept
  <2> QED BY <1>4, <2>1, <2>2 DEF DamagedWalk
<1> QED BY <1>5, <1>6, <1>7

\* The steps before the table, and a stutter.
LEMMA OtherPlaces ==
    ASSUME IDamage, Start \/ ExtractMahasiswa \/ ExtractAcademicInfo \/ UNCHANGED vars
    PROVE  DamagedWalk'
<1>1. UNCHANGED <<plan, damage, found, index>>
  BY DEF Start, ExtractMahasiswa, ExtractAcademicInfo, vars, input
<1>2. \/ pc' = pc
      \/ pc' \in {"no text", "mahasiswa", "academic info", "no mahasiswa",
                  "header", "no academic info"}
  BY DEF Start, ExtractMahasiswa, ExtractAcademicInfo, vars
<1>3. HeaderIntact' = HeaderIntact
  BY <1>1, PlacesKept
<1>4. Placed(found, index) => Placed(found, index)'
  <2>1. PICK fd, i : fd = found /\ i = index
    OBVIOUS
  <2> QED BY <1>1, <2>1, PlacedKept
<1>5. Complete(found) => Complete(found)'
  BY <1>1, CompleteKept
<1>6. CASE pc' = pc
  BY <1>1, <1>3, <1>4, <1>5, <1>6 DEF IDamage, DamagedWalk
<1>7. CASE pc' \in {"no text", "mahasiswa", "academic info", "no mahasiswa",
                    "header", "no academic info"}
  BY <1>7 DEF DamagedWalk
<1> QED BY <1>2, <1>6, <1>7

\* From the start on, whatever the step.
LEMMA DamageInvariance == Spec => []IDamage
<1>1. IDamage /\ [Next]_vars => IDamage'
  <2> SUFFICES ASSUME IDamage, [Next]_vars
               PROVE  IDamage'
    OBVIOUS
  <2>1. IInv'
    BY FindHeaderKeeps, SkipKeeps, TakeKeeps, DecisionKeeps DEF IDamage, Next
  <2>2. UNCHANGED input
    BY DEF Next, Start, ExtractMahasiswa, ExtractAcademicInfo, FindHeader, Skip,
           Take, Finish, vars
  <2>3. Given'
    BY <2>2, GivenKept DEF IDamage
  <2>4. DamagedWalk'
    BY FindHeaderPlaces, WalkPlaces, OtherPlaces DEF Next
  <2> QED BY <2>1, <2>3, <2>4 DEF IDamage
<1> QED BY <1>1, InitIDamage, PTL DEF Spec

-----------------------------------------------------------------------------
(* What the answer is worth. *)

\* Max is what its name says, where there is one.
LEMMA GreatestIndex ==
    ASSUME NEW b \in Nat, NEW S \in SUBSET Nat, S # {}, \A i \in S : i <= b
    PROVE  /\ Max(S) \in S
           /\ \A i \in S : i <= Max(S)
<1> DEFINE T == {t \in Nat : \E i \in S : t = b - i}
<1>1. T \in SUBSET Nat /\ T # {}
  <2>1. PICK i \in S : i <= b /\ i \in Nat
    OBVIOUS
  <2>2. b - i \in Nat
    BY <2>1
  <2> QED BY <2>2
<1>2. Min(T) \in T /\ \A t \in T : Min(T) <= t
  <2> HIDE DEF T
  <2> QED BY <1>1, LeastIndex
<1>3. PICK x \in S : Min(T) = b - x
  BY <1>2
<1>4. \A y \in S : x >= y
  <2> SUFFICES ASSUME NEW y \in S
               PROVE  x >= y
    OBVIOUS
  <2>0. y \in Nat /\ y <= b
    OBVIOUS
  <2>1. b - y \in T
    BY <2>0
  <2>2. Min(T) <= b - y
    BY <1>2, <2>1
  <2>3. x \in Nat /\ y \in Nat
    OBVIOUS
  <2> QED BY <1>3, <2>2, <2>3
<1>5. Max(S) \in S /\ \A y \in S : Max(S) >= y
  BY <1>4, Zenon DEF Max
<1>6. Max(S) \in Nat /\ \A y \in S : y \in Nat
  BY <1>5
<1> QED BY <1>5, <1>6

\* The courses from the damaged one up to the next that is found are disturbed.
LEMMA DisturbedCovers ==
    ASSUME Given, HeaderIntact
    PROVE  /\ Disturbed \subseteq 0 .. Len(plan) + 2
           /\ Disturbed # {} => Damaged \in Disturbed
           /\ \A k \in 1 .. Len(plan) :
                 Damaged <= k /\ k < Resumed => k \in Disturbed
<1>1. PICK n, d : n = Len(plan) /\ d = Damaged
  OBVIOUS
<1>2. /\ n \in Nat /\ plan \in Seq(Course) /\ damage \in Damages
      /\ damage.kind \in {"none", "drop", "cut", "insert"}
      /\ d \in Nat /\ 1 <= d /\ d <= n + 1
  BY <1>1, DamageTyped, PlacesTyped DEF Given
<1>3. CASE damage.kind = "none" \/ InTop
  <2>1. Disturbed = {}
    BY <1>3, DisturbedIs
  <2>2. Damaged = Resumed
    BY <1>2, <1>3, NoneAt, TopAt
  <2>3. \A k \in 1 .. n : ~ (d <= k /\ k < d)
    BY <1>2
  <2> QED BY <1>1, <2>1, <2>2, <2>3
<1>4. CASE damage.kind = "cut"
  <2>1. Disturbed = d .. n /\ Resumed = n + 1
    BY <1>1, <1>2, <1>4, DisturbedIs, CutAt
  <2> QED BY <1>1, <1>2, <2>1
<1>5. CASE damage.kind = "drop" /\ ~ InTop
  <2>1. PICK r : r = Field
    OBVIOUS
  <2>2. /\ Disturbed = {d, d + 1} /\ r \in 1 .. 8
        /\ r <= 4 => Resumed = d + 1
        /\ r > 4 => Resumed = d + 2
    BY <1>1, <1>2, <1>5, <2>1, DisturbedIs, RowAt
  <2>3. Resumed = d + 1 \/ Resumed = d + 2
    BY <2>2
  <2> QED BY <1>1, <1>2, <2>2, <2>3
<1>6. CASE damage.kind = "insert" /\ ~ InTop
  <2>1. PICK r : r = Field
    OBVIOUS
  <2>2. /\ Disturbed = IF r = 1 THEN {} ELSE {d}
        /\ r \in 1 .. 8
        /\ r = 1 => Resumed = d
        /\ r > 1 => Resumed = d + 1
    BY <1>1, <1>2, <1>6, <2>1, DisturbedIs, RowAt
  <2>3. CASE r = 1
    <3>1. \A k \in 1 .. n : ~ (d <= k /\ k < d)
      BY <1>2
    <3> QED BY <1>1, <2>2, <2>3, <3>1
  <2>4. CASE r > 1
    <3>1. Disturbed = {d} /\ Resumed = d + 1
      BY <2>2, <2>4
    <3> QED BY <1>1, <1>2, <3>1
  <2> QED BY <2>2, <2>3, <2>4
<1> QED BY <1>2, <1>3, <1>4, <1>5, <1>6

\* They are among the affected ones, and so are all behind them when a name may
\* end the walk.
LEMMA AffectedCovers ==
    ASSUME Given, HeaderIntact
    PROVE  /\ Disturbed \subseteq Affected
           /\ EndingName => \A k \in 1 .. Len(plan) : Damaged <= k => k \in Affected
<1>1. PICK n, d : n = Len(plan) /\ d = Damaged
  OBVIOUS
<1>2. n \in Nat /\ d \in Nat /\ DOMAIN plan = 1 .. n
  BY <1>1, DamageTyped, PlacesTyped DEF Given
<1>3. CASE ~ EndingName
  BY <1>3 DEF EndingName, Affected
<1>4. CASE EndingName
  <2>1. PICK S : S = Disturbed \cup DOMAIN plan
    OBVIOUS
  <2>2. /\ Disturbed \subseteq 0 .. n + 2 /\ Disturbed # {} /\ d \in Disturbed
    BY <1>1, <1>4, DisturbedCovers DEF EndingName
  <2>3. /\ S \in SUBSET Nat /\ S # {} /\ n + 2 \in Nat
        /\ \A i \in S : i <= n + 2
        /\ Disturbed \in SUBSET Nat
    BY <1>2, <2>1, <2>2
  <2>4. Max(S) \in S /\ \A i \in S : i <= Max(S)
    BY <2>3, GreatestIndex
  <2>5. Min(Disturbed) \in Disturbed /\ \A i \in Disturbed : Min(Disturbed) <= i
    BY <2>2, <2>3, LeastIndex
  <2>6. Affected = Min(Disturbed) .. Max(S)
    BY <1>4, <2>1 DEF EndingName, Affected
  <2>7. Min(Disturbed) \in Nat /\ Max(S) \in Nat
    BY <2>3, <2>4, <2>5
  <2>8. ASSUME NEW k \in Disturbed
        PROVE  k \in Affected
    <3>1. k \in S /\ k \in Nat
      BY <2>1, <2>2
    <3> QED BY <2>4, <2>5, <2>6, <2>7, <3>1
  <2>9. ASSUME NEW k \in 1 .. n, d <= k
        PROVE  k \in Affected
    <3>1. k \in S /\ Min(Disturbed) <= d
      BY <1>2, <2>1, <2>2, <2>5
    <3>2. k <= Max(S)
      BY <2>4, <3>1
    <3> QED BY <1>2, <2>6, <2>7, <2>9, <3>1, <3>2
  <2> QED BY <1>1, <2>8, <2>9
<1> QED BY <1>3, <1>4

\* Eight lines in their places are the course that was printed.
LEMMA CourseRead ==
    ASSUME Given, TypeOK, NEW m \in DOMAIN found, NEW k \in 1 .. Len(plan),
           NEW a \in Nat, found[m] = a + 1, a + 8 <= Len(text),
           \A f \in 1 .. 8 : text[a + f] = Printed(k)[f]
    PROVE  Courses[m] = Printed(k)
<1>1. text \in Seq(Line) /\ Len(text) \in Nat
  BY WalkTyped
<1>2. PICK c : c = SubSeq(text, a + 1, a + 8)
  OBVIOUS
<1>3. c = [f \in 1 .. 8 |-> text[a + f]]
  BY <1>1, <1>2
<1>4. Printed(k) = [f \in 1 .. 8 |-> Printed(k)[f]]
  BY DEF Printed
<1>5. c = Printed(k)
  BY <1>3, <1>4
<1>6. Courses[m] = SubSeq(text, found[m], found[m] + 7)
  BY DEF Courses
<1>7. found[m] + 7 = a + 8
  OBVIOUS
<1> QED BY <1>2, <1>5, <1>6, <1>7

\* Which course of the plan each one that was found is.
LEMMA LayoutRead ==
    ASSUME Given, HeaderIntact, TypeOK, NEW u \in {0, 1}, NEW c \in Nat,
           Layout(found, u, c)
    PROVE  /\ DOMAIN found = 1 .. Damaged - 1 + u + c
           /\ \A m \in 1 .. Damaged - 1 : m \in 1 .. Len(plan) /\ Courses[m] = Printed(m)
           /\ \A i \in 1 .. c :
                 /\ Resumed + i - 1 \in 1 .. Len(plan)
                 /\ Courses[Damaged - 1 + u + i] = Printed(Resumed + i - 1)
<1>1. PICK n, d, r, s : n = Len(plan) /\ d = Damaged /\ r = Resumed /\ s = Shift
  OBVIOUS
<1>2. /\ n \in Nat /\ d \in 1 .. n + 1 /\ d \in Nat /\ r \in Nat /\ r >= 1
      /\ plan \in Seq(Course) /\ damage \in Damages
      /\ damage.kind \in {"none", "drop", "cut", "insert"}
  <2>1. n \in Nat /\ d \in 1 .. n + 1 /\ r \in Nat /\ r >= 1
    BY <1>1, PlacesTyped
  <2> QED BY <2>1, DamageTyped DEF Given
<1>3. /\ Len(found) = d - 1 + u + c
      /\ \A m \in 1 .. d - 1 : found[m] = 8 * m + 1
      /\ \A i \in 1 .. c : found[d - 1 + u + i] = 8 * (r + i - 1) + 1 + s
      /\ c > 0 => r + c <= n + 1
  BY <1>1, Zenon DEF Layout, Before, After
<1>4. DOMAIN found = 1 .. d - 1 + u + c
  BY <1>3, WalkTyped
<1>5. ASSUME NEW m \in 1 .. d - 1
      PROVE  m \in 1 .. n /\ Courses[m] = Printed(m)
  <2>1. m \in 1 .. n /\ m < d /\ m \in DOMAIN found /\ 8 * m \in Nat
    BY <1>2, <1>4
  <2>2. ~ InTop
    <3>1. d # 1
      BY <1>2
    <3> QED BY <1>1, <1>2, <3>1, TopAt
  <2>3. 8 * m + 8 <= Len(text) /\ \A f \in 1 .. 8 : text[8 * m + f] = Printed(m)[f]
    BY <1>1, <2>1, <2>2, CourseBefore
  <2>4. found[m] = 8 * m + 1
    BY <1>3
  <2>5. PICK a \in Nat : a = 8 * m
    BY <2>1
  <2> QED BY <1>1, <2>1, <2>3, <2>4, <2>5, CourseRead
<1>6. ASSUME NEW i \in 1 .. c
      PROVE  /\ r + i - 1 \in 1 .. n
             /\ Courses[d - 1 + u + i] = Printed(r + i - 1)
  <2>1. PICK k, m : k = r + i - 1 /\ m = d - 1 + u + i
    OBVIOUS
  <2>2. r + c <= n + 1
    BY <1>3
  <2>3. k \in 1 .. n /\ r <= k /\ m \in DOMAIN found /\ r <= n
    BY <1>2, <1>4, <2>1, <2>2
  <2>4. damage.kind \in {"drop", "insert"}
    <3>1. r # n + 1
      BY <1>2, <2>3
    <3> QED BY <1>1, <1>2, <3>1, NoneAt, CutAt
  <2>5. /\ 8 * k + 8 + s <= Len(text)
        /\ \A f \in 1 .. 8 : text[8 * k + f + s] = Printed(k)[f]
    BY <1>1, <2>3, <2>4, CourseAfter
  <2>6. s \in {-1, 1}
    BY <1>1, <2>4 DEF Shift
  <2>7. PICK a \in Nat : a = 8 * k + s
    BY <2>3, <2>6
  <2>8. /\ found[m] = a + 1 /\ a + 8 <= Len(text)
        /\ \A f \in 1 .. 8 : text[a + f] = Printed(k)[f]
    <3>1. found[m] = 8 * k + 1 + s
      BY <1>3, <2>1
    <3>2. k \in Nat /\ \A f \in 1 .. 8 : a + f = 8 * k + f + s
      BY <2>3, <2>6, <2>7
    <3>3. a + 8 = 8 * k + 8 + s /\ a + 1 = 8 * k + 1 + s
      BY <2>6, <2>7, <3>2
    <3> QED BY <2>5, <3>1, <3>2, <3>3
  <2> QED BY <1>1, <2>1, <2>3, <2>8, CourseRead
<1> QED BY <1>1, <1>4, <1>5, <1>6

\* What the invariant says of a walk that is over.
LEMMA WalkOver ==
    ASSUME IDamage, Walked, HeaderIntact
    PROVE  /\ pc \in {"no courses", "success"} /\ (pc = "success") = (found # <<>>)
           /\ \E u \in {0, 1}, c \in Nat :
                 /\ Layout(found, u, c)
                 /\ Resumed + c > Len(plan) \/ (c = 0 /\ EndingName)
<1>1. pc # "no table" /\ pc \in {"no courses", "success"}
  BY DEF IDamage, DamagedWalk, Walked
<1>2. Complete(found) /\ (pc = "success") = (found # <<>>)
  BY <1>1 DEF IDamage, DamagedWalk
<1> QED BY <1>1, <1>2 DEF Complete

\* A damaged line costs no course but the affected ones, and at most one course is
\* returned that was not printed: for every plan and every single damage.
THEOREM LocalDamage == Spec => []DamageStaysLocal
<1>1. ASSUME IDamage, Walked, HeaderIntact
      PROVE  /\ \A k \in DOMAIN plan \ Affected :
                   \E m \in DOMAIN found : Courses[m] = Printed(k)
             /\ Quantify(DOMAIN found, LAMBDA m :
                   \A k \in DOMAIN plan : Courses[m] # Printed(k)) <= 1
  <2>1. Given /\ TypeOK
    BY <1>1 DEF IDamage, IInv
  <2>2. PICK n, d, r : n = Len(plan) /\ d = Damaged /\ r = Resumed
    OBVIOUS
  <2>3. /\ n \in Nat /\ d \in Nat /\ 1 <= d /\ r \in Nat /\ d <= r
        /\ DOMAIN plan = 1 .. n
    BY <1>1, <2>1, <2>2, PlacesTyped, DamageTyped DEF Given
  <2>4. PICK u \in {0, 1}, c \in Nat :
            /\ Layout(found, u, c)
            /\ r + c > n \/ (c = 0 /\ EndingName)
    BY <1>1, <2>2, WalkOver
  <2>5. /\ DOMAIN found = 1 .. d - 1 + u + c
        /\ \A m \in 1 .. d - 1 : m \in 1 .. n /\ Courses[m] = Printed(m)
        /\ \A i \in 1 .. c :
              r + i - 1 \in 1 .. n /\ Courses[d - 1 + u + i] = Printed(r + i - 1)
    BY <1>1, <2>1, <2>2, <2>4, LayoutRead
  <2>6. ASSUME NEW k \in DOMAIN plan \ Affected
        PROVE  \E m \in DOMAIN found : Courses[m] = Printed(k)
    <3>1. CASE k < d
      <4>1. k \in 1 .. d - 1 /\ k \in DOMAIN found
        BY <2>3, <2>5, <3>1
      <4> QED BY <2>5, <4>1
    <3>2. CASE k >= d
      <4>1. k \notin Disturbed /\ ~ EndingName
        BY <1>1, <2>1, <2>2, <2>3, <3>2, AffectedCovers
      <4>2. k >= r
        BY <1>1, <2>1, <2>2, <2>3, <3>2, <4>1, DisturbedCovers
      <4>3. PICK i : i = k - r + 1
        OBVIOUS
      <4>4. /\ i \in 1 .. c /\ r + i - 1 = k
            /\ d - 1 + u + i \in 1 .. d - 1 + u + c
        <5>1. r + c > n
          BY <2>4, <4>1
        <5>2. k \in Nat /\ k <= n /\ r <= k
          BY <2>3, <4>2
        <5> QED BY <2>3, <4>3, <5>1, <5>2
      <4>5. Courses[d - 1 + u + i] = Printed(r + i - 1)
        BY <2>5, <4>4
      <4> QED BY <2>5, <4>4, <4>5
    <3> QED BY <2>3, <3>1, <3>2
  <2>7. PICK U : U = {m \in DOMAIN found : \A k \in DOMAIN plan : Courses[m] # Printed(k)}
    OBVIOUS
  <2>8. U \subseteq {d}
    <3> SUFFICES ASSUME NEW m \in U
                 PROVE  m = d
      OBVIOUS
    <3>1. /\ m \in 1 .. d - 1 + u + c
          /\ \A k \in 1 .. n : Courses[m] # Printed(k)
      BY <2>3, <2>5, <2>7
    <3>2. ~ (m \in 1 .. d - 1)
      BY <2>5, <3>1
    <3>3. ASSUME m > d - 1 + u
          PROVE  FALSE
      <4>1. PICK i : i = m - (d - 1 + u)
        OBVIOUS
      <4>2. i \in 1 .. c /\ m = d - 1 + u + i
        BY <2>3, <3>1, <3>3, <4>1
      <4>3. r + i - 1 \in 1 .. n /\ Courses[m] = Printed(r + i - 1)
        BY <2>5, <4>2
      <4> QED BY <3>1, <4>3
    <3> QED BY <2>3, <3>1, <3>2, <3>3
  <2>9. Cardinality(U) <= 1
    <3>1. IsFiniteSet({d}) /\ Cardinality({d}) = 1
      BY FS_Singleton
    <3>2. U \in SUBSET {d}
      BY <2>8
    <3>3. Cardinality(U) <= Cardinality({d})
      BY <3>1, <3>2, FS_Subset
    <3> QED BY <3>1, <3>3
  <2>10. Quantify(DOMAIN found, LAMBDA m :
            \A k \in DOMAIN plan : Courses[m] # Printed(k)) <= 1
    BY <2>7, <2>9 DEF Quantify
  <2> QED BY <2>6, <2>10
<1>2. IDamage => DamageStaysLocal
  BY <1>1 DEF DamageStaysLocal
<1> QED BY <1>2, DamageInvariance, PTL

\* A plan whose courses survived is read exactly, wherever else its text was
\* damaged; and just a damaged header makes the table be missed.
THEOREM IntactExact == Spec => []IntactPlanExact
<1>1. ASSUME IDamage, Walked, HeaderIntact, Affected \cap DOMAIN plan = {}
      PROVE  /\ Courses = [k \in DOMAIN plan |-> Printed(k)]
             /\ (pc = "success") = (plan # <<>>)
  <2>1. Given /\ TypeOK
    BY <1>1 DEF IDamage, IInv
  <2>2. PICK n, d, r : n = Len(plan) /\ d = Damaged /\ r = Resumed
    OBVIOUS
  <2>3. /\ n \in Nat /\ d \in Nat /\ 1 <= d /\ d <= n + 1 /\ r \in Nat /\ d <= r
        /\ DOMAIN plan = 1 .. n
    BY <1>1, <2>1, <2>2, PlacesTyped, DamageTyped DEF Given
  <2>4. PICK u \in {0, 1}, c \in Nat :
            /\ Layout(found, u, c)
            /\ r + c > n \/ (c = 0 /\ EndingName)
    BY <1>1, <2>2, WalkOver
  <2>5. /\ DOMAIN found = 1 .. d - 1 + u + c
        /\ \A m \in 1 .. d - 1 : m \in 1 .. n /\ Courses[m] = Printed(m)
        /\ \A i \in 1 .. c :
              r + i - 1 \in 1 .. n /\ Courses[d - 1 + u + i] = Printed(r + i - 1)
    BY <1>1, <2>1, <2>2, <2>4, LayoutRead
  <2>6. ~ EndingName /\ \A k \in 1 .. n : k \notin Disturbed
    <3>1. Disturbed \cap DOMAIN plan = {}
      BY <1>1, <2>1, AffectedCovers
    <3> QED BY <2>3, <3>1 DEF EndingName
  <2>7. d <= n => d = r
    BY <1>1, <2>1, <2>2, <2>3, <2>6, DisturbedCovers
  <2>8. u = 1 => d <= n /\ d < r
    BY <2>2, <2>4 DEF Layout
  <2>9. c > 0 => r + c <= n + 1
    BY <2>2, <2>4 DEF Layout
  <2>10. u = 0 /\ d - 1 + u + c = n
    BY <2>3, <2>4, <2>6, <2>7, <2>8, <2>9
  <2>11. ASSUME NEW k \in 1 .. n
         PROVE  Courses[k] = Printed(k)
    <3>1. CASE k < d
      <4>1. k \in 1 .. d - 1
        BY <2>3, <3>1
      <4> QED BY <2>5, <4>1
    <3>2. CASE k >= d
      <4>1. PICK i : i = k - d + 1
        OBVIOUS
      <4>2. d = r
        BY <2>3, <2>7, <3>2
      <4>3. i \in 1 .. c /\ r + i - 1 = k /\ d - 1 + u + i = k
        BY <2>3, <2>10, <3>2, <4>1, <4>2
      <4>4. Courses[d - 1 + u + i] = Printed(r + i - 1)
        BY <2>5, <4>3
      <4> QED BY <4>3, <4>4
    <3> QED BY <2>3, <3>1, <3>2
  <2>12. Courses = [k \in DOMAIN plan |-> Printed(k)]
    <3>1. DOMAIN found = 1 .. n
      BY <2>5, <2>10
    <3>2. Courses = [k \in 1 .. n |-> Courses[k]]
      BY <3>1 DEF Courses
    <3>3. [k \in 1 .. n |-> Courses[k]] = [k \in 1 .. n |-> Printed(k)]
      BY <2>11
    <3> QED BY <2>3, <3>2, <3>3
  <2>13. (found # <<>>) = (plan # <<>>)
    <3>1. n # 0 => plan # <<>> /\ found # <<>>
      BY <2>3, <2>5, <2>10
    <3>2. n = 0 => plan = <<>> /\ found = <<>>
      <4>1. plan \in Seq(Course) /\ found \in Seq(1 .. Len(text))
            /\ Len(plan) = n /\ Len(found) = n
        <5>1. plan \in Seq(Course) /\ found \in Seq(1 .. Len(text))
          BY <2>1, WalkTyped DEF Given
        <5>2. Len(found) = n
          BY <2>1, <2>2, <2>4, <2>10 DEF Layout
        <5> QED BY <2>2, <5>1, <5>2
      <4> QED BY <4>1, EmptySeq
    <3> QED BY <3>1, <3>2
  <2>14. (pc = "success") = (found # <<>>)
    BY <1>1, WalkOver
  <2> QED BY <2>12, <2>13, <2>14
<1>2. ASSUME IDamage, Walked
      PROVE  (pc = "no table") = ~ HeaderIntact
  BY <1>2 DEF IDamage, DamagedWalk, Walked
<1>3. IDamage => IntactPlanExact
  BY <1>1, <1>2 DEF IntactPlanExact
<1> QED BY <1>3, DamageInvariance, PTL
=============================================================================
