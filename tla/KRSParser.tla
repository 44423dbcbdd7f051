----------------------------- MODULE KRSParser -----------------------------
(***************************************************************************)
(* The parser of the text of a study plan                                  *)
(* (src/internal/parser/krs_parser.go).  The course table has one field    *)
(* per line: a header of seven lines, eight lines per course, an end       *)
(* marker.  ExtractMataKuliah walks over the lines; where eight lines are  *)
(* not a course it moves on by one line and tries again.                   *)
(*                                                                         *)
(* Of a trimmed line the walk can tell its kind and nothing else.          *)
(* Sequences count from 1 here and from 0 in the code.                     *)
(*                                                                         *)
(* The text is a plan as the campus prints it, damaged in at most one      *)
(* place by the extraction from the PDF, which the parser does not know.   *)
(***************************************************************************)
EXTENDS Integers, SequencesExt, FiniteSetsExt

CONSTANTS
    Credits,     \* the lines that may stand for the credits of a course
    Stray,       \* the lines that the extraction may insert
    MaxCourses   \* bound on the courses of a plan

\* "spaced" is a number with a no-break space inside: strconv.Atoi refuses it
\* unless the space is removed first.
Line ==
    [kind : {"blank", "text", "number", "spaced", "header", "end"}, value : Nat]

ASSUME ParserAssumption ==
    /\ Credits \subseteq [kind : {"number", "spaced"}, value : Nat]
    /\ Stray \subseteq [kind : {"blank", "text", "number"}, value : Nat]
    /\ MaxCourses \in Nat

VARIABLES
    plan,    \* what was printed: per course, its credits and its name
    damage,  \* what happened to the text
    text,    \* the lines the parser is given
    pc,      \* the part of Parse that runs, or its result
    index,   \* headerIndex: the line the walk is at
    found,   \* matkulList, each course by its first line
    total    \* totalSKS

input == <<plan, damage, text>>
vars == <<input, pc, index, found, total>>

-----------------------------------------------------------------------------
(* The text of a plan; its foot is the one of                              *)
(* test/fixtures/sample_krs_text.go:43-49.                                 *)

Text(word) == [kind |-> "text", value |-> word]
Number(n) == [kind |-> "number", value |-> n]
End == [kind |-> "end", value |-> 0]

\* A course is its line of credits and what kind of line its name is: a name in
\* which a word of the end marker occurs is one to the walk.
Course == [credits : Credits, name : {"text", "end"}]

Top == <<Text(1)>>
Header == [j \in 1 .. 7 |-> [kind |-> "header", value |-> j]]
Bottom == <<End, Number(9), Text(2), End, End, Text(3), Text(4)>>

\* The eight lines of course k: number, code, name, credits, class, lecturer,
\* day, time.
Printed(k) ==
    [f \in 1 .. 8 |-> CASE f = 1 -> Number(k)
                        [] f = 3 -> [kind |-> plan[k].name, value |-> 10 * k + 3]
                        [] f = 4 -> plan[k].credits
                        [] OTHER -> Text(10 * k + f)]

Rows ==
    [q \in 1 .. 8 * Len(plan) |-> Printed(((q - 1) \div 8) + 1)[((q - 1) % 8) + 1]]

Page == Top \o Header \o Rows \o Bottom

\* The first line after the header, and the course a line of Page belongs to.
FirstRow == Len(Top) + Len(Header) + 1
CourseOf(line) == ((line - FirstRow) \div 8) + 1

NoDamage == [kind |-> "none", at |-> 0, line |-> End]

Damages ==
    {NoDamage}
    \cup [kind : {"drop"}, at : 1 .. Len(Page), line : {End}]
    \cup [kind : {"cut"}, at : 0 .. Len(Page), line : {End}]
    \cup [kind : {"insert"}, at : 1 .. Len(Page) + 1, line : Stray]

Extracted ==
    CASE damage.kind = "none"   -> Page
      [] damage.kind = "drop"   -> RemoveAt(Page, damage.at)
      [] damage.kind = "cut"    -> SubSeq(Page, 1, damage.at)
      [] damage.kind = "insert" -> InsertAt(Page, damage.at, damage.line)

-----------------------------------------------------------------------------
Failures == {"no text", "no mahasiswa", "no academic info", "no table", "no courses"}
Results == Failures \cup {"success"}

TypeOK ==
    /\ text \in Seq(Line)
    /\ pc \in {"parse", "mahasiswa", "academic info", "header", "rows"} \cup Results
    /\ index \in 1 .. Len(text) + 1
    /\ found \in Seq(1 .. Len(text))
    /\ total \in Nat

Init ==
    /\ plan \in BoundedSeq(Course, MaxCourses)
    /\ damage \in Damages
    /\ text = Extracted
    /\ pc = "parse"
    /\ index = 1
    /\ found = <<>>
    /\ total = 0

-----------------------------------------------------------------------------
\* Parse gives up on an empty text.
Start ==
    /\ pc = "parse"
    /\ pc' = IF text = <<>> THEN "no text" ELSE "mahasiswa"
    /\ UNCHANGED <<input, index, found, total>>

\* ExtractMahasiswa finds NPM, name and programme, or not; then
\* ExtractAcademicInfo finds year and semester, or not.
ExtractMahasiswa ==
    /\ pc = "mahasiswa"
    /\ pc' \in {"academic info", "no mahasiswa"}
    /\ UNCHANGED <<input, index, found, total>>

ExtractAcademicInfo ==
    /\ pc = "academic info"
    /\ pc' \in {"header", "no academic info"}
    /\ UNCHANGED <<input, index, found, total>>

\* ExtractMataKuliah looks for the seven lines of the header.
HeaderAt(i) ==
    /\ i + 6 <= Len(text)
    /\ \A j \in 1 .. 7 : text[i + j - 1] = Header[j]

FindHeader ==
    LET at == {i \in DOMAIN text : HeaderAt(i)}
    IN  /\ pc = "header"
        /\ IF at = {}
           THEN pc' = "no table" /\ UNCHANGED index
           ELSE pc' = "rows" /\ index' = Min(at) + 7
        /\ UNCHANGED <<input, found, total>>

\* Blank lines before a course are skipped.
Here == Min({i \in index .. Len(text) + 1 :
               i = Len(text) + 1 \/ text[i].kind # "blank"})

\* Mutant of Fits: one line short of a course will do.
FitsShort(i) == i + 6 <= Len(text)

\* Eight lines are left for a course.
Fits(i) == i + 7 <= Len(text)

\* Mutant of IsCredits: the no-break space is left in.
IsCreditsSpaced(line) == line.kind = "number"

\* No-break spaces are removed from the credits before Atoi, but not from the
\* number of the course.
IsCredits(line) == line.kind \in {"number", "spaced"}

AtEnd == Fits(Here) => text[Here].kind = "end"
AtCourse == text[Here].kind = "number" /\ IsCredits(text[Here + 3])

\* Mutant of Skip: a whole course is skipped.
SkipCourse ==
    /\ pc = "rows"
    /\ ~AtEnd /\ ~AtCourse
    /\ index' = Min({Here + 8, Len(text) + 1})
    /\ UNCHANGED <<input, pc, found, total>>

\* Mutant of Skip: the walk goes on without moving on.
SkipNothing ==
    /\ pc = "rows"
    /\ ~AtEnd /\ ~AtCourse
    /\ index' = Here
    /\ UNCHANGED <<input, pc, found, total>>

\* The number or the credits are no number: try the next line.
Skip ==
    /\ pc = "rows"
    /\ ~AtEnd /\ ~AtCourse
    /\ index' = Here + 1
    /\ UNCHANGED <<input, pc, found, total>>

\* Mutant of Take: the last line of a course is looked at again.
TakeSeven ==
    /\ pc = "rows"
    /\ ~AtEnd /\ AtCourse
    /\ found' = Append(found, Here)
    /\ total' = total + text[Here + 3].value
    /\ index' = Here + 7
    /\ UNCHANGED <<input, pc>>

\* Eight lines are a course.
Take ==
    /\ pc = "rows"
    /\ ~AtEnd /\ AtCourse
    /\ found' = Append(found, Here)
    /\ total' = total + text[Here + 3].value
    /\ index' = Here + 8
    /\ UNCHANGED <<input, pc>>

\* The end marker, or too few lines: a plan without courses is an error.
Finish ==
    /\ pc = "rows"
    /\ AtEnd
    /\ pc' = IF found = <<>> THEN "no courses" ELSE "success"
    /\ UNCHANGED <<input, index, found, total>>

Next ==
    \/ Start \/ ExtractMahasiswa \/ ExtractAcademicInfo
    \/ FindHeader \/ Skip \/ Take \/ Finish

\* The parser is a sequential computation that is not interrupted.
Spec == Init /\ [][Next]_vars /\ WF_vars(Next)

-----------------------------------------------------------------------------
Courses == [m \in DOMAIN found |-> SubSeq(text, found[m], found[m] + 7)]

Walked == pc \in {"no table", "no courses", "success"}

\* The header survived.
HeaderIntact ==
    CASE damage.kind = "none"   -> TRUE
      [] damage.kind = "drop"   -> damage.at <= Len(Top) \/ damage.at >= FirstRow
      [] damage.kind = "cut"    -> damage.at >= FirstRow - 1
      [] damage.kind = "insert" ->
            damage.at <= Len(Top) + 1 \/ damage.at >= FirstRow

\* The courses the walk may have to resynchronise in: the one the damage is in,
\* and the one after it when a line is missing, for its number is read as the
\* last field of the damaged one.  A line inserted between two courses does not
\* disturb the walk.
Disturbed ==
    IF damage.kind = "none" \/ damage.at < FirstRow - 1 THEN {}
    ELSE CASE damage.kind = "drop" ->
                {CourseOf(damage.at), CourseOf(damage.at) + 1}
           [] damage.kind = "cut" -> CourseOf(damage.at + 1) .. Len(plan)
           [] damage.kind = "insert" ->
                IF (damage.at - FirstRow) % 8 = 0 THEN {} ELSE {CourseOf(damage.at)}

\* The courses that the damage may cost: those, and every later one when the walk
\* may come upon a name that ends it.
Affected ==
    IF \E k \in Disturbed \cap DOMAIN plan : plan[k].name = "end"
    THEN Min(Disturbed) .. Max(Disturbed \cup DOMAIN plan)
    ELSE Disturbed

\* A plan whose courses survived is read exactly: every course with all its
\* fields, in order, with the sum of the credits; the parser complains of a
\* missing table or of missing courses just when there are none.
IntactPlanExact ==
    Walked =>
        /\ (pc = "no table") = ~HeaderIntact
        /\ HeaderIntact /\ Affected \cap DOMAIN plan = {} =>
              /\ Courses = [k \in DOMAIN plan |-> Printed(k)]
              /\ (pc = "success") = (plan # <<>>)

\* Resynchronising by one line is enough: a damaged line costs no more than
\* the affected courses, which are all the later ones only when the name of a
\* disturbed one holds a word of the end marker; and at most one course is
\* returned that was not printed.
DamageStaysLocal ==
    Walked /\ HeaderIntact =>
        /\ \A k \in DOMAIN plan \ Affected :
              \E m \in DOMAIN found : Courses[m] = Printed(k)
        /\ Quantify(DOMAIN found, LAMBDA m :
              \A k \in DOMAIN plan : Courses[m] # Printed(k)) <= 1

\* The courses found are disjoint stretches of the text, in its order and behind
\* the walk: no line is read into two courses, however the walk had to
\* resynchronise.
CoursesDisjoint ==
    \A m \in DOMAIN found :
        /\ found[m] + 8 <= index
        /\ \A l \in 1 .. m - 1 : found[l] + 8 <= found[m]

\* At any time the courses found are disjoint, and the total is the sum of their
\* credits.
AnswerAddsUp ==
    /\ CoursesDisjoint
    /\ total = MapThenSumSet(LAMBDA m : text[found[m] + 3].value, DOMAIN found)

\* Whatever the text, the walk comes to an end.
ParseReturns == <>(pc \in Results)
=============================================================================
