-------------------------- MODULE KRSErrorsProofs --------------------------
(***************************************************************************)
(* The status an error is answered with does not depend on how often       *)
(* fmt.Errorf has wrapped it on its way to the handler, and every chain is *)
(* answered with one of the package's own answers.                         *)
(***************************************************************************)
EXTENDS KRSErrors, WellFoundedInduction, TLAPS

\* Min is what its name says.
LEMMA LeastMatch ==
    ASSUME NEW S \in SUBSET Nat, S # {}
    PROVE  /\ Min(S) \in S
           /\ \A i \in S : Min(S) <= i
<1> DEFINE R == {ss \in Nat \X Nat : ss[1] < ss[2]}
<1>1. IsWellFoundedOn(R, Nat)
  BY NatLessThanWellFounded DEF OpToRel
<1>2. PICK x \in S : \A y \in S : ~ (<<y, x>> \in R)
  <2> HIDE DEF R
  <2> QED BY <1>1, WFMin
<1>3. ASSUME NEW y \in S
      PROVE  x =< y
  <2>1. x \in Nat /\ y \in Nat /\ ~ (<<y, x>> \in R)
    BY <1>2
  <2>2. ~ (y < x)
    BY <2>1
  <2> QED BY <2>1, <2>2
<1> QED BY <1>3, Zenon DEF Min

\* No case is about the links that wrapping adds.
LEMMA CasesTyped ==
    /\ DOMAIN Cases = 1 .. 13
    /\ \A i \in DOMAIN Cases : Cases[i].link # "wrap"
<1>1. DOMAIN Cases = 1 .. 13
  BY DEF Cases
<1>2. \A i \in 1 .. 13 : Cases[i].link # "wrap"
  BY DEF Cases
<1> QED BY <1>1, <1>2

\* A link of a concatenation is a link of one of its parts.
LEMMA HasConcat ==
    ASSUME NEW Link, NEW s \in Seq(Link), NEW t \in Seq(Link), NEW link
    PROVE  Has(s \o t, link) <=> Has(s, link) \/ Has(t, link)
<1> DEFINE chain == s \o t
<1>1. /\ chain \in Seq(Link)
      /\ Len(s) \in Nat /\ Len(t) \in Nat
      /\ Len(chain) = Len(s) + Len(t)
  OBVIOUS
<1>2. \A i \in 1 .. Len(s) : chain[i] = s[i]
  OBVIOUS
<1>3. \A i \in 1 .. Len(t) : chain[Len(s) + i] = t[i]
  OBVIOUS
<1>4. DOMAIN chain = 1 .. Len(chain) /\ DOMAIN s = 1 .. Len(s) /\ DOMAIN t = 1 .. Len(t)
  BY <1>1
<1> HIDE DEF chain
<1>5. ASSUME Has(s, link)
      PROVE  Has(chain, link)
  BY <1>1, <1>2, <1>4, <1>5 DEF Has
<1>6. ASSUME Has(t, link)
      PROVE  Has(chain, link)
  <2>1. PICK i \in 1 .. Len(t) : t[i] = link
    BY <1>4, <1>6 DEF Has
  <2>2. Len(s) + i \in 1 .. Len(chain) /\ chain[Len(s) + i] = link
    BY <1>1, <1>3, <2>1
  <2> QED BY <1>4, <2>2 DEF Has
<1>7. ASSUME Has(chain, link), ~ Has(s, link)
      PROVE  Has(t, link)
  <2>1. PICK i \in 1 .. Len(chain) : chain[i] = link
    BY <1>4, <1>7 DEF Has
  <2>2. i \notin 1 .. Len(s)
    BY <1>2, <1>4, <1>7, <2>1 DEF Has
  <2>3. i - Len(s) \in 1 .. Len(t) /\ i = Len(s) + (i - Len(s))
    BY <1>1, <2>1, <2>2
  <2>4. t[i - Len(s)] = link
    BY <1>3, <2>1, <2>3
  <2> QED BY <1>4, <2>3, <2>4 DEF Has
<1> QED BY <1>5, <1>6, <1>7 DEF chain

\* Layers of context hide no link and add none a case could match.
LEMMA WrapMatches ==
    ASSUME NEW Link, NEW err \in Seq(Link \cup {"wrap"}),
           NEW layers \in Seq({"wrap"}),
           NEW link, link # "wrap"
    PROVE  Has(layers \o err, link) <=> Has(err, link)
<1>1. layers \in Seq(Link \cup {"wrap"})
  OBVIOUS
<1>2. ~ Has(layers, link)
  BY DEF Has
<1> QED BY <1>1, <1>2, HasConcat

\* MapErrorToHTTPStatus (errors.go) sees through every number of layers of
\* fmt.Errorf("...: %w", err): the answer is the one to the error inside.
THEOREM WrappingKeepsStatus ==
    ASSUME NEW Link, NEW err \in Seq(Link \cup {"wrap"}),
           NEW layers \in Seq({"wrap"})
    PROVE  MapErrorToHTTPStatus(layers \o err) = MapErrorToHTTPStatus(err)
<1>1. \A i \in DOMAIN Cases :
        Has(layers \o err, Cases[i].link) <=> Has(err, Cases[i].link)
  BY CasesTyped, WrapMatches
<1>2. {i \in DOMAIN Cases : Has(layers \o err, Cases[i].link)}
        = {i \in DOMAIN Cases : Has(err, Cases[i].link)}
  BY <1>1
<1> QED BY <1>2, Zenon DEF MapErrorToHTTPStatus

-----------------------------------------------------------------------------
\* The case that decides when i is the first that matches.
LEMMA FirstCase ==
    ASSUME NEW err, NEW i \in DOMAIN Cases,
           Has(err, Cases[i].link),
           \A j \in DOMAIN Cases : Has(err, Cases[j].link) => i <= j
    PROVE  MapErrorToHTTPStatus(err) = [status |-> Cases[i].status, code |-> Cases[i].code]
<1> DEFINE S == {j \in DOMAIN Cases : Has(err, Cases[j].link)}
<1>1. S \in SUBSET Nat /\ i \in S /\ DOMAIN Cases \subseteq Nat
  BY CasesTyped
<1>2. Min(S) \in S /\ \A j \in S : Min(S) <= j
  BY <1>1, LeastMatch
<1>3. Min(S) = i
  BY <1>1, <1>2
<1> QED BY <1>1, <1>3, Zenon DEF MapErrorToHTTPStatus

\* An error no case matches is an internal one.
LEMMA NoCase ==
    ASSUME NEW err, \A j \in DOMAIN Cases : ~ Has(err, Cases[j].link)
    PROVE  MapErrorToHTTPStatus(err) = InternalServer
BY Zenon DEF MapErrorToHTTPStatus

\* Whatever the chain, the answer is the internal error or one of the cases.
LEMMA AnswerTyped ==
    ASSUME NEW err
    PROVE  MapErrorToHTTPStatus(err) \in Answers
<1> DEFINE S == {j \in DOMAIN Cases : Has(err, Cases[j].link)}
<1>1. CASE S = {}
  <2>1. MapErrorToHTTPStatus(err) = InternalServer
    BY <1>1, NoCase
  <2> QED BY <2>1 DEF Answers
<1>2. CASE S # {}
  <2>1. S \in SUBSET Nat
    BY CasesTyped
  <2>2. Min(S) \in S /\ \A j \in S : Min(S) <= j
    BY <1>2, <2>1, LeastMatch
  <2>3. PICK i \in DOMAIN Cases :
          MapErrorToHTTPStatus(err) = [status |-> Cases[i].status, code |-> Cases[i].code]
    BY <2>2, FirstCase
  <2> QED BY <2>3, Zenon DEF Answers
<1> QED BY <1>1, <1>2

-----------------------------------------------------------------------------
(* The chains that come out of ProcessKRSFromURL. *)

Chain ==
    Seq({"wrap", "plain", "canceled", "deadline", "PDFDownloadFailed", "InvalidResponse"})

\* A chain of one link.
LEMMA SingleLink ==
    ASSUME NEW x \in {"wrap", "plain", "canceled", "deadline",
                      "PDFDownloadFailed", "InvalidResponse"}
    PROVE  <<x>> \in Chain /\ \A link : Has(<<x>>, link) <=> link = x
<1>1. <<x>> \in Chain
  BY DEF Chain
<1>2. DOMAIN <<x>> = {1} /\ <<x>>[1] = x
  OBVIOUS
<1> QED BY <1>1, <1>2 DEF Has

\* What the two ways to wrap an error add to its chain.
LEMMA WrapLinks ==
    ASSUME NEW err \in Chain
    PROVE  /\ Wrap(err) \in Chain
           /\ PDFDownloadFailed(err) \in Chain
           /\ \A link : Has(Wrap(err), link) <=> link = "wrap" \/ Has(err, link)
           /\ \A link : Has(PDFDownloadFailed(err), link)
                          <=> link = "PDFDownloadFailed" \/ Has(err, link)
<1>1. ASSUME NEW x \in {"wrap", "PDFDownloadFailed"}
      PROVE  /\ <<x>> \o err \in Chain
             /\ \A link : Has(<<x>> \o err, link) <=> link = x \/ Has(err, link)
  <2>1. <<x>> \in Chain /\ \A link : Has(<<x>>, link) <=> link = x
    BY SingleLink
  <2>2. <<x>> \o err \in Chain
    <3>1. PICK s, S : s = <<x>> /\ Chain = Seq(S)
      BY DEF Chain
    <3>2. s \in Seq(S) /\ err \in Seq(S)
      BY <2>1, <3>1, Zenon
    <3>3. s \o err \in Seq(S)
      BY <3>2
    <3> QED BY <3>1, <3>3, Zenon
  <2>3. \A link : Has(<<x>> \o err, link) <=> Has(<<x>>, link) \/ Has(err, link)
    BY <2>1, HasConcat DEF Chain
  <2> QED BY <2>1, <2>2, <2>3
<1> QED BY <1>1 DEF Wrap, PDFDownloadFailed

\* The cases such a chain can match, and their order.
LEMMA ChainStatus ==
    ASSUME NEW err \in Chain
    PROVE  MapErrorToHTTPStatus(err).status =
             IF Has(err, "PDFDownloadFailed") \/ Has(err, "InvalidResponse") THEN 502
             ELSE IF Has(err, "deadline") THEN 504
             ELSE 500
<1>1. /\ Cases[5].link = "PDFDownloadFailed" /\ Cases[5].status = 502
      /\ Cases[8].link = "InvalidResponse" /\ Cases[8].status = 502
      /\ Cases[13].link = "deadline" /\ Cases[13].status = 504
      /\ InternalServer.status = 500
  BY DEF Cases, InternalServer
<1>2. \A j \in 1 .. 13 \ {5, 8, 13} :
        Cases[j].link \notin {"wrap", "plain", "canceled", "deadline",
                              "PDFDownloadFailed", "InvalidResponse"}
  BY DEF Cases
<1>3. \A link : Has(err, link) =>
        link \in {"wrap", "plain", "canceled", "deadline",
                  "PDFDownloadFailed", "InvalidResponse"}
  BY DEF Has, Chain
<1>4. \A j \in DOMAIN Cases : Has(err, Cases[j].link) => j \in {5, 8, 13}
  BY <1>2, <1>3, CasesTyped
<1>5. 5 \in DOMAIN Cases /\ 8 \in DOMAIN Cases /\ 13 \in DOMAIN Cases
  BY CasesTyped
<1>6. ASSUME NEW i \in {5, 8, 13}, Has(err, Cases[i].link),
             \A j \in DOMAIN Cases : Has(err, Cases[j].link) => i <= j
      PROVE  MapErrorToHTTPStatus(err).status = Cases[i].status
  BY <1>5, <1>6, FirstCase
<1>7. CASE Has(err, "PDFDownloadFailed")
  <2>1. \A j \in DOMAIN Cases : Has(err, Cases[j].link) => 5 <= j
    BY <1>4
  <2> QED BY <1>1, <1>6, <1>7, <2>1
<1>8. CASE ~ Has(err, "PDFDownloadFailed") /\ Has(err, "InvalidResponse")
  <2>1. \A j \in DOMAIN Cases : Has(err, Cases[j].link) => 8 <= j
    BY <1>1, <1>4, <1>8
  <2> QED BY <1>1, <1>6, <1>8, <2>1
<1>9. CASE /\ ~ Has(err, "PDFDownloadFailed") /\ ~ Has(err, "InvalidResponse")
           /\ Has(err, "deadline")
  <2>1. \A j \in DOMAIN Cases : Has(err, Cases[j].link) => 13 <= j
    BY <1>1, <1>4, <1>9
  <2> QED BY <1>1, <1>6, <1>9, <2>1
<1>10. CASE /\ ~ Has(err, "PDFDownloadFailed") /\ ~ Has(err, "InvalidResponse")
            /\ ~ Has(err, "deadline")
  <2>1. \A j \in DOMAIN Cases : ~ Has(err, Cases[j].link)
    BY <1>1, <1>4, <1>10
  <2> QED BY <1>1, <1>10, <2>1, NoCase
<1> QED BY <1>7, <1>8, <1>9, <1>10
=============================================================================
