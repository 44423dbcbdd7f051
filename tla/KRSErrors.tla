----------------------------- MODULE KRSErrors -----------------------------
(***************************************************************************)
(* Errors and the HTTP status each is answered with                        *)
(* (src/internal/model/errors.go).  An error is the sequence of the links  *)
(* of its chain, outermost first, as errors.Unwrap walks it: "wrap" is     *)
(* what fmt.Errorf("...: %w", err) adds, "plain" an error of no type of    *)
(* the package.  A nil error is the empty chain.                           *)
(***************************************************************************)
EXTENDS Sequences, FiniteSetsExt

Plain == <<"plain">>
Canceled == <<"canceled">>
DeadlineExceeded == <<"deadline">>

Wrap(err) == <<"wrap">> \o err

\* NewPDFDownloadFailedError unwraps to the error it is given, if any.
PDFDownloadFailed(err) == <<"PDFDownloadFailed">> \o err
InvalidResponse == <<"InvalidResponse">>

-----------------------------------------------------------------------------
\* errors.As and errors.Is: some link of the chain matches.
Has(err, link) == \E i \in DOMAIN err : err[i] = link

\* The cases of MapErrorToHTTPStatus in their order.
Cases ==
    << [link |-> "NISEmpty",               status |-> 400, code |-> "ERR_NIS_EMPTY"],
       [link |-> "NISInvalid",             status |-> 400, code |-> "ERR_NIS_INVALID"],
       [link |-> "DataNotFound",           status |-> 404, code |-> "ERR_DATA_NOT_FOUND"],
       [link |-> "KRSEmpty",               status |-> 404, code |-> "ERR_KRS_EMPTY"],
       [link |-> "PDFDownloadFailed",      status |-> 502, code |-> "ERR_PDF_DOWNLOAD_FAILED"],
       [link |-> "PDFExternalUnavailable", status |-> 503, code |-> "ERR_PDF_EXTERNAL_UNAVAILABLE"],
       [link |-> "PDFTimeout",             status |-> 504, code |-> "ERR_PDF_TIMEOUT"],
       [link |-> "InvalidResponse",        status |-> 502, code |-> "ERR_INVALID_RESPONSE"],
       [link |-> "PDFParseFailed",         status |-> 500, code |-> "ERR_PDF_PARSE_FAILED"],
       [link |-> "InternalServer",         status |-> 500, code |-> "ERR_INTERNAL_SERVER"],
       [link |-> "CacheReadFailed",        status |-> 500, code |-> "ERR_CACHE_READ_FAILED"],
       [link |-> "CacheWriteFailed",       status |-> 500, code |-> "ERR_CACHE_WRITE_FAILED"],
       [link |-> "deadline",               status |-> 504, code |-> "ERR_PDF_TIMEOUT"] >>

InternalServer == [status |-> 500, code |-> "ERR_INTERNAL_SERVER"]

\* Mutant of MapErrorToHTTPStatus: the error itself is compared, not its chain.
MapOutermost(err) ==
    LET matching == {i \in DOMAIN Cases : err[1] = Cases[i].link}
    IN  IF matching = {} THEN InternalServer
        ELSE [status |-> Cases[Min(matching)].status,
              code   |-> Cases[Min(matching)].code]

\* The first case that some link of the chain matches decides.
MapErrorToHTTPStatus(err) ==
    LET matching == {i \in DOMAIN Cases : Has(err, Cases[i].link)}
    IN  IF matching = {} THEN InternalServer
        ELSE [status |-> Cases[Min(matching)].status,
              code   |-> Cases[Min(matching)].code]

Answers ==
    {InternalServer} \cup
    {[status |-> Cases[i].status, code |-> Cases[i].code] : i \in DOMAIN Cases}
=============================================================================
