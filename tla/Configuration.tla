--------------------------- MODULE Configuration ---------------------------
(***************************************************************************)
(* What LoadConfig (src/internal/config/env.go) makes of the environment.  *)
(* Of the settings the module has the ones that decide whether the service *)
(* starts and which host it may ask for study plans.                       *)
(***************************************************************************)

CONSTANTS
    Host,   \* the texts that may stand for a host, with or without a port
    NoURL   \* PDF_BASE_URL is not set

\* A URL is what url.Parse says of it: Hostname() is without the port, Host
\* with it.
Url == [parses : BOOLEAN, scheme : {"https", "http"},
        hostname : Host \cup {""}, hostport : Host \cup {""}]

HasHost(url) == url.parses /\ url.hostname # ""

\* An entry of PDF_ALLOWED_HOSTS, trimmed.  "url" is one that url.Parse finds a
\* hostname in, "word" any other; host is that hostname or the word.
Entry == [kind : {"url", "word"}, host : Host] \cup [kind : {"blank"}]

\* JWT_SECRET and API_KEY are set or not; hosts are the entries of the list.
Environment ==
    [JWTSecret : BOOLEAN, APIKey : BOOLEAN, PDFBaseURL : Url \cup {NoURL},
     hosts : SUBSET Entry]

-----------------------------------------------------------------------------
NamedHosts(entries) == {e.host : e \in {x \in entries : x.kind # "blank"}}

\* Mutant of getAllowedPDFHosts: the default is url.Host, port included.
AllowedWithPort(base, entries) ==
    IF NamedHosts(entries) # {} THEN NamedHosts(entries)
    ELSE {u.hostport : u \in {x \in {base} : HasHost(x)}}

\* The hosts that are named, or else the one of the base URL.
getAllowedPDFHosts(base, entries) ==
    IF NamedHosts(entries) # {} THEN NamedHosts(entries)
    ELSE {u.hostname : u \in {x \in {base} : HasHost(x)}}

\* LoadConfig returns no error.
Complete(env) == env.JWTSecret /\ env.APIKey /\ env.PDFBaseURL # NoURL
=============================================================================
