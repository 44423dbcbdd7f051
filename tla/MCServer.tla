------------------------------ MODULE MCServer ------------------------------
(***************************************************************************)
(* A small instance of Server.  The environments are one that serves, with *)
(* a port in its base URL and no named host, and ones in which the process *)
(* refuses to start or every download is refused.                          *)
(***************************************************************************)
EXTENDS Server

URL(scheme, parses) ==
    [parses |-> parses, scheme |-> scheme, hostname |-> "campus", hostport |-> "campus:8443"]

Env(base, hosts) == [JWTSecret |-> TRUE, APIKey |-> TRUE, PDFBaseURL |-> base, hosts |-> hosts]

Blank == [kind |-> "blank"]

SmallEnvironments ==
    { Env(URL("https", TRUE), {Blank}),
      Env(URL("https", TRUE), {[kind |-> "word", host |-> "campus:8443"]}),
      Env(URL("http", TRUE), {}),
      Env(URL("https", FALSE), {}),
      Env(NoURL, {}) }
=============================================================================
