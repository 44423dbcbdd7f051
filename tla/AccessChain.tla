---------------------------- MODULE AccessChain ----------------------------
(***************************************************************************)
(* Who may ask for what: the routes with the middleware in front of them   *)
(* (src/internal/routes/routes.go), the check and the issue of tokens      *)
(* (jwt_auth.go, auth_handler.go), and the tool that signs tokens by hand  *)
(* (cmd/genjwt).  A token is what its signature vouches for; nobody else   *)
(* can sign one.                                                           *)
(***************************************************************************)
EXTENDS Integers

CONSTANTS
    Npm,        \* the texts that may stand for a student number
    Student,    \* those of them that are ten digits
    TokenLife,  \* one hour
    NoToken     \* no, or no well-signed, token in the Authorization header

VARIABLES
    now,        \* the clock
    issued      \* every token ever signed with JWT_SECRET

-----------------------------------------------------------------------------
Token == [npm : Npm, exp : Nat]

TypeOK == issued \subseteq Token

Init == issued = {}

Signed(npm) == [npm |-> npm, exp |-> now + TokenLife]

IssuedAt(token) == token.exp - TokenLife

\* Mutant of Valid: a well-signed token is good for ever.
ValidForEver(token) == token # NoToken

\* jwt.Parse and the second look at exp that follows it.
Valid(token) == token # NoToken /\ now < token.exp

ValidateNIS(npm) == npm \in Student

-----------------------------------------------------------------------------
\* The empty string, which the routes read when no number is given.
NoNpm == ""

\* A request: where to, and what the route looks at of it: the method, whether
\* X-API-KEY is right, the token, ?npm=.
Request(tokens) ==
    [path : {"/cek"}, method : {"GET", "POST"}] \cup
    [path : {"/api/auth/generate"}, method : {"GET", "POST"}, key : BOOLEAN, npm : Npm \cup {NoNpm}] \cup
    [path : {"/api/krs", "/api/other"}, key : BOOLEAN, token : tokens \cup {NoToken}] \cup
    [path : {"/other"}]

\* What has to hold on the way to the handler, outermost first: CheckApiKey,
\* the limiter (limited is its verdict), the route below /api, the token.
\* Whatever fails is answered at once, with a status no property tells apart.
Protected(q, limited) ==
    /\ q.key
    /\ ~limited
    /\ q.path = "/api/krs"
    /\ Valid(q.token)
    /\ q.token.npm # NoNpm

Admits(q, limited) ==
    CASE q.path = "/cek" -> q.method = "GET"
      [] q.path = "/api/auth/generate" ->
           q.method = "POST" /\ q.key /\ q.npm # NoNpm /\ ValidateNIS(q.npm)
      [] q.path \in {"/api/krs", "/api/other"} -> Protected(q, limited)
      [] OTHER -> FALSE

-----------------------------------------------------------------------------
GenerateToken(q) ==
    /\ q.path = "/api/auth/generate" /\ Admits(q, FALSE)
    /\ issued' = issued \cup {Signed(q.npm)}

\* genjwt checks neither a key nor the student number.
GenJWT(npm) == issued' = issued \cup {Signed(npm)}
====
