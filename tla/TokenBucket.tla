---------------------------- MODULE TokenBucket ----------------------------
(***************************************************************************)
(* The rate limit each client address is promised: a bucket of Burst       *)
(* tokens that regains Rate tokens per tick and is never forgotten.  A     *)
(* request is let through when there is a token, which it takes, and is    *)
(* refused only when there is none.                                        *)
(*                                                                         *)
(* This is the abstract specification that RateLimit implements; it        *)
(* translates no code.                                                     *)
(***************************************************************************)
EXTENDS Integers

CONSTANTS Ip, Rate, Burst

VARIABLES
    now,    \* the clock
    level   \* tokens in the bucket of each address

vars == <<now, level>>

Capped(n) == IF n > Burst THEN Burst ELSE n

Init ==
    /\ now = 0
    /\ level = [ip \in Ip |-> Burst]

Admit(ip) ==
    /\ level[ip] > 0
    /\ level' = [level EXCEPT ![ip] = @ - 1]
    /\ UNCHANGED now

\* Time is the only source of tokens.
Tick ==
    /\ now' = now + 1
    /\ level' = [ip \in Ip |-> Capped(level[ip] + Rate)]

Next == Tick \/ \E ip \in Ip : Admit(ip)

Spec == Init /\ [][Next]_vars
=============================================================================
