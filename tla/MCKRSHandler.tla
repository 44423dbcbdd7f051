---------------------------- MODULE MCKRSHandler ----------------------------
(***************************************************************************)
(* Small instances of KRSHandler.  L1's ttl is shorter than L2's and a     *)
(* phase of a request may span a tick, so that entries expire inside a     *)
(* request.  Requests are interchangeable; the runs that check a liveness  *)
(* property do not use the symmetry.                                       *)
(***************************************************************************)
EXTENDS KRSHandler, TLC

Interchangeable == Permutations(Request) \cup Permutations(Npm)
=============================================================================
