---------------------------- MODULE MCKRSParser ----------------------------
(***************************************************************************)
(* Small instances of KRSParser: plans of up to three courses whose        *)
(* credits are plain numbers or hold a no-break space, and every single    *)
(* damage of their text.  Three courses are a damaged one with a neighbour *)
(* on either side.                                                         *)
(***************************************************************************)
EXTENDS KRSParser

MCCredits ==
    {[kind |-> "number", value |-> 2], [kind |-> "spaced", value |-> 3]}

MCStray ==
    {[kind |-> "blank", value |-> 0], [kind |-> "text", value |-> 0],
     [kind |-> "number", value |-> 7]}
=============================================================================
