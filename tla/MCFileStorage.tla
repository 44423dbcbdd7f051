--------------------------- MODULE MCFileStorage ---------------------------
(***************************************************************************)
(* Small instances of FileStorage.  Goroutines, documents and students are *)
(* interchangeable, and no property of these runs is a liveness property,  *)
(* so the states that differ by renaming them count once.                  *)
(***************************************************************************)
EXTENDS FileStorage, TLC

Interchangeable ==
    Permutations(Caller) \cup Permutations(Doc) \cup Permutations(Nis)
=============================================================================
