----------------------------- MODULE MCImageQueue -----------------------------
(* Small instances of ImageQueue. *)
EXTENDS ImageQueue, TLC

CONSTANTS j1, j2

\* Two jobs that only differ in when they were submitted, and in their ids.
EvenPriority == j1 :> 100 @@ j2 :> 100
IdOrder == j1 :> 1 @@ j2 :> 2

WorkerSymmetry == Permutations(Workers)
=============================================================================
