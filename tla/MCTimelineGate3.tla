--------------------------- MODULE MCTimelineGate3 ---------------------------
(* Small instances of TimelineGate3. *)
EXTENDS TimelineGate3, TLC

ThreadSymmetry == Permutations(Workers) \cup Permutations(Reviewers)
=============================================================================
