---------------------------- MODULE MCStoryBible ----------------------------
(* Two resources that may claim two names. *)
EXTENDS StoryBible, TLC

First(rev, name) == "r1" :> [rev |-> rev, name |-> name]
Second(name) == "r2" :> [rev |-> 1, name |-> name]

\* Two plans that compete for a row and a name; the reviewer wants a human for one of them.
Clean == First(2, "A")
Doubtful == First(1, "B") @@ Second("A")
TwoDrafts == {Clean, Doubtful}
TwoMerits == [d \in TwoDrafts |-> IF d = Clean THEN "APPROVE" ELSE "NEEDS_HUMAN_REVIEW"]
=============================================================================
