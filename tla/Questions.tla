----------------------------- MODULE Questions -----------------------------
(***************************************************************************)
(* The rules of the pipeline that keep no state are asked over bounded     *)
(* inputs: a question of some topic is chosen, its action computes the     *)
(* code's answer, and the invariants compare the two.                      *)
(***************************************************************************)
VARIABLES topic, question, answer, answered
vars == <<topic, question, answer, answered>>

Ask(name, asked) == topic = name /\ question = asked
Replied(name) == topic = name /\ answered
=============================================================================
