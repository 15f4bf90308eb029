---------------------------- MODULE MCProviderGate ----------------------------
(* Two runs started at once. *)
EXTENDS ProviderGate, TLC

Pipelines == {"t1", "t2"}
=============================================================================
