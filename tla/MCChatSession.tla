----------------------------- MODULE MCChatSession -----------------------------
(* No symmetry: the run checks a liveness property. *)
EXTENDS ChatSession
=============================================================================
