------------------------------ MODULE MCHandoff ------------------------------
(* Two connections dealt to one worker, or without threads to the main     *)
(* loop: one is being accepted while the other is served.                  *)
EXTENDS Handoff
=============================================================================
