-------------------------- MODULE MCGovernedRequest --------------------------
(* GovernedRequest has no constants: every set it ranges over is the code's own. *)
EXTENDS GovernedRequest
===============================================================================
