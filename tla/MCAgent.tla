------------------------------ MODULE MCAgent ------------------------------
(* Instances of Agent for TLC. *)
EXTENDS Agent
CONSTANTS s1, s2
=============================================================================
