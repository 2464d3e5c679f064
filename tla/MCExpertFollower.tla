-------------------------- MODULE MCExpertFollower --------------------------
(* A small instance of ExpertFollower for TLC. *)
EXTENDS ExpertFollower
=============================================================================
