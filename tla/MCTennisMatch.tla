---------------------------- MODULE MCTennisMatch ----------------------------
(* Best of three sets, with the real lengths of sets and tiebreaks. *)
EXTENDS TennisMatch
=============================================================================
