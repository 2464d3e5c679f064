--------------------------- MODULE MCEventRuntime ---------------------------
(* TLC instance of SessionJournal. *)
EXTENDS SessionJournal
=============================================================================
