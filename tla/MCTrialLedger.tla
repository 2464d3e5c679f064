--------------------------- MODULE MCTrialLedger ---------------------------
(* TLC instance of TrialLedger.  Two commands with one attempt more than a *)
(* session may have, so that the second meets what is left of the quota; a *)
(* third process recovers from a second that died, in its recovery too.    *)
EXTENDS TrialLedger
=============================================================================
