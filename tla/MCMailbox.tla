----------------------------- MODULE MCMailbox -----------------------------
(* TLC instance of Mailbox. *)
EXTENDS Mailbox

=============================================================================
