-------------------------- MODULE MCBoundedIngress --------------------------
(* TLC instance of BoundedIngress. *)
EXTENDS BoundedIngress

=============================================================================
