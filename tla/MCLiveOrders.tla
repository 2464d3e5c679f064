---------------------------- MODULE MCLiveOrders ----------------------------
(* TLC instance of LiveOrders. *)
EXTENDS LiveOrders

=============================================================================
