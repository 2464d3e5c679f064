---------------------------- MODULE MCRetention ----------------------------
(* Retention on small instances: session s1 is due first. *)
EXTENDS Retention
CONSTANTS s1, s2
MCDeadline == [s \in Sessions |-> IF s = s1 THEN 1 ELSE 2]
=============================================================================
