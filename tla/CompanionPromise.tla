-------------------------- MODULE CompanionPromise --------------------------
(***************************************************************************)
(* What the expert companion of one evidence session promises its owner:   *)
(* it publishes one group per durable parent, in order, and ends either    *)
(* complete, covering every parent of an ended session, or void.  Only a   *)
(* crash takes a complete companion away.  ExpertFollower implements it.   *)
(***************************************************************************)
EXTENDS Naturals

VARIABLES
    parents,    \* raw records that are durable in the evidence journal
    over,       \* the evidence journal has its terminal
    published,  \* parents whose expert group the owner may rely on
    outcome     \* "open", "complete" or "void"

companion == <<parents, over, published, outcome>>

Init ==
    /\ parents = 0 /\ over = FALSE
    /\ published = 0 /\ outcome = "open"

(* Evidence goes on whatever becomes of the companion. *)
Persist ==
    /\ ~over
    /\ parents' = parents + 1
    /\ UNCHANGED <<over, published, outcome>>

End ==
    /\ ~over
    /\ over' = TRUE
    /\ UNCHANGED <<parents, published, outcome>>

(* The last published parent may come with the failure of the companion. *)
Publish ==
    /\ outcome = "open" /\ published < parents
    /\ published' = published + 1
    /\ outcome' \in {"open", "void"}
    /\ UNCHANGED <<parents, over>>

(* The emergency group is published with the terminal it precedes. *)
Complete ==
    /\ outcome = "open" /\ over /\ parents - published \in {0, 1}
    /\ outcome' \in {"complete", "void"}
    /\ published' = parents
    /\ UNCHANGED <<parents, over>>

GiveUp ==
    /\ outcome = "open"
    /\ outcome' = "void"
    /\ UNCHANGED <<parents, over, published>>

(* The raw record that breaks the ingress may be durable. *)
PersistAndGiveUp ==
    /\ ~over /\ outcome = "open"
    /\ parents' = parents + 1 /\ outcome' = "void"
    /\ UNCHANGED <<over, published>>

Crash ==
    /\ outcome' = "void"
    /\ UNCHANGED <<parents, over, published>>

Next ==
    \/ Persist \/ End \/ Publish \/ Complete
    \/ GiveUp \/ PersistAndGiveUp \/ Crash

Spec == Init /\ [][Next]_companion
=============================================================================
