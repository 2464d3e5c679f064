--------------------------- MODULE IngressPromise ---------------------------
(***************************************************************************)
(* What the bounded ingress promises the threads around it, whatever its   *)
(* queue, locks and deadlines do: admitted items become durable in order,  *)
(* or some last ones never do; a producer is told once how its item fared; *)
(* and the journal ends once.  BoundedIngress implements it.               *)
(***************************************************************************)
EXTENDS Sequences, SequencesExt

CONSTANTS Items,            \* what producers may enqueue
          Faults,           \* reasons for which admission stops early
          CleanTerminals,   \* terminals of a session without a fault
          RuntimeHalt       \* the terminal of a runtime that halts itself

VARIABLES
    admitted,   \* items admitted, in order
    journal,    \* items that are durable, in order
    dropped,    \* admitted items that will never be durable
    told,       \* what each item's producer was told
    parents,    \* durable items handed on
    fault,      \* why admission stopped early
    terminal,   \* how the journal ended
    failed      \* the runtime failed

promise == <<admitted, journal, dropped, told, parents, fault, terminal, failed>>

Init ==
    /\ admitted = << >> /\ journal = << >> /\ parents = << >> /\ dropped = {}
    /\ told = [i \in Items |-> "none"]
    /\ fault = "none" /\ terminal = "none" /\ failed = FALSE

(* The journal may still grow, or end. *)
Writable == terminal = "none" /\ ~failed

(* No terminal of the ingress' own is written. *)
Undecided == terminal \in {"none", RuntimeHalt} /\ ~failed

(* The first fault is the one that counts, and none counts at the end. *)
Notice == fault' \in IF fault = "none" /\ Undecided THEN Faults \cup {fault} ELSE {fault}

Admit(i) ==
    /\ Undecided /\ fault = "none"
    /\ i \notin Range(admitted) /\ told[i] = "none"
    /\ admitted' = Append(admitted, i)
    /\ UNCHANGED <<journal, dropped, told, parents, fault, terminal, failed>>

(* A producer is told once; a receipt is the truth. *)
Tell(i, answer) ==
    /\ told[i] = "none" /\ answer # "none"
    /\ answer = "receipt" => i \in Range(journal)
    /\ told' = [told EXCEPT ![i] = answer]

Answer(i) ==
    /\ \E answer \in {"receipt", "closed"} \cup Faults : Tell(i, answer)
    /\ Notice
    /\ UNCHANGED <<admitted, journal, dropped, parents, terminal, failed>>

Drop(i) ==
    /\ i \in Range(admitted) \ Range(journal)
    /\ dropped' = dropped \cup {i}
    /\ \E answer \in Faults : Tell(i, answer)
    /\ Notice
    /\ UNCHANGED <<admitted, journal, parents, terminal, failed>>

(* The oldest admitted item becomes durable, unless it was dropped, in     *)
(* which case nothing does any more.                                       *)
Persist ==
    /\ Writable /\ Len(journal) < Len(admitted)
    /\ admitted[Len(journal) + 1] \notin dropped
    /\ journal' = Append(journal, admitted[Len(journal) + 1])
    /\ terminal' \in {"none", RuntimeHalt}
    /\ UNCHANGED <<admitted, dropped, told, parents, fault, failed>>

HandOn(i) ==
    /\ Writable
    /\ told[i] = "receipt" /\ i \notin Range(parents)
    /\ parents' = Append(parents, i)
    /\ UNCHANGED <<admitted, journal, dropped, told, fault, terminal, failed>>

(* The ingress ends the journal behind the last receipt, and cleanly only  *)
(* if nothing went wrong; a runtime may halt at any time.                  *)
Finish(t) ==
    /\ Writable /\ terminal' = t
    /\ t # RuntimeHalt =>
          /\ journal = admitted /\ \A i \in Range(admitted) : told[i] = "receipt"
          /\ t \in CleanTerminals => fault = "none"
    /\ UNCHANGED <<admitted, journal, dropped, told, parents, fault, failed>>

(* The owner finds that a receipt was not taken in time, then gives up. *)
OwnerNotices ==
    /\ Notice
    /\ UNCHANGED <<admitted, journal, dropped, told, parents, terminal, failed>>
Fail ==
    /\ failed' = TRUE
    /\ UNCHANGED <<admitted, journal, dropped, told, parents, fault, terminal>>

Next ==
    \/ \E i \in Items : Admit(i) \/ Answer(i) \/ Drop(i) \/ HandOn(i)
    \/ \E t \in CleanTerminals \cup Faults \cup {"operator_halt", RuntimeHalt} : Finish(t)
    \/ Persist \/ OwnerNotices \/ Fail

Spec == Init /\ [][Next]_promise
=============================================================================
