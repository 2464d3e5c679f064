--------------------------- MODULE BoundedIngress ---------------------------
(***************************************************************************)
(* Bounded multi-producer ingress of Tennis v1 (BoundedIngress in          *)
(* tennis_v1/ingress.py).  Producer threads enqueue captured items and     *)
(* wait, up to a deadline, for a durable receipt; one owner thread drains  *)
(* the queue into the event runtime.                                       *)
(*                                                                         *)
(* Steps are the code's critical sections: under the admission condition,  *)
(* or under one node's completion lock.  Time is abstracted to whether the *)
(* receipt deadline of a node has passed; it may pass between any two      *)
(* steps.  The runtime is seen through its results: ingest returns, or     *)
(* raises with or without having made the raw record durable.              *)
(***************************************************************************)
EXTENDS Naturals, Sequences, FiniteSets, SequencesExt

CONSTANTS Producers,    \* producer threads
          Capacity,     \* slots of the queue
          MaxItems      \* bound: items one producer enqueues

ASSUME IngressAssumption ==
    /\ IsFiniteSet(Producers)
    /\ Capacity \in Nat \ {0} /\ MaxItems \in Nat

(* An item is the n-th one of its producer; its node has the same name. *)
Items == Producers \X (1 .. MaxItems)
NoItem == <<>>

VARIABLES
    queue,              \* _queue
    active,             \* _active_node
    normal_closed,      \* _normal_closed
    fault,              \* _fault_reason
    runtime_failed,     \* _runtime_failed
    terminal_intent,    \* _terminal_intent
    terminal_written,   \* _terminal_written
    bound,              \* _runtime is not None
    nstate,             \* node.state of every item
    cause,              \* node.terminal_cause is the owner timeout
    late,               \* the node's receipt deadline has passed
    ack_timed_out,      \* node.acknowledgement_timed_out
    completion,         \* node.completion is set
    acknowledgement,    \* node.acknowledgement is set
    sent,               \* items each producer has begun to enqueue
    ppc,                \* where each producer is: "ready", "admit", "wait"
    result,             \* how enqueue ended for each item
    opc,                \* where the owner is; "between" two drains
    unsettled,          \* nodes _runtime_failure still has to settle
    journal,            \* items whose raw record is durable, in order
    terminal,           \* the terminal record of the journal
    parents,            \* items handed on as durable parents
    admitted,           \* history: items in the order they were admitted
    expired             \* history: items timed out before the owner had them

shared  == <<queue, active, normal_closed, fault, runtime_failed,
             terminal_intent, terminal_written, bound>>
node    == <<nstate, cause, late, ack_timed_out, completion, acknowledgement>>
caller  == <<sent, ppc, result>>
outcome == <<journal, terminal, parents>>
history == <<admitted, expired>>
vars == <<queue, active, normal_closed, fault, runtime_failed, terminal_intent,
          terminal_written, bound, nstate, cause, late, ack_timed_out,
          completion, acknowledgement, sent, ppc, result, opc, unsettled,
          journal, terminal, parents, admitted, expired>>

NodeStates ==
    {"QUEUED", "OWNER_CLAIMED", "INGESTING", "RAW_RETURNED",
     "RECEIPT_PUBLISHED", "PRODUCER_ACKNOWLEDGED", "PARENT_ISSUED",
     "TIMED_OUT_NO_RAW", "DURABLE_UNACKNOWLEDGED", "ABORTED"}

Results == {"none", "receipt", "owner_unresponsive", "backpressure", "closed"}
Actions == {"backpressure", "owner_unresponsive", "operator_stop",
            "operator_halt", "session_end"}
RuntimeHalt == "runtime_halt"   \* a halted terminal the runtime wrote by itself
CleanActions == {"operator_stop", "session_end"}

Init ==
    /\ queue = << >> /\ active = NoItem
    /\ normal_closed = FALSE /\ fault = "none" /\ runtime_failed = FALSE
    /\ terminal_intent = "none" /\ terminal_written = FALSE /\ bound = FALSE
    /\ nstate = [i \in Items |-> "QUEUED"]
    /\ cause = [i \in Items |-> FALSE] /\ late = [i \in Items |-> FALSE]
    /\ ack_timed_out = [i \in Items |-> FALSE]
    /\ completion = [i \in Items |-> FALSE]
    /\ acknowledgement = [i \in Items |-> FALSE]
    /\ sent = [p \in Producers |-> 0] /\ ppc = [p \in Producers |-> "ready"]
    /\ result = [i \in Items |-> "none"]
    /\ opc = "between" /\ unsettled = << >>
    /\ journal = << >> /\ terminal = "none" /\ parents = << >>
    /\ admitted = << >> /\ expired = {}

Ended == runtime_failed \/ terminal_written \/ terminal_intent # "none"
AdmissionOpen == ~normal_closed /\ fault = "none" /\ ~Ended

(* The first fault wins, and none is recorded once the ingress is ending. *)
FaultAfter(reason) == IF fault = "none" /\ ~Ended THEN reason ELSE fault

-----------------------------------------------------------------------------
(* Producers: enqueue.                                                     *)

Item(p) == <<p, sent[p]>>

BeginEnqueue(p) ==
    /\ ppc[p] = "ready" /\ sent[p] < MaxItems
    /\ sent' = [sent EXCEPT ![p] = @ + 1]
    /\ ppc' = [ppc EXCEPT ![p] = "admit"]
    /\ UNCHANGED <<shared, node, result, opc, unsettled, outcome, history>>

Return(p, r) ==
    /\ ppc' = [ppc EXCEPT ![p] = "ready"]
    /\ result' = [result EXCEPT ![Item(p)] = r]
    /\ UNCHANGED sent

(* _closed_error_locked *)
ClosedError ==
    IF ~Ended /\ fault # "none" THEN fault ELSE "closed"

Refused(p) ==
    /\ ppc[p] = "admit" /\ ~AdmissionOpen
    /\ Return(p, ClosedError)
    /\ UNCHANGED <<shared, node, opc, unsettled, outcome, history>>

Put(p) ==
    /\ ppc[p] = "admit" /\ AdmissionOpen /\ Len(queue) < Capacity
    /\ queue' = Append(queue, Item(p))
    /\ admitted' = Append(admitted, Item(p))
    /\ ppc' = [ppc EXCEPT ![p] = "wait"]
    /\ UNCHANGED <<active, normal_closed, fault, runtime_failed,
                   terminal_intent, terminal_written, bound, node, sent,
                   result, opc, unsettled, outcome, expired>>

(* The admission deadline passes, whether or not a slot is free by then. *)
Backpressure(p) ==
    /\ ppc[p] = "admit" /\ AdmissionOpen
    /\ fault' = "backpressure"
    /\ Return(p, "backpressure")
    /\ UNCHANGED <<queue, active, normal_closed, runtime_failed,
                   terminal_intent, terminal_written, bound, node, opc,
                   unsettled, outcome, history>>

(* Mutant: completion.wait has no timeout. *)
MutWaitsForCompletion(p) == ppc[p] = "wait" /\ completion[Item(p)]

(* completion.wait ended: the owner set the event, or the deadline passed. *)
Woken(p) == ppc[p] = "wait" /\ (completion[Item(p)] \/ late[Item(p)])

(* The receipt is there in time: the producer acknowledges and returns it. *)
TakeReceipt(p) ==
    LET i == Item(p)
    IN  /\ Woken(p) /\ nstate[i] = "RECEIPT_PUBLISHED" /\ ~late[i]
        /\ nstate' = [nstate EXCEPT ![i] = "PRODUCER_ACKNOWLEDGED"]
        /\ acknowledgement' = [acknowledgement EXCEPT ![i] = TRUE]
        /\ Return(p, "receipt")
        /\ UNCHANGED <<shared, cause, late, ack_timed_out, completion, opc,
                       unsettled, outcome, history>>

(* The receipt is there, but the deadline has passed. *)
RefuseReceipt(p) ==
    LET i == Item(p)
    IN  /\ Woken(p) /\ nstate[i] = "RECEIPT_PUBLISHED" /\ late[i]
        /\ nstate' = [nstate EXCEPT ![i] = "DURABLE_UNACKNOWLEDGED"]
        /\ cause' = [cause EXCEPT ![i] = TRUE]
        /\ acknowledgement' = [acknowledgement EXCEPT ![i] = TRUE]
        /\ Return(p, "owner_unresponsive")
        /\ UNCHANGED <<shared, late, ack_timed_out, completion, opc,
                       unsettled, outcome, history>>

(* Mutant: the timeout does not look whether the owner has claimed. *)
MutTimeoutIgnoresClaim(p) ==
    LET i == Item(p)
    IN  /\ Woken(p) /\ nstate[i] \in {"QUEUED", "OWNER_CLAIMED", "INGESTING"}
        /\ nstate' = [nstate EXCEPT ![i] = "TIMED_OUT_NO_RAW"]
        /\ cause' = [cause EXCEPT ![i] = TRUE]
        /\ fault' = FaultAfter("owner_unresponsive")
        /\ acknowledgement' = [acknowledgement EXCEPT ![i] = TRUE]
        /\ expired' = expired \cup {i}
        /\ Return(p, "owner_unresponsive")
        /\ UNCHANGED <<queue, active, normal_closed, runtime_failed,
                       terminal_intent, terminal_written, bound, late,
                       ack_timed_out, completion, opc, unsettled, outcome,
                       admitted>>

(* The owner never claimed the item: it will not be ingested. *)
TimeoutQueued(p) ==
    LET i == Item(p)
    IN  /\ Woken(p) /\ nstate[i] = "QUEUED"
        /\ nstate' = [nstate EXCEPT ![i] = "TIMED_OUT_NO_RAW"]
        /\ cause' = [cause EXCEPT ![i] = TRUE]
        /\ fault' = FaultAfter("owner_unresponsive")
        /\ acknowledgement' = [acknowledgement EXCEPT ![i] = TRUE]
        /\ expired' = expired \cup {i}
        /\ Return(p, "owner_unresponsive")
        /\ UNCHANGED <<queue, active, normal_closed, runtime_failed,
                       terminal_intent, terminal_written, bound, late,
                       ack_timed_out, completion, opc, unsettled, outcome,
                       admitted>>

(* The owner is at work on the item: whether it becomes durable is open.   *)
TimeoutClaimed(p) ==
    LET i == Item(p)
    IN  /\ Woken(p) /\ nstate[i] \in {"OWNER_CLAIMED", "INGESTING", "RAW_RETURNED"}
        /\ ack_timed_out' = [ack_timed_out EXCEPT ![i] = TRUE]
        /\ cause' = [cause EXCEPT ![i] = TRUE]
        /\ fault' = FaultAfter("owner_unresponsive")
        /\ acknowledgement' = [acknowledgement EXCEPT ![i] = TRUE]
        /\ Return(p, "owner_unresponsive")
        /\ UNCHANGED <<queue, active, normal_closed, runtime_failed,
                       terminal_intent, terminal_written, bound, nstate, late,
                       completion, opc, unsettled, outcome, history>>

(* The owner gave the item up: the cause says which error is raised. *)
ObserveFailure(p) ==
    LET i == Item(p)
    IN  /\ Woken(p)
        /\ nstate[i] \in {"ABORTED", "TIMED_OUT_NO_RAW", "DURABLE_UNACKNOWLEDGED"}
        /\ cause' = [cause EXCEPT ![i] = @ \/ nstate[i] # "ABORTED"]
        /\ Return(p, IF cause[i] \/ nstate[i] # "ABORTED"
                     THEN "owner_unresponsive" ELSE "closed")
        /\ UNCHANGED <<shared, nstate, late, ack_timed_out, completion,
                       acknowledgement, opc, unsettled, outcome, history>>

(* A receipt deadline passes; put_nowait has set it. *)
DeadlinePasses(i) ==
    /\ ~late[i] /\ i[2] = sent[i[1]] /\ ppc[i[1]] = "wait"
    /\ late' = [late EXCEPT ![i] = TRUE]
    /\ UNCHANGED <<shared, nstate, cause, ack_timed_out, completion,
                   acknowledgement, caller, opc, unsettled, outcome, history>>

(* close_inputs, from any thread. *)
CloseInputs ==
    /\ ~normal_closed /\ fault = "none" /\ ~runtime_failed /\ ~terminal_written
    /\ normal_closed' = TRUE
    /\ UNCHANGED <<queue, active, fault, runtime_failed, terminal_intent,
                   terminal_written, bound, node, caller, opc, unsettled,
                   outcome, history>>

-----------------------------------------------------------------------------
(* The owner: drain_one_parent.                                            *)

Goto(next) ==
    /\ opc' = next
    /\ UNCHANGED <<node, caller, unsettled, outcome, history>>

BeginDrain ==
    /\ opc = "between" /\ ~Ended
    /\ bound' = TRUE
    /\ UNCHANGED <<queue, active, normal_closed, fault, runtime_failed,
                   terminal_intent, terminal_written>>
    /\ Goto("drain")

(* _next_action_locked, with the queue empty and no active node. *)
NextAction ==
    IF fault # "none" THEN fault
    ELSE IF normal_closed THEN "operator_stop" ELSE "none"

(* Under the condition: the next node, else the next terminal action, else *)
(* idle says what to do.                                                   *)
TakeNode ==
    /\ queue # << >>
    /\ active' = Head(queue) /\ queue' = Tail(queue)
    /\ UNCHANGED <<normal_closed, fault, runtime_failed, terminal_intent,
                   terminal_written, bound>>
    /\ Goto("claim")

ClaimAction(action) ==
    /\ queue = << >> /\ action # "none"
    /\ terminal_intent' = action
    /\ UNCHANGED <<queue, active, normal_closed, fault, runtime_failed,
                   terminal_written, bound>>
    /\ Goto("finalize")

DrainStep ==
    /\ opc = "drain" /\ ~Ended
    /\ \/ TakeNode
       \/ ClaimAction(NextAction)
       \/ /\ queue = << >> /\ NextAction = "none"
          /\ UNCHANGED shared /\ Goto("poll")

(* check_ingress_session_end: says whether the session is over, or raises, *)
(* possibly after the runtime halted the journal.                          *)
Poll ==
    /\ opc = "poll"
    /\ \/ opc' \in {"polled", "polled_over"} /\ UNCHANGED terminal
       \/ opc' = "fail" /\ terminal' \in {terminal, RuntimeHalt}
    /\ UNCHANGED <<shared, node, caller, unsettled, journal, parents, history>>

(* After the poll: a node, an action, the end of the session, or wait for  *)
(* the condition until the drain's own timeout.                            *)
AfterPoll ==
    /\ opc \in {"polled", "polled_over"}
    /\ \/ TakeNode
       \/ ClaimAction(NextAction)
       \/ opc = "polled_over" /\ AdmissionOpen /\ ClaimAction("session_end")
       \/ /\ queue = << >> /\ NextAction = "none"
          /\ ~(opc = "polled_over" /\ AdmissionOpen)
          /\ UNCHANGED shared
          /\ Goto("drain") \/ Goto("between")

(* close_external_halt_terminal, between two drains. *)
ExternalHaltAction == IF fault # "none" THEN fault ELSE "operator_halt"

(* Mutant: the halt does not wait for the queue to be drained. *)
MutHaltsWithQueue ==
    /\ opc = "between" /\ bound /\ ~Ended
    /\ normal_closed' = TRUE /\ terminal_intent' = ExternalHaltAction
    /\ UNCHANGED <<queue, active, fault, runtime_failed, terminal_written, bound>>
    /\ Goto("finalize")

ExternalHalt ==
    /\ opc = "between" /\ bound /\ ~Ended
    /\ active = NoItem /\ queue = << >>
    /\ normal_closed' = TRUE /\ terminal_intent' = ExternalHaltAction
    /\ UNCHANGED <<queue, active, fault, runtime_failed, terminal_written, bound>>
    /\ Goto("finalize")

(* _finalize: the runtime writes the terminal, or raises before or after.  *)
Finalize ==
    /\ opc = "finalize"
    /\ \/ /\ terminal' = terminal_intent /\ opc' = "finalized"
       \/ /\ terminal' \in {terminal, terminal_intent, RuntimeHalt} /\ opc' = "fail"
    /\ UNCHANGED <<shared, node, caller, unsettled, journal, parents, history>>

FinishFinalize ==
    /\ opc = "finalized" /\ terminal_written' = TRUE
    /\ UNCHANGED <<queue, active, normal_closed, fault, runtime_failed,
                   terminal_intent, bound>>
    /\ Goto("between")

-----------------------------------------------------------------------------
(* The owner: _process_node.                                               *)

SetNode(i, st) == nstate' = [nstate EXCEPT ![i] = st]

(* The owner sets both events of a node it gives up. *)
GiveUp(i, timeout) ==
    /\ SetNode(i, "ABORTED")
    /\ cause' = [cause EXCEPT ![i] = @ \/ timeout]
    /\ completion' = [completion EXCEPT ![i] = TRUE]
    /\ acknowledgement' = [acknowledgement EXCEPT ![i] = TRUE]
    /\ opc' = "fail"
    /\ UNCHANGED <<late, ack_timed_out>>

Claim ==
    /\ opc = "claim"
    /\ IF nstate[active] = "QUEUED" /\ ~late[active]
       THEN SetNode(active, "OWNER_CLAIMED") /\ opc' = "start" /\ UNCHANGED cause
       ELSE /\ SetNode(active, "ABORTED") /\ opc' = "fail"
            /\ cause' = [cause EXCEPT ![active] = TRUE]
    /\ UNCHANGED <<late, ack_timed_out, completion, acknowledgement, shared,
                   caller, unsettled, outcome, history>>

StartIngest ==
    /\ opc = "start"
    /\ IF ~late[active] /\ ~ack_timed_out[active]
       THEN /\ SetNode(active, "INGESTING") /\ opc' = "ingest"
            /\ UNCHANGED <<cause, late, ack_timed_out, completion, acknowledgement>>
       ELSE GiveUp(active, TRUE)
    /\ UNCHANGED <<shared, caller, unsettled, outcome, history>>

(* runtime.ingest: returns, or raises before or after the raw record and   *)
(* before or after the runtime halted the journal by itself.               *)
RuntimeIngest ==
    /\ opc = "ingest"
    /\ \/ journal' = Append(journal, active) /\ opc' = "ingested" /\ UNCHANGED terminal
       \/ /\ journal' \in {journal, Append(journal, active)} /\ opc' = "raised"
          /\ terminal' \in {terminal, RuntimeHalt}
    /\ UNCHANGED <<shared, node, caller, unsettled, parents, history>>

IngestRaised ==
    /\ opc = "raised" /\ GiveUp(active, FALSE)
    /\ UNCHANGED <<shared, caller, unsettled, outcome, history>>

RawReturned ==
    /\ opc = "ingested" /\ opc' = "publish"
    /\ SetNode(active, "RAW_RETURNED")
    /\ UNCHANGED <<cause, late, ack_timed_out, completion, acknowledgement,
                   shared, caller, unsettled, outcome, history>>

(* Publish the receipt, unless the producer stopped waiting for it. *)
PublishReceipt ==
    /\ opc = "publish" /\ opc' = "await"
    /\ IF ~late[active] /\ ~ack_timed_out[active]
       THEN SetNode(active, "RECEIPT_PUBLISHED") /\ UNCHANGED cause
       ELSE /\ SetNode(active, "DURABLE_UNACKNOWLEDGED")
            /\ cause' = [cause EXCEPT ![active] = TRUE]
    /\ completion' = [completion EXCEPT ![active] = TRUE]
    /\ UNCHANGED <<late, ack_timed_out, acknowledgement, shared, caller,
                   unsettled, outcome, history>>

(* Mutant: the parent is issued for a receipt nobody acknowledged. *)
MutIssuesUnacknowledged ==
    /\ opc = "await"
    /\ \/ nstate[active] = "DURABLE_UNACKNOWLEDGED"
       \/ acknowledgement[active] \/ late[active]
    /\ IF nstate[active] \in {"PRODUCER_ACKNOWLEDGED", "RECEIPT_PUBLISHED"}
       THEN /\ SetNode(active, "PARENT_ISSUED") /\ UNCHANGED cause
            /\ parents' = Append(parents, active) /\ opc' = "release"
       ELSE /\ SetNode(active, "ABORTED") /\ UNCHANGED <<cause, parents>>
            /\ opc' = "release_failed"
    /\ UNCHANGED <<late, ack_timed_out, completion, acknowledgement, shared,
                   caller, unsettled, journal, terminal, history>>

(* acknowledgement.wait ended: an acknowledged record becomes a parent,    *)
(* anything else is durable but unacknowledged and fails the ingress.      *)
IssueParent ==
    /\ opc = "await"
    /\ nstate[active] = "DURABLE_UNACKNOWLEDGED" \/ acknowledgement[active] \/ late[active]
    /\ \/ /\ nstate[active] = "PRODUCER_ACKNOWLEDGED"
          /\ SetNode(active, "PARENT_ISSUED") /\ UNCHANGED cause
          /\ parents' = Append(parents, active) /\ opc' = "release"
       \/ /\ nstate[active] = "PRODUCER_ACKNOWLEDGED"   \* issuing raises
          /\ SetNode(active, "ABORTED") /\ UNCHANGED <<cause, parents>>
          /\ opc' = "fail"
       \/ /\ nstate[active] # "PRODUCER_ACKNOWLEDGED"
          /\ SetNode(active, "ABORTED") /\ UNCHANGED parents
          /\ cause' = [cause EXCEPT ![active] = @ \/ nstate[active] = "RECEIPT_PUBLISHED"]
          /\ opc' = "release_failed"
    /\ UNCHANGED <<late, ack_timed_out, completion, acknowledgement, shared,
                   caller, unsettled, journal, terminal, history>>

(* The node is no longer active; the parent is returned to the caller. *)
Release ==
    /\ opc = "release" /\ active' = NoItem
    /\ UNCHANGED <<queue, normal_closed, fault, runtime_failed, terminal_intent,
                   terminal_written, bound>>
    /\ Goto("between")

(* The fault is recorded while the node is still named active in fail.     *)
ReleaseFailed ==
    /\ opc = "release_failed"
    /\ fault' = FaultAfter("owner_unresponsive")
    /\ UNCHANGED <<queue, active, normal_closed, runtime_failed, terminal_intent,
                   terminal_written, bound>>
    /\ Goto("fail")

(* _runtime_failure: nothing more will be ingested; every node the owner   *)
(* or the queue still holds is settled, one completion lock at a time.     *)
RuntimeFailure ==
    /\ opc = "fail" /\ opc' = "settle"
    /\ runtime_failed' = TRUE /\ active' = NoItem /\ queue' = << >>
    /\ unsettled' = (IF active = NoItem THEN << >> ELSE <<active>>) \o queue
    /\ UNCHANGED <<normal_closed, fault, terminal_intent, terminal_written,
                   bound, node, caller, outcome, history>>

SettleFailedNode ==
    /\ opc = "settle"
    /\ IF unsettled = << >>
       THEN opc' = "between" /\ UNCHANGED <<node, unsettled>>
       ELSE LET i == Head(unsettled)
            IN  /\ SetNode(i, "ABORTED")
                /\ completion' = [completion EXCEPT ![i] = TRUE]
                /\ acknowledgement' = [acknowledgement EXCEPT ![i] = TRUE]
                /\ unsettled' = Tail(unsettled)
                /\ UNCHANGED <<cause, late, ack_timed_out, opc>>
    /\ UNCHANGED <<shared, caller, outcome, history>>

-----------------------------------------------------------------------------
EnqueueStep(p) ==
    \/ Refused(p) \/ Put(p) \/ Backpressure(p)
    \/ TakeReceipt(p) \/ RefuseReceipt(p)
    \/ TimeoutQueued(p) \/ TimeoutClaimed(p) \/ ObserveFailure(p)

OwnerStep ==
    \/ DrainStep \/ Poll \/ AfterPoll \/ Finalize \/ FinishFinalize
    \/ Claim \/ StartIngest \/ RuntimeIngest \/ IngestRaised \/ RawReturned
    \/ PublishReceipt \/ IssueParent \/ Release \/ ReleaseFailed
    \/ RuntimeFailure \/ SettleFailedNode

Next ==
    \/ \E p \in Producers : BeginEnqueue(p) \/ EnqueueStep(p)
    \/ \E i \in Items : DeadlinePasses(i)
    \/ CloseInputs \/ BeginDrain \/ ExternalHalt \/ OwnerStep

(* Producer threads run and time passes; the owner may stop at any point.  *)
Spec ==
    /\ Init /\ [][Next]_vars
    /\ \A p \in Producers : WF_vars(EnqueueStep(p))
    /\ \A i \in Items : WF_vars(DeadlinePasses(i))

(* The owner is alive: it finishes what it began and drains again. *)
OwnerKeepsDraining == WF_vars(OwnerStep) /\ WF_vars(BeginDrain)
LiveSpec == Spec /\ OwnerKeepsDraining

-----------------------------------------------------------------------------
(* Properties.                                                             *)

(* Types of all the variables; the queue never exceeds its capacity.       *)
TypeOK ==
    /\ queue \in Seq(Items) /\ Len(queue) <= Capacity
    /\ active \in Items \cup {NoItem}
    /\ normal_closed \in BOOLEAN /\ runtime_failed \in BOOLEAN
    /\ terminal_written \in BOOLEAN /\ bound \in BOOLEAN
    /\ fault \in {"none", "backpressure", "owner_unresponsive"}
    /\ terminal_intent \in Actions \cup {"none"}
    /\ nstate \in [Items -> NodeStates]
    /\ cause \in [Items -> BOOLEAN] /\ late \in [Items -> BOOLEAN]
    /\ ack_timed_out \in [Items -> BOOLEAN]
    /\ completion \in [Items -> BOOLEAN] /\ acknowledgement \in [Items -> BOOLEAN]
    /\ sent \in [Producers -> 0 .. MaxItems]
    /\ ppc \in [Producers -> {"ready", "admit", "wait"}]
    /\ result \in [Items -> Results]
    /\ opc \in {"between", "drain", "poll", "polled", "polled_over", "finalize",
                "finalized", "claim", "start", "ingest", "raised", "ingested",
                "publish", "await", "release", "release_failed", "fail", "settle"}
    /\ unsettled \in Seq(Items) /\ journal \in Seq(Items)
    /\ terminal \in Actions \cup {"none", RuntimeHalt}
    /\ parents \in Seq(Items) /\ admitted \in Seq(Items)
    /\ expired \subseteq Items

(* A durable parent is handed on only for an item whose producer holds its *)
(* receipt: never for one whose producer was told that it failed.          *)
ParentsWereAcknowledged ==
    TypeOK /\ \A i \in Range(parents) : result[i] = "receipt"

(* The ingress ends the journal only after every admitted item became      *)
(* durable and was acknowledged: nobody waits behind its terminal.         *)
TerminalAfterEveryReceipt ==
    terminal \in Actions =>
        /\ journal = admitted
        /\ \A i \in Range(admitted) : result[i] = "receipt"

(* The abstract ingress: what producers, owner and journal see of queue,    *)
(* locks and deadlines.                                                    *)
Promise == INSTANCE IngressPromise WITH
    Faults <- {"backpressure", "owner_unresponsive"},
    CleanTerminals <- CleanActions, RuntimeHalt <- RuntimeHalt,
    dropped <- expired, told <- result, failed <- runtime_failed

(* The ingress keeps its promise: FIFO and no duplicates, no durable item  *)
(* behind one that was given up, an item that timed out before its claim   *)
(* is never ingested (TIMED_OUT_NO_RAW), a receipt is the truth, every     *)
(* producer is told once, no clean terminal follows a fault, and nothing   *)
(* follows a terminal or a failure.                                        *)
KeepsPromise == Promise!Spec

(* Every wait ends.  An enqueue returns, receipt or error, whatever the     *)
(* owner does; with an owner that keeps draining, a backpressure halt is    *)
(* drained into its halted terminal, and closed inputs end the session,     *)
(* unless the runtime fails.                                                *)
EveryWaitEnds ==
    /\ \A p \in Producers : (ppc[p] # "ready") ~> (ppc[p] = "ready")
    /\ OwnerKeepsDraining =>
         /\ fault = "backpressure" ~>
                (terminal = "backpressure" \/ runtime_failed)
         /\ normal_closed ~> (terminal # "none" \/ runtime_failed)

(* "On owner_unresponsive, a live owner drains already provisional items   *)
(* and writes one halted terminal."                                        *)
OwnerUnresponsiveEnds ==
    (fault = "owner_unresponsive") ~> (terminal = "owner_unresponsive")
=============================================================================
