------------------------- MODULE BoundedIngressProofs -------------------------
(***************************************************************************)
(* Theorems about BoundedIngress for any producers, items and capacity:    *)
(* a parent was acknowledged, a terminal is behind every receipt, and the  *)
(* ingress implements IngressPromise.                                      *)
(***************************************************************************)
EXTENDS BoundedIngress, TLAPS

\* Where the owner has no node, and where it works on one.
Quiet == {"between", "drain", "poll", "polled", "polled_over", "finalize", "finalized",
          "settle"}
Before == {"claim", "start", "ingest"}
Behind == {"ingested", "publish", "await", "release", "release_failed"}
Ending == {"finalize", "finalized", "fail", "settle", "between"}

\* The owner's place tells whether it has a node, whether the ingress is
\* ending, and whether the journal is still open.
Placed ==
    /\ opc \in Quiet => active = NoItem
    /\ opc \in Before \cup Behind \cup {"raised"} => active # NoItem
    /\ runtime_failed => opc \in {"settle", "between"} /\ queue = << >>
    /\ opc = "settle" => runtime_failed
    /\ terminal_intent # "none" => opc \in Ending /\ queue = << >> /\ active = NoItem
    /\ opc \in {"finalize", "finalized"} => terminal_intent # "none"
    /\ terminal_written => terminal_intent # "none"
    /\ terminal \in Actions => terminal_intent # "none"
    /\ terminal # "none" => \/ opc \in {"raised", "fail", "finalized"} \/ runtime_failed
                            \/ opc = "between" /\ terminal_written
    /\ terminal_intent \in CleanActions => fault = "none"

\* The journal, then the node at work, then the queue: the items as admitted.
Journaled ==
    /\ \A j, k \in 1 .. Len(admitted) : admitted[j] = admitted[k] => j = k
    /\ Len(journal) <= Len(admitted)
    /\ \A k \in 1 .. Len(journal) : journal[k] = admitted[k]
Lined == ~runtime_failed =>
    /\ Len(journal) + Len(queue) <= Len(admitted)
    /\ \A k \in 1 .. Len(queue) : queue[k] = admitted[Len(admitted) - Len(queue) + k]
    /\ active = NoItem => Len(journal) + Len(queue) = Len(admitted)
    /\ active # NoItem =>
          /\ Len(queue) < Len(admitted) /\ active = admitted[Len(admitted) - Len(queue)]
          /\ Len(journal) + Len(queue) + 1 >= Len(admitted)
    /\ opc \in Before => Len(journal) + Len(queue) + 1 = Len(admitted)
    /\ opc \in Behind => Len(journal) + Len(queue) = Len(admitted)

\* A producer waits for its last item only, and hears of each item once.
Called ==
    /\ \A i \in Range(admitted) :
          i[2] <= sent[i[1]] /\ (i[2] = sent[i[1]] => ppc[i[1]] # "admit")
    /\ \A p \in Producers :
          /\ ppc[p] # "ready" => sent[p] >= 1
          /\ ppc[p] = "wait" => Item(p) \in Range(admitted)
    /\ \A i \in Items :
          i[2] > sent[i[1]] \/ (i[2] = sent[i[1]] /\ ppc[i[1]] # "ready")
            => result[i] = "none"

\* What a node's state says of its item.
NodesTell ==
    /\ \A i \in Items :
          /\ i \in Range(journal) => nstate[i] # "QUEUED"
          /\ nstate[i] = "RECEIPT_PUBLISHED" => i \in Range(journal)
          /\ nstate[i] = "PRODUCER_ACKNOWLEDGED" => result[i] = "receipt"
          /\ i \in expired => /\ nstate[i] \in {"TIMED_OUT_NO_RAW", "ABORTED"}
                              /\ i \notin Range(journal)
    /\ opc = "start" => nstate[active] = "OWNER_CLAIMED"
    /\ opc = "ingest" => nstate[active] = "INGESTING"

\* The owner leaves a node behind only with a receipt, or fails.
Receipts ==
    /\ ~runtime_failed => \A i \in Range(journal) \ {active} : result[i] = "receipt"
    /\ opc = "release" => result[active] = "receipt"
    /\ \A i \in Range(parents) :
          i \in Range(journal) /\ result[i] = "receipt" /\ (i = active => opc = "release")
    /\ TerminalAfterEveryReceipt

IInv == TypeOK /\ Placed /\ Journaled /\ Lined /\ Called /\ NodesTell /\ Receipts

Threads ==
    \/ \E p \in Producers : BeginEnqueue(p) \/ EnqueueStep(p)
    \/ \E i \in Items : DeadlinePasses(i)
    \/ CloseInputs
Owner == BeginDrain \/ ExternalHalt \/ OwnerStep

-----------------------------------------------------------------------------
(* Sequences and items. *)

LEMMA Appended ==
    ASSUME NEW S, NEW s \in Seq(S), NEW e \in S, NEW t, t = Append(s, e)
    PROVE  /\ t \in Seq(S) /\ Len(t) = Len(s) + 1 /\ t[Len(s) + 1] = e
           /\ \A k \in 1 .. Len(s) : t[k] = s[k]
  OBVIOUS

LEMMA AppendedRange ==
    ASSUME NEW S, NEW s \in Seq(S), NEW e \in S
    PROVE  Range(Append(s, e)) = Range(s) \cup {e}
  <1> DEFINE t == Append(s, e)
  <1>1. /\ Len(t) = Len(s) + 1 /\ t[Len(s) + 1] = e /\ Len(s) \in Nat
        /\ \A k \in 1 .. Len(s) : t[k] = s[k]
        /\ DOMAIN s = 1 .. Len(s) /\ DOMAIN t = 1 .. Len(s) + 1
    OBVIOUS
  <1> HIDE DEF t
  <1>2. Range(t) = Range(s) \cup {e}
    BY <1>1 DEF Range
  <1> QED
    BY <1>2 DEF t

LEMMA SameItems ==
    ASSUME NEW S, NEW s \in Seq(S), NEW t \in Seq(S), Len(s) = Len(t),
           \A k \in 1 .. Len(s) : s[k] = t[k]
    PROVE  s = t
  <1>1. /\ DOMAIN s = 1 .. Len(s) /\ DOMAIN t = 1 .. Len(t)
        /\ s = [k \in DOMAIN s |-> s[k]] /\ t = [k \in DOMAIN t |-> t[k]]
    OBVIOUS
  <1> QED
    BY <1>1

LEMMA ItemTypes ==
    /\ NoItem \notin Items
    /\ \A i \in Items : i[1] \in Producers /\ i[2] \in 1 .. MaxItems /\ i = <<i[1], i[2]>>
    /\ \A p \in Producers, n \in 1 .. MaxItems : <<p, n>> \in Items
  BY DEF NoItem, Items

LEMMA CurrentItem ==
    ASSUME TypeOK, Called, NEW p \in Producers, ppc[p] # "ready"
    PROVE  /\ Item(p) \in Items /\ Item(p)[1] = p /\ Item(p)[2] = sent[p]
           /\ sent[p] \in 1 .. MaxItems /\ result[Item(p)] = "none"
  <1>1. sent[p] \in 1 .. MaxItems
    BY IngressAssumption DEF TypeOK, Called
  <1>2. Item(p) \in Items /\ Item(p)[1] = p /\ Item(p)[2] = sent[p]
    BY <1>1, ItemTypes DEF Item
  <1> QED
    BY <1>1, <1>2 DEF Called

\* The items in the sequences are items.
LEMMA Members ==
    ASSUME TypeOK
    PROVE  /\ Range(journal) \subseteq Items /\ Range(admitted) \subseteq Items
           /\ Range(parents) \subseteq Items
  BY DEF TypeOK, Range

-----------------------------------------------------------------------------
(* What producers leave alone, and what the owner leaves alone. *)

LEMMA ThreadsFrame ==
    ASSUME IInv, Threads
    PROVE  /\ UNCHANGED <<active, runtime_failed, terminal_intent, terminal_written, bound,
                          completion, opc, unsettled, outcome>>
           /\ \/ fault' = fault
              \/ fault = "none" /\ ~Ended /\ fault' \in {"backpressure", "owner_unresponsive"}
           /\ \/ UNCHANGED <<queue, admitted>>
              \/ \E p \in Producers : Put(p)
  BY DEF Threads, BeginEnqueue, EnqueueStep, Refused, Put, Backpressure, TakeReceipt,
         RefuseReceipt, TimeoutQueued, TimeoutClaimed, ObserveFailure, DeadlinePasses,
         CloseInputs, FaultAfter, AdmissionOpen, shared, node, outcome, history

LEMMA OwnerFrame == Owner => UNCHANGED <<sent, ppc, result, admitted, expired>>
  BY DEF Owner, OwnerStep, BeginDrain, ExternalHalt, Goto, DrainStep, TakeNode, ClaimAction,
         Poll, AfterPoll, Finalize, FinishFinalize, Claim, StartIngest, RuntimeIngest,
         IngestRaised, RawReturned, PublishReceipt, IssueParent, Release, ReleaseFailed,
         RuntimeFailure, SettleFailedNode, caller, history

-----------------------------------------------------------------------------
(* The types. *)

LEMMA Returned ==
    ASSUME TypeOK, NEW p \in Producers, Item(p) \in Items, NEW r \in Results, Return(p, r)
    PROVE  /\ sent' = sent /\ ppc' \in [Producers -> {"ready", "admit", "wait"}]
           /\ result' \in [Items -> Results]
           /\ ppc'[p] = "ready" /\ \A q \in Producers \ {p} : ppc'[q] = ppc[q]
           /\ result'[Item(p)] = r /\ \A i \in Items \ {Item(p)} : result'[i] = result[i]
  BY DEF Return, TypeOK

LEMMA ThreadsKeepTypes == IInv /\ Threads => TypeOK'
  <1> SUFFICES ASSUME IInv, Threads PROVE TypeOK'
    OBVIOUS
  <1> USE DEF IInv
  <1>1. ASSUME NEW p \in Producers, BeginEnqueue(p)
        PROVE  TypeOK'
    <2>1. sent[p] + 1 \in 0 .. MaxItems
      BY <1>1, IngressAssumption DEF BeginEnqueue, TypeOK
    <2> QED
      BY <1>1, <2>1 DEF BeginEnqueue, TypeOK, shared, node, outcome, history
  <1>2. ASSUME NEW p \in Producers, EnqueueStep(p)
        PROVE  TypeOK'
    <2>1. Item(p) \in Items
      BY <1>2, CurrentItem
         DEF EnqueueStep, Refused, Put, Backpressure, TakeReceipt, RefuseReceipt,
             TimeoutQueued, TimeoutClaimed, ObserveFailure, Woken
    <2>2. CASE Refused(p) \/ Backpressure(p)
      <3>1. ClosedError \in Results
        BY DEF ClosedError, TypeOK, Results
      <3>2. \E r \in Results : Return(p, r)
        BY <2>2, <3>1 DEF Refused, Backpressure, Results
      <3> QED
        BY <2>1, <2>2, <3>2, Returned
           DEF Refused, Backpressure, TypeOK, shared, node, outcome, history
    <2>3. CASE Put(p)
      BY <2>1, <2>3, IngressAssumption DEF Put, TypeOK, node, outcome
    <2>4. CASE TakeReceipt(p) \/ RefuseReceipt(p)
      <3>1. \E r \in Results : Return(p, r)
        BY <2>4 DEF TakeReceipt, RefuseReceipt, Results
      <3>2. /\ nstate' \in [Items -> NodeStates] /\ cause' \in [Items -> BOOLEAN]
            /\ acknowledgement' \in [Items -> BOOLEAN]
        BY <2>1, <2>4 DEF TakeReceipt, RefuseReceipt, TypeOK, NodeStates
      <3> QED
        BY <2>1, <2>4, <3>1, <3>2, Returned
           DEF TakeReceipt, RefuseReceipt, TypeOK, shared, outcome, history
    <2>5. CASE TimeoutQueued(p) \/ TimeoutClaimed(p)
      <3>1. \E r \in Results : Return(p, r)
        BY <2>5 DEF TimeoutQueued, TimeoutClaimed, Results
      <3>2. /\ nstate' \in [Items -> NodeStates] /\ cause' \in [Items -> BOOLEAN]
            /\ acknowledgement' \in [Items -> BOOLEAN]
            /\ ack_timed_out' \in [Items -> BOOLEAN]
        BY <2>1, <2>5 DEF TimeoutQueued, TimeoutClaimed, TypeOK, NodeStates
      <3>3. /\ fault' \in {"none", "backpressure", "owner_unresponsive"}
            /\ expired' \subseteq Items
        BY <2>1, <2>5 DEF TimeoutQueued, TimeoutClaimed, FaultAfter, TypeOK, history
      <3> QED
        BY <2>1, <2>5, <3>1, <3>2, <3>3, Returned
           DEF TimeoutQueued, TimeoutClaimed, TypeOK, outcome, history
    <2>6. CASE ObserveFailure(p)
      <3>1. \E r \in Results : Return(p, r)
        BY <2>6 DEF ObserveFailure, Results
      <3>2. cause' \in [Items -> BOOLEAN]
        BY <2>1, <2>6 DEF ObserveFailure, TypeOK
      <3> QED
        BY <2>1, <2>6, <3>1, <3>2, Returned DEF ObserveFailure, TypeOK, shared, outcome, history
    <2> QED
      BY <1>2, <2>2, <2>3, <2>4, <2>5, <2>6 DEF EnqueueStep
  <1>3. ASSUME NEW i \in Items, DeadlinePasses(i)
        PROVE  TypeOK'
    BY <1>3 DEF DeadlinePasses, TypeOK, shared, caller, outcome, history
  <1>4. CASE CloseInputs
    BY <1>4 DEF CloseInputs, TypeOK, node, caller, outcome, history
  <1> QED
    BY <1>1, <1>2, <1>3, <1>4 DEF Threads

LEMMA OwnersItem ==
    ASSUME TypeOK, Placed, opc \in Before \cup Behind \cup {"raised"}
    PROVE  active \in Items /\ ~runtime_failed /\ ~Ended
  BY DEF TypeOK, Placed, Before, Behind, Ending, Ended

LEMMA OwnerKeepsTypes == IInv /\ Owner => TypeOK'
  <1> SUFFICES ASSUME IInv, Owner PROVE TypeOK'
    OBVIOUS
  <1> USE DEF IInv, Goto
  <1>1. CASE BeginDrain \/ ExternalHalt
    <2>1. bound' \in BOOLEAN /\ normal_closed' \in BOOLEAN
      BY <1>1 DEF BeginDrain, ExternalHalt, TypeOK
    <2>2. terminal_intent' \in Actions \cup {"none"}
      BY <1>1 DEF BeginDrain, ExternalHalt, ExternalHaltAction, TypeOK, Actions
    <2>3. /\ UNCHANGED <<queue, active, fault, runtime_failed, terminal_written, node,
                         caller, unsettled, outcome, history>>
          /\ opc' \in {"drain", "finalize"}
      BY <1>1 DEF BeginDrain, ExternalHalt
    <2> QED
      BY <2>1, <2>2, <2>3 DEF TypeOK, node, caller, outcome, history
  <1>2. CASE DrainStep \/ AfterPoll
    <2>1. UNCHANGED <<node, caller, unsettled, outcome, history>>
      BY <1>2 DEF DrainStep, AfterPoll, TakeNode, ClaimAction
    <2>2. NextAction \in Actions \cup {"none"}
      BY DEF NextAction, TypeOK, Actions
    <2>3. CASE TakeNode
      <3>1. Head(queue) \in Items /\ Tail(queue) \in Seq(Items) /\ Len(Tail(queue)) <= Capacity
        BY <2>3, IngressAssumption DEF TakeNode, TypeOK
      <3> QED
        BY <2>1, <2>3, <3>1 DEF TakeNode, TypeOK, node, caller, outcome, history
    <2>4. CASE \E action \in Actions : ClaimAction(action)
      BY <2>1, <2>4 DEF ClaimAction, TypeOK, node, caller, outcome, history
    <2>5. CASE UNCHANGED shared /\ opc' \in {"poll", "drain", "between"}
      BY <2>1, <2>5 DEF TypeOK, shared, node, caller, outcome, history
    <2>6. ClaimAction(NextAction) => \E action \in Actions : ClaimAction(action)
      BY <2>2 DEF ClaimAction
    <2>7. ClaimAction("session_end") => \E action \in Actions : ClaimAction(action)
      BY DEF Actions
    <2> QED
      BY <1>2, <2>3, <2>4, <2>5, <2>6, <2>7 DEF DrainStep, AfterPoll
  <1>3. CASE Poll
    BY <1>3 DEF Poll, TypeOK, RuntimeHalt, shared, node, caller, history
  <1>4. CASE Finalize \/ FinishFinalize
    BY <1>4, ZenonT(60) DEF Finalize, FinishFinalize, TypeOK, RuntimeHalt, shared, node,
                            caller, outcome, history
  <1>5. CASE Claim \/ RawReturned
    BY <1>5, OwnersItem DEF Claim, RawReturned, SetNode, TypeOK, NodeStates, Before, Behind,
                            shared, caller, outcome, history
  <1>6. CASE StartIngest \/ IngestRaised
    BY <1>6, OwnersItem DEF StartIngest, IngestRaised, GiveUp, SetNode, TypeOK, NodeStates,
                            Before, shared, caller, outcome, history
  <1>7. CASE RuntimeIngest
    <2>1. active \in Items
      BY <1>7, OwnersItem DEF RuntimeIngest, Before
    <2>2. journal' \in {journal, Append(journal, active)} /\ opc' \in {"ingested", "raised"}
          /\ terminal' \in {terminal, RuntimeHalt}
      BY <1>7 DEF RuntimeIngest
    <2>3. journal' \in Seq(Items)
      BY <2>1, <2>2, Appended DEF TypeOK
    <2> QED
      BY <1>7, <2>2, <2>3 DEF RuntimeIngest, TypeOK, RuntimeHalt, shared, node, caller, history
  <1>8. CASE PublishReceipt
    BY <1>8, OwnersItem, ZenonT(60) DEF PublishReceipt, SetNode, TypeOK, NodeStates, Behind,
                                        shared, caller, outcome, history
  <1>9. CASE IssueParent
    <2>1. active \in Items
      BY <1>9, OwnersItem DEF IssueParent, Behind
    <2>2. /\ nstate' \in [Items -> NodeStates] /\ cause' \in [Items -> BOOLEAN]
          /\ parents' \in Seq(Items) /\ opc' \in {"release", "fail", "release_failed"}
      <3>1. /\ \E st \in {"PARENT_ISSUED", "ABORTED"} : SetNode(active, st)
            /\ \/ UNCHANGED cause
               \/ cause' = [cause EXCEPT ![active] = @ \/ nstate[active] = "RECEIPT_PUBLISHED"]
            /\ parents' \in {parents, Append(parents, active)}
            /\ opc' \in {"release", "fail", "release_failed"}
        BY <1>9 DEF IssueParent
      <3>2. nstate' \in [Items -> NodeStates]
        BY <2>1, <3>1 DEF SetNode, TypeOK, NodeStates
      <3>3. cause' \in [Items -> BOOLEAN]
        BY <2>1, <3>1 DEF TypeOK
      <3>4. parents' \in Seq(Items)
        BY <2>1, <3>1, Appended DEF TypeOK
      <3> QED
        BY <3>1, <3>2, <3>3, <3>4
    <2> QED
      BY <1>9, <2>2 DEF IssueParent, TypeOK, shared, caller, history
  <1>10. CASE Release \/ ReleaseFailed
    BY <1>10 DEF Release, ReleaseFailed, FaultAfter, TypeOK, node, caller, outcome, history
  <1>11. CASE RuntimeFailure
    <2>1. unsettled' \in Seq(Items)
      BY <1>11 DEF RuntimeFailure, TypeOK
    <2> QED
      BY <1>11, <2>1, IngressAssumption
         DEF RuntimeFailure, TypeOK, node, caller, outcome, history
  <1>12. CASE SettleFailedNode
    <2>1. CASE unsettled = << >>
      BY <1>12, <2>1 DEF SettleFailedNode, TypeOK, shared, node, caller, outcome, history
    <2>2. CASE unsettled # << >>
      <3>1. Head(unsettled) \in Items /\ unsettled' \in Seq(Items) /\ opc' = opc
        <4>1. unsettled \in Seq(Items) /\ unsettled' = Tail(unsettled) /\ opc' = opc
          BY <1>12, <2>2 DEF SettleFailedNode, TypeOK
        <4> QED
          BY <2>2, <4>1
      <3>2. /\ nstate' \in [Items -> NodeStates]
            /\ completion' \in [Items -> BOOLEAN] /\ acknowledgement' \in [Items -> BOOLEAN]
            /\ UNCHANGED <<cause, late, ack_timed_out>>
        BY <1>12, <2>2, <3>1 DEF SettleFailedNode, SetNode, TypeOK, NodeStates
      <3> QED
        BY <1>12, <3>1, <3>2 DEF SettleFailedNode, TypeOK, shared, caller, outcome, history
    <2> QED
      BY <2>1, <2>2
  <1> QED
    BY <1>1, <1>2, <1>3, <1>4, <1>5, <1>6, <1>7, <1>8, <1>9, <1>10, <1>11, <1>12
       DEF Owner, OwnerStep

-----------------------------------------------------------------------------
(* The places of the owner. *)

LEMMA ThreadsKeepPlaces == IInv /\ Threads => Placed'
  <1> SUFFICES ASSUME IInv, Threads PROVE Placed'
    OBVIOUS
  <1>1. queue' = queue \/ (AdmissionOpen /\ terminal_intent = "none" /\ ~runtime_failed)
    BY ThreadsFrame DEF Put, AdmissionOpen, Ended
  <1>2. fault' = fault \/ terminal_intent = "none"
    BY ThreadsFrame DEF Ended
  <1> QED
    BY <1>1, <1>2, ThreadsFrame DEF IInv, Placed, outcome, CleanActions

LEMMA OwnerKeepsPlaces == IInv /\ Owner => Placed'
  <1> SUFFICES ASSUME IInv, Owner PROVE Placed'
    OBVIOUS
  <1> USE DEF IInv, Goto, Placed, Quiet, Before, Behind, Ending, Ended
  <1>1. CASE BeginDrain \/ ExternalHalt
    BY <1>1 DEF BeginDrain, ExternalHalt, ExternalHaltAction, TypeOK, CleanActions, outcome
  <1>2. CASE TakeNode /\ (DrainStep \/ AfterPoll)
    <2>1. Head(queue) # NoItem
      BY <1>2, ItemTypes DEF TakeNode, TypeOK
    <2> QED
      BY <1>2, <2>1 DEF TakeNode, DrainStep, AfterPoll, outcome
  <1>3. CASE (DrainStep \/ AfterPoll) /\ ~TakeNode
    BY <1>3 DEF DrainStep, AfterPoll, ClaimAction, NextAction, AdmissionOpen, TypeOK,
                CleanActions, shared, outcome
  <1>4. CASE Poll \/ Finalize \/ FinishFinalize
    BY <1>4 DEF Poll, Finalize, FinishFinalize, TypeOK, RuntimeHalt, Actions, shared, outcome
  <1>5. CASE Claim \/ RawReturned \/ StartIngest \/ IngestRaised \/ PublishReceipt
    BY <1>5 DEF Claim, RawReturned, StartIngest, IngestRaised, PublishReceipt, GiveUp,
                shared, outcome
  <1>6. CASE RuntimeIngest \/ IssueParent
    BY <1>6 DEF RuntimeIngest, IssueParent, RuntimeHalt, Actions, shared
  <1>7. CASE Release \/ ReleaseFailed
    BY <1>7 DEF Release, ReleaseFailed, FaultAfter, CleanActions, outcome
  <1>8. CASE RuntimeFailure \/ SettleFailedNode
    BY <1>8 DEF RuntimeFailure, SettleFailedNode, shared, outcome
  <1> QED
    BY <1>1, <1>2, <1>3, <1>4, <1>5, <1>6, <1>7, <1>8 DEF Owner, OwnerStep

-----------------------------------------------------------------------------
(* The order of the items. *)

LEMMA ThreadsKeepOrder == IInv /\ Threads => Journaled' /\ Lined'
  <1> SUFFICES ASSUME IInv, Threads PROVE Journaled' /\ Lined'
    OBVIOUS
  <1> USE DEF IInv
  <1>1. UNCHANGED <<active, runtime_failed, opc, journal>>
    BY ThreadsFrame DEF outcome
  <1>2. CASE UNCHANGED <<queue, admitted>>
    BY <1>1, <1>2 DEF Journaled, Lined
  <1>3. ASSUME NEW p \in Producers, Put(p)
        PROVE  Journaled' /\ Lined'
    <2>1. /\ Item(p) \in Items /\ Item(p) \notin Range(admitted)
      <3>1. /\ Item(p) \in Items /\ Item(p)[1] = p /\ Item(p)[2] = sent[p]
            /\ ppc[p] = "admit"
        BY <1>3, CurrentItem DEF Put
      <3> QED
        BY <3>1 DEF Called
    <2>2. /\ queue' = Append(queue, Item(p)) /\ admitted' = Append(admitted, Item(p))
          /\ queue \in Seq(Items) /\ admitted \in Seq(Items) /\ journal \in Seq(Items)
      BY <1>3 DEF Put, TypeOK
    <2>3. /\ Len(admitted') = Len(admitted) + 1 /\ admitted'[Len(admitted) + 1] = Item(p)
          /\ \A k \in 1 .. Len(admitted) : admitted'[k] = admitted[k]
          /\ Len(queue') = Len(queue) + 1 /\ queue'[Len(queue) + 1] = Item(p)
          /\ \A k \in 1 .. Len(queue) : queue'[k] = queue[k]
      BY <2>1, <2>2, Appended
    <2>4. /\ Len(admitted) \in Nat /\ Len(queue) \in Nat /\ Len(journal) \in Nat
      BY <2>2
    <2>5. \A k \in 1 .. Len(admitted) : admitted[k] # Item(p)
      BY <2>1, <2>2 DEF Range
    <2>6. Journaled'
      BY <1>1, <2>3, <2>4, <2>5 DEF Journaled
    <2>7. Lined'
      <3>1. /\ ~runtime_failed => Len(queue) <= Len(admitted)
            /\ Len(admitted') - Len(queue') = Len(admitted) - Len(queue)
        BY <2>3, <2>4 DEF Lined
      <3>2. ASSUME ~runtime_failed, NEW k \in 1 .. Len(queue')
            PROVE  queue'[k] = admitted'[Len(admitted') - Len(queue') + k]
        <4>1. CASE k = Len(queue')
          BY <2>3, <2>4, <4>1
        <4>2. CASE k # Len(queue')
          <5>1. k \in 1 .. Len(queue) /\ queue[k] = admitted[Len(admitted) - Len(queue) + k]
            BY <2>3, <2>4, <3>2, <4>2 DEF Lined
          <5>2. Len(admitted) - Len(queue) + k \in 1 .. Len(admitted)
            BY <2>4, <3>1, <3>2, <5>1
          <5> QED
            BY <2>3, <2>4, <3>1, <5>1, <5>2
        <4> QED
          BY <4>1, <4>2
      <3>3. ~runtime_failed /\ active # NoItem =>
                admitted'[Len(admitted') - Len(queue')] = active
        <4>1. ~runtime_failed /\ active # NoItem =>
                  /\ Len(admitted) - Len(queue) \in 1 .. Len(admitted)
                  /\ admitted[Len(admitted) - Len(queue)] = active
          BY <2>4 DEF Lined
        <4> QED
          BY <2>3, <3>1, <4>1
      <3>4. /\ UNCHANGED <<active, runtime_failed, opc, journal, Before, Behind, NoItem>>
            /\ Len(admitted') = Len(admitted) + 1 /\ Len(queue') = Len(queue) + 1
        BY <1>1, <2>3 DEF Before, Behind, NoItem
      <3>5. ASSUME ~runtime_failed
            PROVE  /\ Len(journal) + Len(queue') <= Len(admitted')
                   /\ active = NoItem => Len(journal) + Len(queue') = Len(admitted')
                   /\ active # NoItem =>
                          /\ Len(queue') < Len(admitted')
                          /\ Len(journal) + Len(queue') + 1 >= Len(admitted')
                   /\ opc \in Before => Len(journal) + Len(queue') + 1 = Len(admitted')
                   /\ opc \in Behind => Len(journal) + Len(queue') = Len(admitted')
        <4>1. /\ Len(journal) + Len(queue) <= Len(admitted)
              /\ active = NoItem => Len(journal) + Len(queue) = Len(admitted)
              /\ active # NoItem => /\ Len(queue) < Len(admitted)
                                    /\ Len(journal) + Len(queue) + 1 >= Len(admitted)
              /\ opc \in Before => Len(journal) + Len(queue) + 1 = Len(admitted)
              /\ opc \in Behind => Len(journal) + Len(queue) = Len(admitted)
          BY <3>5 DEF Lined
        <4> QED
          BY <2>4, <3>4, <4>1
      <3> QED
        BY <3>2, <3>3, <3>4, <3>5 DEF Lined
    <2> QED
      BY <2>6, <2>7
  <1> QED
    BY <1>2, <1>3, ThreadsFrame

LEMMA OwnerKeepsOrder == IInv /\ Owner => Journaled' /\ Lined'
  <1> SUFFICES ASSUME IInv, Owner PROVE Journaled' /\ Lined'
    OBVIOUS
  <1> USE DEF IInv, Goto, Quiet, Before, Behind
  <1>1. admitted' = admitted
    BY OwnerFrame
  <1>2. Len(admitted) \in Nat /\ Len(queue) \in Nat /\ Len(journal) \in Nat
    BY DEF TypeOK
  <1>3. CASE RuntimeIngest
    <2>1. /\ active \in Items /\ ~runtime_failed /\ active # NoItem
          /\ UNCHANGED <<active, queue, runtime_failed>> /\ opc = "ingest"
          /\ \/ journal' = Append(journal, active) /\ opc' \in {"ingested", "raised"}
             \/ journal' = journal /\ opc' = "raised"
      BY <1>3, OwnersItem DEF RuntimeIngest, shared, Placed
    <2>2. /\ Len(journal) + Len(queue) + 1 = Len(admitted)
          /\ active = admitted[Len(admitted) - Len(queue)]
      BY <2>1 DEF Lined
    <2>3. CASE journal' = Append(journal, active)
      <3>1. /\ Len(journal') = Len(journal) + 1 /\ journal'[Len(journal) + 1] = active
            /\ \A k \in 1 .. Len(journal) : journal'[k] = journal[k]
        BY <2>1, <2>3, Appended DEF TypeOK
      <3>2. Len(admitted) - Len(queue) = Len(journal) + 1
        BY <1>2, <2>2
      <3>3. Journaled'
        BY <1>1, <1>2, <2>2, <3>1, <3>2 DEF Journaled
      <3>4. Lined'
        BY <1>1, <1>2, <2>1, <2>2, <3>1 DEF Lined
      <3> QED
        BY <3>3, <3>4
    <2>4. CASE journal' = journal /\ opc' = "raised"
      BY <1>1, <2>1, <2>4 DEF Journaled, Lined
    <2> QED
      BY <2>1, <2>3, <2>4
  <1>4. CASE ~RuntimeIngest
    <2>1. journal' = journal
      BY <1>4 DEF Owner, OwnerStep, BeginDrain, ExternalHalt, DrainStep, TakeNode,
         ClaimAction, Poll, AfterPoll, Finalize, FinishFinalize, Claim, StartIngest,
         IngestRaised, RawReturned, PublishReceipt, IssueParent, Release, ReleaseFailed,
         RuntimeFailure, SettleFailedNode, outcome
    <2>2. Journaled'
      BY <1>1, <2>1 DEF Journaled
    <2>3. Lined'
      <3>1. CASE TakeNode /\ (DrainStep \/ AfterPoll)
        <4>1. /\ queue # << >> /\ active' = Head(queue) /\ queue' = Tail(queue)
              /\ opc' = "claim" /\ active = NoItem /\ runtime_failed' = runtime_failed
          BY <3>1 DEF TakeNode, DrainStep, AfterPoll, Placed
        <4>2. /\ Len(queue) >= 1 /\ Len(queue') = Len(queue) - 1 /\ active' = queue[1]
              /\ \A k \in 1 .. Len(queue') : queue'[k] = queue[k + 1]
          BY <4>1 DEF TypeOK
        <4>3. active' # NoItem
          BY <4>1, ItemTypes DEF TypeOK
        <4> QED
          BY <1>1, <1>2, <2>1, <4>1, <4>2, <4>3 DEF Lined
      <3>2. CASE RuntimeFailure \/ SettleFailedNode
        BY <3>2 DEF RuntimeFailure, SettleFailedNode, Lined, Placed, shared
      <3>3. CASE BeginDrain \/ ExternalHalt \/ Poll \/ Finalize \/ FinishFinalize
                 \/ (~TakeNode /\ (DrainStep \/ AfterPoll))
        BY <1>1, <1>2, <2>1, <3>3
           DEF BeginDrain, ExternalHalt, Poll, Finalize, FinishFinalize, DrainStep,
               AfterPoll, ClaimAction, shared, Lined, Placed
      <3>4. CASE Claim \/ StartIngest \/ IngestRaised
        BY <1>1, <1>2, <2>1, <3>4
           DEF Claim, StartIngest, IngestRaised, GiveUp, shared, Lined, Placed
      <3>5. CASE RawReturned \/ PublishReceipt \/ IssueParent \/ Release \/ ReleaseFailed
        BY <1>1, <1>2, <2>1, <3>5
           DEF RawReturned, PublishReceipt, IssueParent, Release, ReleaseFailed, shared,
               Lined, Placed
      <3> QED
        BY <1>4, <3>1, <3>2, <3>3, <3>4, <3>5 DEF Owner, OwnerStep
    <2> QED
      BY <2>2, <2>3
  <1> QED
    BY <1>3, <1>4

\* The node at work is not in the journal until it is ingested, then it is its last.
LEMMA AtWork ==
    ASSUME IInv
    PROVE  /\ opc \in Before => active \notin Range(journal)
           /\ opc \in Behind => active \in Range(journal)
           /\ ~runtime_failed => \A i \in Range(queue) : i \notin Range(journal)
           /\ ~runtime_failed /\ active # NoItem => active \in Range(admitted)
           /\ Range(journal) \subseteq Range(admitted)
  <1> USE DEF IInv
  <1>1. /\ Len(admitted) \in Nat /\ Len(queue) \in Nat /\ Len(journal) \in Nat
        /\ DOMAIN admitted = 1 .. Len(admitted) /\ DOMAIN queue = 1 .. Len(queue)
        /\ DOMAIN journal = 1 .. Len(journal)
    BY DEF TypeOK
  <1>2. opc \in Before \cup Behind => ~runtime_failed /\ active # NoItem
    BY DEF Placed, Before, Behind
  <1>3. opc \in Before => active \notin Range(journal)
    <2> SUFFICES ASSUME opc \in Before, NEW k \in 1 .. Len(journal), journal[k] = active
                 PROVE  FALSE
      BY <1>1 DEF Range
    <2>1. /\ active = admitted[Len(admitted) - Len(queue)]
          /\ Len(queue) < Len(admitted)
          /\ Len(journal) + Len(queue) + 1 = Len(admitted)
      BY <1>2 DEF Lined
    <2>2. Len(admitted) - Len(queue) = Len(journal) + 1 /\ Len(journal) + 1 \in 1 .. Len(admitted)
      <3>1. /\ Len(admitted) \in Nat /\ Len(queue) \in Nat /\ Len(journal) \in Nat
            /\ Len(journal) + Len(queue) + 1 = Len(admitted)
        BY <1>1, <2>1
      <3> HIDE DEF IInv
      <3> QED
        BY <3>1, SMT
    <2>3. journal[k] = admitted[k]
      BY DEF Journaled
    <2>4. admitted[k] = admitted[Len(journal) + 1] /\ k \in 1 .. Len(admitted)
      BY <1>1, <2>1, <2>2, <2>3
    <2>5. k = Len(journal) + 1
      BY <2>2, <2>4 DEF Journaled
    <2> QED
      BY <1>1, <2>5
  <1>4. opc \in Behind => active \in Range(journal)
    <2> SUFFICES ASSUME opc \in Behind PROVE active \in Range(journal)
      OBVIOUS
    <2>1. active = admitted[Len(journal)] /\ Len(journal) \in 1 .. Len(journal)
      BY <1>1, <1>2 DEF Lined
    <2> QED
      BY <1>1, <2>1 DEF Journaled, Range
  <1>5. ASSUME ~runtime_failed, NEW i \in Range(queue)
        PROVE  i \notin Range(journal)
    <2>1. PICK k \in 1 .. Len(queue) : i = queue[k]
      BY <1>1, <1>5 DEF Range
    <2>2. i = admitted[Len(admitted) - Len(queue) + k] /\ Len(journal) + Len(queue) <= Len(admitted)
      BY <1>5, <2>1 DEF Lined
    <2>3. /\ Len(admitted) - Len(queue) + k \in 1 .. Len(admitted)
          /\ Len(journal) < Len(admitted) - Len(queue) + k
      BY <1>1, <2>1, <2>2
    <2>4. ASSUME NEW j \in 1 .. Len(journal), i = journal[j]
          PROVE  FALSE
      <3>1. admitted[j] = admitted[Len(admitted) - Len(queue) + k] /\ j \in 1 .. Len(admitted)
        BY <1>1, <2>2, <2>3, <2>4 DEF Journaled
      <3>2. j = Len(admitted) - Len(queue) + k
        BY <2>3, <3>1 DEF Journaled
      <3> QED
        BY <1>1, <2>3, <3>2
    <2> QED
      BY <1>1, <2>4 DEF Range
  <1>6. ~runtime_failed /\ active # NoItem => active \in Range(admitted)
    <2>1. ~runtime_failed /\ active # NoItem =>
              /\ Len(admitted) - Len(queue) \in 1 .. Len(admitted)
              /\ admitted[Len(admitted) - Len(queue)] = active
      <3> SUFFICES ASSUME ~runtime_failed, active # NoItem
                   PROVE  /\ Len(admitted) - Len(queue) \in 1 .. Len(admitted)
                          /\ admitted[Len(admitted) - Len(queue)] = active
        OBVIOUS
      <3>1. Len(queue) < Len(admitted) /\ active = admitted[Len(admitted) - Len(queue)]
        BY DEF Lined
      <3> QED
        BY <1>1, <3>1
    <2> QED
      BY <1>1, <2>1 DEF Range
  <1>7. Range(journal) \subseteq Range(admitted)
    BY <1>1 DEF Journaled, Range
  <1> QED
    BY <1>3, <1>4, <1>5, <1>6, <1>7

-----------------------------------------------------------------------------
(* The producers. *)

LEMMA OwnerKeepsCalls == IInv /\ Owner => Called'
  BY OwnerFrame DEF IInv, Called, Item

LEMMA ThreadsKeepCalls == IInv /\ Threads => Called'
  <1> SUFFICES ASSUME IInv, Threads PROVE Called'
    OBVIOUS
  <1> USE DEF IInv
  <1>1. CASE UNCHANGED <<sent, ppc, result, admitted>>
    BY <1>1 DEF Called, Item
  <1>2. ASSUME NEW p \in Producers, BeginEnqueue(p)
        PROVE  Called'
    <2>1. /\ sent' = [sent EXCEPT ![p] = @ + 1] /\ ppc' = [ppc EXCEPT ![p] = "admit"]
          /\ result' = result /\ admitted' = admitted
          /\ ppc[p] = "ready" /\ sent[p] \in Nat
      BY <1>2, IngressAssumption DEF BeginEnqueue, history, TypeOK
    <2>2. /\ sent'[p] = sent[p] + 1 /\ ppc'[p] = "admit"
          /\ \A q \in Producers \ {p} : sent'[q] = sent[q] /\ ppc'[q] = ppc[q]
      BY <2>1 DEF TypeOK
    <2>3. \A i \in Range(admitted) : i \in Items /\ i[1] \in Producers /\ i[2] \in Nat
      BY Members, ItemTypes, IngressAssumption
    <2>4. \A i \in Range(admitted) :
              i[2] <= sent'[i[1]] /\ (i[2] = sent'[i[1]] => ppc'[i[1]] # "admit")
      <3> SUFFICES ASSUME NEW i \in Range(admitted)
                   PROVE  i[2] <= sent'[i[1]] /\ (i[2] = sent'[i[1]] => ppc'[i[1]] # "admit")
        OBVIOUS
      <3>1. i[2] <= sent[i[1]] /\ (i[2] = sent[i[1]] => ppc[i[1]] # "admit")
        BY DEF Called
      <3> QED
        BY <2>1, <2>2, <2>3, <3>1
    <2>5. \A q \in Producers :
              /\ ppc'[q] # "ready" => sent'[q] >= 1
              /\ ppc'[q] = "wait" => <<q, sent'[q]>> \in Range(admitted)
      BY <2>1, <2>2 DEF Called, Item
    <2>6. ASSUME NEW i \in Items,
                 i[2] > sent'[i[1]] \/ (i[2] = sent'[i[1]] /\ ppc'[i[1]] # "ready")
          PROVE  result[i] = "none"
      <3>1. i[1] \in Producers /\ i[2] \in Nat
        BY ItemTypes, IngressAssumption
      <3>2. CASE i[1] = p
        BY <2>1, <2>2, <2>6, <3>1, <3>2 DEF Called
      <3>3. CASE i[1] # p
        BY <2>2, <2>6, <3>1, <3>3 DEF Called
      <3> QED
        BY <3>2, <3>3
    <2> QED
      BY <2>1, <2>4, <2>5, <2>6 DEF Called, Item
  <1>3. ASSUME NEW p \in Producers, Put(p)
        PROVE  Called'
    <2>1. /\ Item(p) \in Items /\ Item(p)[1] = p /\ Item(p)[2] = sent[p] /\ ppc[p] = "admit"
          /\ sent[p] \in Nat
      BY <1>3, CurrentItem, IngressAssumption DEF Put
    <2>2. /\ sent' = sent /\ result' = result /\ ppc' = [ppc EXCEPT ![p] = "wait"]
          /\ Range(admitted') = Range(admitted) \cup {Item(p)}
      <3>1. admitted \in Seq(Items) /\ admitted' = Append(admitted, Item(p))
        BY <1>3 DEF Put, TypeOK
      <3>2. Range(admitted') = Range(admitted) \cup {Item(p)}
        <4>1. Range(Append(admitted, Item(p))) = Range(admitted) \cup {Item(p)}
          BY <2>1, <3>1, AppendedRange
        <4> QED
          BY <3>1, <4>1
      <3> QED
        BY <1>3, <3>2 DEF Put
    <2>3. ppc'[p] = "wait" /\ \A q \in Producers \ {p} : ppc'[q] = ppc[q]
      BY <2>2 DEF TypeOK
    <2>4. \A i \in Range(admitted) \cup {Item(p)} : i[1] \in Producers
      BY <2>1, Members, ItemTypes
    <2>5. \A i \in Range(admitted') :
              i[2] <= sent[i[1]] /\ (i[2] = sent[i[1]] => ppc'[i[1]] # "admit")
      BY <2>1, <2>2, <2>3, <2>4 DEF Called
    <2>6. \A q \in Producers :
              /\ ppc'[q] # "ready" => sent[q] >= 1
              /\ ppc'[q] = "wait" => Item(q) \in Range(admitted')
      BY <2>1, <2>2, <2>3 DEF Called
    <2>7. \A i \in Items :
              i[2] > sent[i[1]] \/ (i[2] = sent[i[1]] /\ ppc'[i[1]] # "ready")
                => result[i] = "none"
      BY <2>1, <2>2, <2>3, ItemTypes DEF Called
    <2> QED
      BY <2>2, <2>5, <2>6, <2>7 DEF Called, Item
  <1>4. ASSUME NEW p \in Producers, NEW r \in Results, Return(p, r), ppc[p] # "ready",
               admitted' = admitted
        PROVE  Called'
    <2>1. /\ Item(p) \in Items /\ Item(p)[1] = p /\ Item(p)[2] = sent[p]
      BY <1>4, CurrentItem
    <2>2. /\ sent' = sent /\ ppc'[p] = "ready" /\ \A q \in Producers \ {p} : ppc'[q] = ppc[q]
          /\ \A i \in Items \ {Item(p)} : result'[i] = result[i]
      BY <1>4, <2>1, Returned
    <2>3. \A i \in Range(admitted) : i[1] \in Producers
      BY Members, ItemTypes
    <2>4. \A i \in Range(admitted) :
              i[2] <= sent[i[1]] /\ (i[2] = sent[i[1]] => ppc'[i[1]] # "admit")
      BY <2>2, <2>3 DEF Called
    <2>5. \A q \in Producers :
              /\ ppc'[q] # "ready" => sent[q] >= 1
              /\ ppc'[q] = "wait" => Item(q) \in Range(admitted)
      BY <2>2 DEF Called
    <2>6. ASSUME NEW i \in Items,
                 i[2] > sent[i[1]] \/ (i[2] = sent[i[1]] /\ ppc'[i[1]] # "ready")
          PROVE  result'[i] = "none"
      <3>1. i[1] \in Producers /\ sent[i[1]] \in Nat
        BY ItemTypes DEF TypeOK
      <3>2. i # Item(p)
        BY <2>1, <2>2, <2>6, <3>1
      <3> QED
        BY <2>2, <2>6, <3>1, <3>2 DEF Called
    <2> QED
      BY <1>4, <2>2, <2>4, <2>5, <2>6 DEF Called, Item
  <1>5. ASSUME NEW p \in Producers, EnqueueStep(p), ~Put(p)
        PROVE  /\ \E r \in Results : Return(p, r)
               /\ ppc[p] # "ready" /\ admitted' = admitted
    BY <1>5 DEF EnqueueStep, Refused, Backpressure, TakeReceipt, RefuseReceipt, TimeoutQueued,
       TimeoutClaimed, ObserveFailure, Woken, ClosedError, TypeOK, Results, history
  <1>6. ASSUME NEW i \in Items, DeadlinePasses(i)
        PROVE  Called'
    BY <1>1, <1>6 DEF DeadlinePasses, caller, history
  <1>7. CASE CloseInputs
    BY <1>1, <1>7 DEF CloseInputs, caller, history
  <1> QED
    BY <1>2, <1>3, <1>4, <1>5, <1>6, <1>7 DEF Threads, EnqueueStep

-----------------------------------------------------------------------------
(* The states of the nodes. *)

\* What a node's state says of its item.
NodeTells(i) ==
    /\ i \in Range(journal) => nstate[i] # "QUEUED"
    /\ nstate[i] = "RECEIPT_PUBLISHED" => i \in Range(journal)
    /\ nstate[i] = "PRODUCER_ACKNOWLEDGED" => result[i] = "receipt"
    /\ i \in expired => /\ nstate[i] \in {"TIMED_OUT_NO_RAW", "ABORTED"}
                        /\ i \notin Range(journal)

LEMMA NodeAdvances ==
    ASSUME TypeOK, NodesTell, NEW i \in Items, NEW st \in NodeStates \ {"QUEUED"},
           nstate' = [nstate EXCEPT ![i] = st], journal' = journal,
           \A j \in Items \ {i} : result'[j] = result[j],
           st = "RECEIPT_PUBLISHED" => i \in Range(journal),
           st = "PRODUCER_ACKNOWLEDGED" => result'[i] = "receipt",
           expired' \subseteq expired \cup {i},
           i \in expired' => st \in {"TIMED_OUT_NO_RAW", "ABORTED"} /\ i \notin Range(journal)
    PROVE  \A j \in Items : NodeTells(j)'
  <1>1. nstate'[i] = st /\ \A j \in Items \ {i} : nstate'[j] = nstate[j]
    BY DEF TypeOK
  <1> QED
    BY <1>1 DEF NodesTell, NodeTells

LEMMA NodesStay ==
    ASSUME NodesTell, UNCHANGED <<nstate, journal, expired>>,
           \A j \in Items : result'[j] = result[j] \/ result[j] = "none"
    PROVE  \A j \in Items : NodeTells(j)'
  BY DEF NodesTell, NodeTells

LEMMA ThreadsKeepNodes == IInv /\ Threads => NodesTell'
  <1> SUFFICES ASSUME IInv, Threads PROVE NodesTell'
    OBVIOUS
  <1> USE DEF IInv
  <1>1. UNCHANGED <<active, opc, journal>>
    BY ThreadsFrame DEF outcome
  <1>2. opc \in {"start", "ingest"} => active \in Items
    BY OwnersItem DEF Before
  <1>3. CASE UNCHANGED <<nstate, expired>>
             /\ \A j \in Items : result'[j] = result[j] \/ result[j] = "none"
    BY <1>1, <1>3, NodesStay DEF NodesTell, NodeTells
  <1>4. ASSUME NEW p \in Producers, NEW r \in Results, Return(p, r), ppc[p] # "ready",
               Item(p) \in Items
        PROVE  /\ \A j \in Items : result'[j] = result[j] \/ result[j] = "none"
               /\ result'[Item(p)] = r
               /\ \A j \in Items \ {Item(p)} : result'[j] = result[j]
    BY <1>4, CurrentItem, Returned
  <1>5. ASSUME NEW p \in Producers, EnqueueStep(p), ~Put(p)
        PROVE  NodesTell'
    <2>1. ppc[p] # "ready" /\ Item(p) \in Items
      BY <1>5, CurrentItem
         DEF EnqueueStep, Refused, Backpressure, TakeReceipt, RefuseReceipt, TimeoutQueued,
             TimeoutClaimed, ObserveFailure, Woken
    <2> DEFINE i == Item(p)
    <2>2. CASE Refused(p) \/ Backpressure(p) \/ TimeoutClaimed(p) \/ ObserveFailure(p)
      <3>1. \E r \in Results : Return(p, r)
        BY <2>2 DEF Refused, Backpressure, TimeoutClaimed, ObserveFailure, ClosedError,
                    TypeOK, Results
      <3>2. UNCHANGED <<nstate, expired>>
        BY <2>2 DEF Refused, Backpressure, TimeoutClaimed, ObserveFailure, node, history
      <3> QED
        BY <1>3, <1>4, <2>1, <3>1, <3>2
    <2>3. CASE TakeReceipt(p)
      <3>1. /\ nstate' = [nstate EXCEPT ![i] = "PRODUCER_ACKNOWLEDGED"]
            /\ Return(p, "receipt") /\ expired' = expired /\ nstate[i] = "RECEIPT_PUBLISHED"
        BY <2>3 DEF TakeReceipt, history
      <3>2. /\ result'[i] = "receipt" /\ \A j \in Items \ {i} : result'[j] = result[j]
            /\ i \notin expired
        BY <1>4, <2>1, <3>1 DEF Results, NodesTell
      <3>3. \A j \in Items : NodeTells(j)'
        BY <1>1, <2>1, <3>1, <3>2, NodeAdvances DEF NodeStates
      <3> QED
        BY <1>1, <1>2, <2>1, <3>1, <3>3 DEF NodesTell, NodeTells, TypeOK
    <2>4. CASE RefuseReceipt(p)
      <3>1. /\ nstate' = [nstate EXCEPT ![i] = "DURABLE_UNACKNOWLEDGED"]
            /\ Return(p, "owner_unresponsive") /\ expired' = expired
            /\ nstate[i] = "RECEIPT_PUBLISHED"
        BY <2>4 DEF RefuseReceipt, history
      <3>2. /\ \A j \in Items \ {i} : result'[j] = result[j]
            /\ i \notin expired
        BY <1>4, <2>1, <3>1 DEF Results, NodesTell
      <3>3. \A j \in Items : NodeTells(j)'
        BY <1>1, <2>1, <3>1, <3>2, NodeAdvances DEF NodeStates
      <3> QED
        BY <1>1, <1>2, <2>1, <3>1, <3>3 DEF NodesTell, NodeTells, TypeOK
    <2>5. CASE TimeoutQueued(p)
      <3>1. /\ nstate' = [nstate EXCEPT ![i] = "TIMED_OUT_NO_RAW"]
            /\ Return(p, "owner_unresponsive") /\ expired' = expired \cup {i}
            /\ nstate[i] = "QUEUED"
        BY <2>5 DEF TimeoutQueued
      <3>2. \A j \in Items \ {i} : result'[j] = result[j]
        BY <1>4, <2>1, <3>1 DEF Results
      <3>3. \A j \in Items : NodeTells(j)'
        <4>1. i \notin Range(journal)
          BY <2>1, <3>1 DEF NodesTell
        <4> QED
          BY <1>1, <2>1, <3>1, <3>2, <4>1, NodeAdvances DEF NodeStates
      <3> QED
        BY <1>1, <1>2, <2>1, <3>1, <3>3 DEF NodesTell, NodeTells, TypeOK
    <2> QED
      BY <1>5, <2>2, <2>3, <2>4, <2>5 DEF EnqueueStep
  <1>6. CASE \E p \in Producers : BeginEnqueue(p) \/ Put(p)
    BY <1>3, <1>6 DEF BeginEnqueue, Put, node, history
  <1>7. CASE CloseInputs \/ \E i \in Items : DeadlinePasses(i)
    BY <1>3, <1>7 DEF CloseInputs, DeadlinePasses, node, caller, history
  <1> QED
    BY <1>5, <1>6, <1>7 DEF Threads, EnqueueStep

LEMMA OwnerKeepsNodes == IInv /\ Owner => NodesTell'
  <1> SUFFICES ASSUME IInv, Owner PROVE NodesTell'
    OBVIOUS
  <1> USE DEF IInv, Goto
  <1>1. UNCHANGED <<result, expired>>
    BY OwnerFrame
  <1>2. /\ \A j \in Items : NodeTells(j)'
        /\ opc' = "start" => nstate'[active'] = "OWNER_CLAIMED"
        /\ opc' = "ingest" => nstate'[active'] = "INGESTING"
        => NodesTell'
    BY DEF NodesTell, NodeTells
  <1>3. CASE RuntimeIngest
    <2>1. /\ opc = "ingest" /\ nstate' = nstate /\ opc' \in {"ingested", "raised"}
          /\ journal' \in {journal, Append(journal, active)}
      BY <1>3 DEF RuntimeIngest, node
    <2>2. active \in Items /\ nstate[active] = "INGESTING"
      BY <2>1, OwnersItem DEF Before, NodesTell
    <2>3. Range(journal') \in {Range(journal), Range(journal) \cup {active}}
      <3>1. Range(Append(journal, active)) = Range(journal) \cup {active}
        BY <2>2, AppendedRange DEF TypeOK
      <3> QED
        BY <2>1, <3>1
    <2> QED
      BY <1>1, <2>1, <2>2, <2>3 DEF NodesTell
  <1>4. CASE \E i \in Items, st \in NodeStates \ {"QUEUED", "PRODUCER_ACKNOWLEDGED"} :
                /\ nstate' = [nstate EXCEPT ![i] = st] /\ journal' = journal
                /\ st = "RECEIPT_PUBLISHED" => i \in Range(journal)
                /\ i \in expired => st \in {"TIMED_OUT_NO_RAW", "ABORTED"}
                /\ opc' = "start" => i = active' /\ st = "OWNER_CLAIMED"
                /\ opc' = "ingest" => i = active' /\ st = "INGESTING"
    <2>1. PICK i \in Items, st \in NodeStates \ {"QUEUED", "PRODUCER_ACKNOWLEDGED"} :
                /\ nstate' = [nstate EXCEPT ![i] = st] /\ journal' = journal
                /\ st = "RECEIPT_PUBLISHED" => i \in Range(journal)
                /\ i \in expired => st \in {"TIMED_OUT_NO_RAW", "ABORTED"}
                /\ opc' = "start" => i = active' /\ st = "OWNER_CLAIMED"
                /\ opc' = "ingest" => i = active' /\ st = "INGESTING"
      BY <1>4
    <2>2. \A j \in Items : NodeTells(j)'
      BY <1>1, <2>1, NodeAdvances DEF NodesTell
    <2>3. nstate'[i] = st
      BY <2>1 DEF TypeOK
    <2> QED
      BY <1>2, <2>1, <2>2, <2>3
  <1>5. CASE UNCHANGED <<nstate, journal>> /\ opc' \notin {"start", "ingest"}
    BY <1>1, <1>2, <1>5, NodesStay
  <1>6. CASE Claim
    BY <1>4, <1>6, OwnersItem
       DEF Claim, SetNode, NodeStates, Before, NodesTell, outcome, shared
  <1>7. CASE StartIngest
    BY <1>4, <1>7, OwnersItem
       DEF StartIngest, GiveUp, SetNode, NodeStates, Before, NodesTell, outcome, shared
  <1>8. CASE IngestRaised
    BY <1>4, <1>8, OwnersItem DEF IngestRaised, GiveUp, SetNode, NodeStates, outcome
  <1>9. CASE SettleFailedNode
    BY <1>4, <1>5, <1>9 DEF SettleFailedNode, SetNode, NodeStates, TypeOK, outcome, node
  <1>10. CASE ~(RuntimeIngest \/ Claim \/ StartIngest \/ IngestRaised \/ SettleFailedNode
                \/ RawReturned \/ PublishReceipt \/ IssueParent)
    BY <1>5, <1>10
       DEF Owner, OwnerStep, BeginDrain, ExternalHalt, DrainStep, TakeNode, ClaimAction, Poll,
           AfterPoll, Finalize, FinishFinalize, Release, ReleaseFailed, RuntimeFailure, node,
           outcome
  <1>11. CASE RawReturned \/ PublishReceipt \/ IssueParent
    BY <1>4, <1>11, OwnersItem, AtWork
       DEF RawReturned, PublishReceipt, IssueParent, SetNode, NodeStates, Behind, NodesTell,
           outcome
  <1> QED
    BY <1>3, <1>6, <1>7, <1>8, <1>9, <1>10, <1>11 DEF Owner, OwnerStep

-----------------------------------------------------------------------------
(* Receipts, parents and the terminal. *)

LEMMA AnswersStay ==
    ASSUME IInv, Threads
    PROVE  \A i \in Items : result'[i] = result[i] \/ result[i] = "none"
  <1>1. ASSUME NEW p \in Producers, EnqueueStep(p), ~Put(p)
        PROVE  \A i \in Items : result'[i] = result[i] \/ result[i] = "none"
    <2>1. ppc[p] # "ready" /\ \E r \in Results : Return(p, r)
      BY <1>1 DEF EnqueueStep, Refused, Backpressure, TakeReceipt, RefuseReceipt,
         TimeoutQueued, TimeoutClaimed, ObserveFailure, Woken, ClosedError, TypeOK, Results,
         IInv
    <2> QED
      BY <2>1, CurrentItem, Returned DEF IInv
  <1>2. CASE \E p \in Producers : BeginEnqueue(p) \/ Put(p)
    BY <1>2 DEF BeginEnqueue, Put
  <1>3. CASE CloseInputs \/ \E i \in Items : DeadlinePasses(i)
    BY <1>3 DEF CloseInputs, DeadlinePasses, caller
  <1> QED
    BY <1>1, <1>2, <1>3 DEF Threads, EnqueueStep

LEMMA ThreadsKeepReceipts == IInv /\ Threads => Receipts'
  <1> SUFFICES ASSUME IInv, Threads PROVE Receipts'
    OBVIOUS
  <1> USE DEF IInv
  <1>1. UNCHANGED <<active, runtime_failed, opc, journal, terminal, parents>>
    BY ThreadsFrame DEF outcome
  <1>2. \A i \in Items : result[i] = "receipt" => result'[i] = "receipt"
    BY AnswersStay
  <1>3. opc = "release" => active \in Items
    BY OwnersItem DEF Behind
  <1>4. terminal \in Actions => admitted' = admitted
    BY ThreadsFrame DEF Put, AdmissionOpen, Ended, Placed
  <1>5. TerminalAfterEveryReceipt'
    BY <1>1, <1>2, <1>4, Members DEF Receipts, TerminalAfterEveryReceipt
  <1> QED
    BY <1>1, <1>2, <1>3, <1>5, Members DEF Receipts

\* Nothing is left to do: the journal is what was admitted.
LEMMA AllJournaled ==
    ASSUME IInv, opc = "finalize"
    PROVE  journal = admitted /\ \A i \in Range(admitted) : result[i] = "receipt"
  <1> USE DEF IInv
  <1>1. /\ active = NoItem /\ queue = << >> /\ ~runtime_failed
    BY DEF Placed, Quiet
  <1>2. Len(journal) = Len(admitted)
    BY <1>1 DEF TypeOK, Lined
  <1>3. journal = admitted
    BY <1>2, SameItems DEF TypeOK, Journaled
  <1>4. NoItem \notin Range(journal)
    BY Members, ItemTypes
  <1> QED
    BY <1>1, <1>3, <1>4 DEF Receipts

LEMMA OwnerKeepsReceipts == IInv /\ Owner => Receipts'
  <1> SUFFICES ASSUME IInv, Owner PROVE Receipts'
    OBVIOUS
  <1> USE DEF IInv, Goto
  <1>1. UNCHANGED <<result, admitted>>
    BY OwnerFrame
  <1>2. NoItem \notin Range(journal) /\ NoItem \notin Range(parents)
    BY Members, ItemTypes
  <1>3. CASE RuntimeIngest
    <2>1. /\ opc = "ingest" /\ opc' \in {"ingested", "raised"}
          /\ journal' \in {journal, Append(journal, active)}
          /\ terminal' \in {terminal, RuntimeHalt}
          /\ UNCHANGED <<active, runtime_failed, parents>>
      BY <1>3 DEF RuntimeIngest, shared
    <2>2. active \in Items /\ active \notin Range(journal) /\ terminal \notin Actions
      BY <2>1, OwnersItem, AtWork DEF Before, Placed, Ending
    <2>3. Range(journal') \in {Range(journal), Range(journal) \cup {active}}
      <3>1. Range(Append(journal, active)) = Range(journal) \cup {active}
        BY <2>2, AppendedRange DEF TypeOK
      <3> QED
        BY <2>1, <3>1
    <2>4. TerminalAfterEveryReceipt'
      BY <2>1, <2>2 DEF TerminalAfterEveryReceipt, RuntimeHalt, Actions
    <2> QED
      BY <1>1, <2>1, <2>2, <2>3, <2>4 DEF Receipts
  <1>4. CASE Finalize
    <2>1. TerminalAfterEveryReceipt'
      BY <1>1, <1>4, AllJournaled
         DEF Finalize, Receipts, TerminalAfterEveryReceipt, RuntimeHalt, Actions
    <2> QED
      BY <1>1, <1>4, <2>1 DEF Finalize, Receipts, shared
  <1>5. CASE ~RuntimeIngest /\ ~Finalize
    <2>1. journal' = journal /\ terminal' \in {terminal, RuntimeHalt}
      BY <1>5 DEF Owner, OwnerStep, BeginDrain, ExternalHalt, DrainStep, TakeNode,
         ClaimAction, Poll, AfterPoll, FinishFinalize, Claim, StartIngest,
         IngestRaised, RawReturned, PublishReceipt, IssueParent, Release, ReleaseFailed,
         RuntimeFailure, SettleFailedNode, outcome
    <2>2. TerminalAfterEveryReceipt'
      BY <1>1, <2>1 DEF Receipts, TerminalAfterEveryReceipt, RuntimeHalt, Actions
    <2>3. CASE IssueParent
      <3>1. /\ opc = "await" /\ active \in Items /\ active \in Range(journal)
            /\ UNCHANGED <<active, runtime_failed>>
        BY <2>3, OwnersItem, AtWork DEF IssueParent, Behind, shared
      <3>2. CASE parents' = Append(parents, active)
        <4>1. Range(Append(parents, active)) = Range(parents) \cup {active}
          BY <3>1, AppendedRange DEF TypeOK
        <4>2. opc' = "release" /\ result[active] = "receipt"
          <5>1. parents' # parents
            BY <3>1, <3>2 DEF TypeOK
          <5> QED
            BY <2>3, <3>1, <5>1 DEF IssueParent, NodesTell
        <4> QED
          BY <1>1, <2>1, <2>2, <3>1, <3>2, <4>1, <4>2 DEF Receipts
      <3>3. CASE parents' = parents /\ opc' # "release"
        BY <1>1, <2>1, <2>2, <3>1, <3>3 DEF Receipts
      <3> QED
        BY <2>3, <3>2, <3>3 DEF IssueParent
    <2>4. CASE ~IssueParent
      <3>1. parents' = parents /\ opc' # "release"
        BY <1>5, <2>4 DEF Owner, OwnerStep, BeginDrain, ExternalHalt, DrainStep, TakeNode,
           ClaimAction, Poll, AfterPoll, FinishFinalize, Claim, StartIngest,
           GiveUp, IngestRaised, RawReturned, PublishReceipt, Release, ReleaseFailed,
           RuntimeFailure, SettleFailedNode, outcome
      <3>2. CASE TakeNode /\ (DrainStep \/ AfterPoll)
        <4>1. /\ queue # << >> /\ active' = Head(queue) /\ active = NoItem
              /\ runtime_failed' = runtime_failed /\ ~runtime_failed
          BY <3>2 DEF TakeNode, DrainStep, AfterPoll, Placed, Quiet, Ended
        <4>2. active' \in Range(queue)
          BY <4>1 DEF TypeOK, Range
        <4> QED
          BY <1>1, <1>2, <2>1, <2>2, <3>1, <4>1, <4>2, AtWork DEF Receipts
      <3>3. CASE RuntimeFailure
        BY <1>1, <1>2, <2>1, <2>2, <3>1, <3>3 DEF RuntimeFailure, Receipts
      <3>4. CASE Release
        BY <1>1, <1>2, <2>1, <2>2, <3>1, <3>4 DEF Release, Receipts
      <3>5. CASE UNCHANGED <<active, runtime_failed>> /\ opc # "release"
        BY <1>1, <2>1, <2>2, <3>1, <3>5 DEF Receipts
      <3>6. CASE ~(TakeNode /\ (DrainStep \/ AfterPoll)) /\ ~RuntimeFailure /\ ~Release
        BY <1>5, <2>4, <3>5, <3>6
           DEF Owner, OwnerStep, BeginDrain, ExternalHalt, DrainStep, ClaimAction, Poll,
               AfterPoll, FinishFinalize, Claim, StartIngest, IngestRaised, RawReturned,
               PublishReceipt, ReleaseFailed, SettleFailedNode, shared
      <3> QED
        BY <3>2, <3>3, <3>4, <3>6
    <2> QED
      BY <2>3, <2>4
  <1> QED
    BY <1>3, <1>4, <1>5

-----------------------------------------------------------------------------
(* The invariant. *)

LEMMA Initial == Init => IInv
  <1> SUFFICES ASSUME Init PROVE IInv
    OBVIOUS
  <1>1. /\ normal_closed \in BOOLEAN /\ runtime_failed \in BOOLEAN
        /\ terminal_written \in BOOLEAN /\ bound \in BOOLEAN
        /\ ~runtime_failed /\ ~terminal_written
    BY Zenon DEF Init
  <1>2. /\ cause \in [Items -> BOOLEAN] /\ late \in [Items -> BOOLEAN]
        /\ ack_timed_out \in [Items -> BOOLEAN]
        /\ completion \in [Items -> BOOLEAN] /\ acknowledgement \in [Items -> BOOLEAN]
    BY Zenon DEF Init
  <1>3. TypeOK
    BY <1>1, <1>2, IngressAssumption DEF Init, TypeOK, NodeStates, Results
  <1>4. Range(admitted) = {} /\ Range(journal) = {} /\ Range(parents) = {}
    BY DEF Init, Range
  <1>5. Placed /\ Journaled /\ Lined
    BY <1>1 DEF Init, Placed, Journaled, Lined, Quiet, Before, Behind, Actions, CleanActions
  <1>6. Called /\ NodesTell /\ Receipts
    BY <1>4 DEF Init, Called, NodesTell, Receipts, TerminalAfterEveryReceipt, Actions
  <1> QED
    BY <1>3, <1>5, <1>6 DEF IInv

LEMMA StepsKnown == Next => Threads \/ Owner
  BY DEF Next, Threads, Owner

LEMMA Inductive == IInv /\ [Next]_vars => IInv'
  <1> SUFFICES ASSUME IInv, [Next]_vars PROVE IInv'
    OBVIOUS
  <1>1. CASE Threads
    BY <1>1, ThreadsKeepTypes, ThreadsKeepPlaces, ThreadsKeepOrder, ThreadsKeepCalls,
       ThreadsKeepNodes, ThreadsKeepReceipts DEF IInv
  <1>2. CASE Owner
    BY <1>2, OwnerKeepsTypes, OwnerKeepsPlaces, OwnerKeepsOrder, OwnerKeepsCalls,
       OwnerKeepsNodes, OwnerKeepsReceipts DEF IInv
  <1>3. CASE UNCHANGED vars
    BY <1>3 DEF vars, IInv, TypeOK, Placed, Journaled, Lined, Called, Item, NodesTell,
                Receipts, TerminalAfterEveryReceipt
  <1> QED
    BY <1>1, <1>2, <1>3, StepsKnown

LEMMA Invariance == Spec => []IInv
  BY Initial, Inductive, PTL DEF Spec

-----------------------------------------------------------------------------
(* Theorems. *)

\* A parent is handed on only for an item whose producer holds its receipt,
\* however the deadline of enqueue races _process_node.
THEOREM ParentsAcknowledged == Spec => []ParentsWereAcknowledged
  <1>1. IInv => ParentsWereAcknowledged
    BY DEF IInv, Receipts, ParentsWereAcknowledged
  <1> QED
    BY <1>1, Invariance, PTL

\* The ingress writes a terminal of its own only behind the receipts of all that
\* was admitted.
THEOREM TerminalIsLast == Spec => []TerminalAfterEveryReceipt
  <1>1. IInv => TerminalAfterEveryReceipt
    BY DEF IInv, Receipts
  <1> QED
    BY <1>1, Invariance, PTL

-----------------------------------------------------------------------------
(* The refinement. *)

\* What the abstract ingress sees.
Seen == <<admitted, journal, expired, result, parents, fault, terminal, runtime_failed>>

LEMMA SameRange == \A s : Promise!Range(s) = Range(s)
  BY DEF Range, Promise!Range

\* A fault is noticed while nothing is decided.
LEMMA Noticed ==
    ASSUME IInv, fault' = fault \/ (fault = "none" /\ ~Ended
                                    /\ fault' \in {"backpressure", "owner_unresponsive"})
    PROVE  Promise!Notice
  <1>1. ~Ended => Promise!Undecided
    BY DEF IInv, Placed, Ended, Promise!Undecided, TypeOK
  <1> QED
    BY <1>1 DEF Promise!Notice

LEMMA ThreadsAsPromised == IInv /\ Threads => [Promise!Next]_(Promise!promise)
  <1> SUFFICES ASSUME IInv, Threads PROVE [Promise!Next]_Seen
    BY DEF Seen, Promise!promise
  <1> USE DEF IInv
  <1>1. UNCHANGED <<journal, parents, terminal, runtime_failed>>
    BY ThreadsFrame DEF outcome
  <1>2. Promise!Notice
    BY ThreadsFrame, Noticed
  <1>3. ASSUME NEW p \in Producers, Put(p)
        PROVE  Promise!Next
    <2>1. /\ Item(p) \in Items /\ result[Item(p)] = "none" /\ Item(p)[1] = p
          /\ Item(p)[2] = sent[p] /\ ppc[p] = "admit"
      BY <1>3, CurrentItem DEF Put
    <2>2. Item(p) \notin Range(admitted)
      BY <2>1 DEF Called
    <2>3. Promise!Undecided /\ fault = "none"
      BY <1>3 DEF Put, AdmissionOpen, Ended, Promise!Undecided, Placed, TypeOK
    <2>4. Promise!Admit(Item(p))
      BY <1>1, <1>3, <2>1, <2>2, <2>3, SameRange DEF Put, Promise!Admit
    <2> QED
      BY <2>1, <2>4 DEF Promise!Next
  <1>4. ASSUME NEW p \in Producers, EnqueueStep(p), ~Put(p)
        PROVE  Promise!Next
    <2> DEFINE i == Item(p)
               Answers == {"receipt", "closed", "backpressure", "owner_unresponsive"}
    <2>1. ppc[p] # "ready" /\ i \in Items /\ result[i] = "none" /\ admitted' = admitted
      BY <1>4, CurrentItem
         DEF EnqueueStep, Refused, Backpressure, TakeReceipt, RefuseReceipt, TimeoutQueued,
             TimeoutClaimed, ObserveFailure, Woken, history
    <2>2. ASSUME NEW r \in Answers, Return(p, r), r = "receipt" => i \in Range(journal)
          PROVE  Promise!Tell(i, r)
      BY <2>1, <2>2, SameRange DEF Return, Promise!Tell
    <2>3. CASE ~TimeoutQueued(p)
      <3>1. expired' = expired
        BY <1>4, <2>3 DEF EnqueueStep, Refused, Backpressure, TakeReceipt, RefuseReceipt,
           TimeoutClaimed, ObserveFailure, history
      <3>2. PICK r \in Answers : Return(p, r) /\ (r = "receipt" => i \in Range(journal))
        <4>1. TakeReceipt(p) => i \in Range(journal)
          BY <2>1 DEF TakeReceipt, NodesTell
        <4>2. ClosedError \in {"closed", "backpressure", "owner_unresponsive"}
          BY DEF ClosedError, TypeOK
        <4> QED
          BY <1>4, <2>3, <4>1, <4>2
             DEF EnqueueStep, Refused, Backpressure, TakeReceipt, RefuseReceipt,
                 TimeoutClaimed, ObserveFailure
      <3>3. Promise!Tell(i, r)
        BY <2>2, <3>2
      <3>4. Promise!Answer(i)
        BY <1>1, <1>2, <2>1, <3>1, <3>3 DEF Promise!Answer
      <3> QED
        BY <2>1, <3>4 DEF Promise!Next
    <2>4. CASE TimeoutQueued(p)
      <3>1. /\ Return(p, "owner_unresponsive") /\ expired' = expired \cup {i}
            /\ nstate[i] = "QUEUED" /\ ppc[p] = "wait"
        BY <2>4 DEF TimeoutQueued, Woken
      <3>2. i \in Range(admitted) \ Range(journal)
        BY <2>1, <3>1 DEF Called, NodesTell
      <3>3. Promise!Tell(i, "owner_unresponsive")
        BY <2>2, <3>1
      <3>4. Promise!Drop(i)
        BY <1>1, <1>2, <2>1, <3>1, <3>2, <3>3, SameRange DEF Promise!Drop
      <3> QED
        BY <2>1, <3>4 DEF Promise!Next
    <2> QED
      BY <2>3, <2>4
  <1>5. ASSUME (\E p \in Producers : BeginEnqueue(p)) \/ CloseInputs
               \/ \E i \in Items : DeadlinePasses(i)
        PROVE  UNCHANGED Seen
    BY <1>5 DEF BeginEnqueue, CloseInputs, DeadlinePasses, Seen, shared, outcome, caller,
                history
  <1> QED
    BY <1>3, <1>4, <1>5 DEF Threads, EnqueueStep

LEMMA OwnerAsPromised == IInv /\ Owner => [Promise!Next]_(Promise!promise)
  <1> SUFFICES ASSUME IInv, Owner PROVE [Promise!Next]_Seen
    BY DEF Seen, Promise!promise
  <1> USE DEF IInv, Goto
  <1>1. UNCHANGED <<admitted, result, expired>>
    BY OwnerFrame
  <1>2. CASE RuntimeIngest
    <2>1. /\ opc = "ingest" /\ UNCHANGED <<parents, fault, runtime_failed>>
          /\ \/ journal' = Append(journal, active) /\ terminal' \in {terminal, RuntimeHalt}
             \/ journal' = journal /\ terminal' \in {terminal, RuntimeHalt}
      BY <1>2 DEF RuntimeIngest, shared
    <2>2. terminal = "none" /\ ~runtime_failed
      BY <2>1 DEF Placed
    <2>3. CASE journal' = Append(journal, active) /\ terminal' \in {terminal, RuntimeHalt}
      <3>1. /\ active = admitted[Len(admitted) - Len(queue)] /\ active # NoItem
            /\ Len(journal) + Len(queue) + 1 = Len(admitted) /\ active \notin expired
        BY <2>1, <2>2, OwnersItem DEF Before, Lined, Placed, NodesTell
      <3>2. Len(journal) \in Nat /\ Len(queue) \in Nat /\ Len(admitted) \in Nat
        BY DEF TypeOK
      <3>3. Len(journal) < Len(admitted) /\ active = admitted[Len(journal) + 1]
        <4>1. Len(admitted) - Len(queue) = Len(journal) + 1
          BY <3>1, <3>2
        <4> QED
          BY <3>1, <3>2, <4>1
      <3>4. Promise!Persist
        BY <1>1, <2>1, <2>2, <2>3, <3>1, <3>3 DEF Promise!Persist, Promise!Writable
      <3> QED
        BY <3>4 DEF Promise!Next
    <2>4. CASE journal' = journal /\ terminal' = RuntimeHalt
      <3>1. Promise!Finish(RuntimeHalt)
        BY <1>1, <2>1, <2>2, <2>4 DEF Promise!Finish, Promise!Writable
      <3> QED
        BY <3>1 DEF Promise!Next
    <2>5. CASE journal' = journal /\ terminal' = terminal
      BY <1>1, <2>1, <2>5 DEF Seen
    <2> QED
      BY <2>1, <2>3, <2>4, <2>5
  <1>3. CASE Poll \/ Finalize
    <2>1. /\ terminal' \in {terminal, RuntimeHalt, terminal_intent}
          /\ UNCHANGED <<journal, parents, fault, runtime_failed>>
          /\ opc \in {"poll", "finalize"} /\ (terminal' = terminal_intent => opc = "finalize"
                                              \/ terminal' = terminal \/ terminal' = RuntimeHalt)
      BY <1>3 DEF Poll, Finalize, shared
    <2>2. terminal = "none" /\ ~runtime_failed
      BY <2>1 DEF Placed
    <2>3. CASE terminal' = terminal
      BY <1>1, <2>1, <2>3 DEF Seen
    <2>4. CASE terminal' = RuntimeHalt
      <3>1. Promise!Finish(RuntimeHalt)
        BY <1>1, <2>1, <2>2, <2>4 DEF Promise!Finish, Promise!Writable
      <3> QED
        BY <3>1 DEF Promise!Next
    <2>5. CASE opc = "finalize" /\ terminal' = terminal_intent
      <3>1. terminal_intent \in Actions
        BY <2>5 DEF Placed, TypeOK
      <3>2. journal = admitted /\ \A i \in Range(admitted) : result[i] = "receipt"
        BY <2>5, AllJournaled
      <3>3. Promise!Finish(terminal_intent)
        BY <1>1, <2>1, <2>2, <2>5, <3>2, SameRange
           DEF Promise!Finish, Promise!Writable, Placed
      <3> QED
        BY <3>1, <3>3 DEF Promise!Next, Actions, CleanActions
    <2> QED
      BY <2>1, <2>3, <2>4, <2>5
  <1>4. CASE IssueParent
    <2>1. /\ opc = "await" /\ UNCHANGED <<journal, fault, terminal, runtime_failed>>
          /\ active \in Items
      BY <1>4, OwnersItem DEF IssueParent, Behind, shared
    <2>2. terminal = "none" /\ ~runtime_failed
      BY <2>1 DEF Placed
    <2>3. CASE parents' = parents
      BY <1>1, <2>1, <2>3 DEF Seen
    <2>4. CASE parents' # parents
      <3>1. parents' = Append(parents, active) /\ result[active] = "receipt"
        BY <1>4, <2>1, <2>4 DEF IssueParent, NodesTell
      <3>2. active \notin Range(parents)
        BY <2>1 DEF Receipts
      <3>3. Promise!HandOn(active)
        BY <1>1, <2>1, <2>2, <3>1, <3>2, SameRange DEF Promise!HandOn, Promise!Writable
      <3> QED
        BY <2>1, <3>3 DEF Promise!Next
    <2> QED
      BY <2>3, <2>4
  <1>5. CASE ReleaseFailed
    <2>1. Promise!Notice
      BY <1>5, Noticed DEF ReleaseFailed, FaultAfter
    <2>2. Promise!OwnerNotices
      BY <1>1, <1>5, <2>1 DEF ReleaseFailed, outcome, Promise!OwnerNotices
    <2> QED
      BY <2>2 DEF Promise!Next
  <1>6. CASE RuntimeFailure
    <2>1. Promise!Fail
      BY <1>1, <1>6 DEF RuntimeFailure, outcome, Promise!Fail
    <2> QED
      BY <2>1 DEF Promise!Next
  <1>7. CASE ~(RuntimeIngest \/ Poll \/ Finalize \/ IssueParent \/ ReleaseFailed
               \/ RuntimeFailure)
    <2>1. UNCHANGED <<journal, parents, fault, terminal, runtime_failed>>
      BY <1>7 DEF Owner, OwnerStep, BeginDrain, ExternalHalt, DrainStep, TakeNode,
         ClaimAction, AfterPoll, FinishFinalize, Claim, StartIngest, IngestRaised,
         RawReturned, PublishReceipt, Release, SettleFailedNode, shared, outcome
    <2> QED
      BY <1>1, <2>1 DEF Seen
  <1> QED
    BY <1>2, <1>3, <1>4, <1>5, <1>6, <1>7

\* The ingress implements its promise: first in, first out and no duplicates, no
\* durable item behind one that was given up, true receipts, one answer for every
\* item, no clean terminal after a fault, and nothing after an end.
THEOREM IngressRefines == Spec => KeepsPromise
  <1>1. Init => Promise!Init
    BY DEF Init, Promise!Init
  <1>2. IInv /\ [Next]_vars => [Promise!Next]_(Promise!promise)
    <2>1. CASE UNCHANGED vars
      BY <2>1 DEF vars, Promise!promise
    <2> QED
      BY <2>1, StepsKnown, ThreadsAsPromised, OwnerAsPromised
  <1> QED
    BY <1>1, <1>2, Invariance, PTL DEF Spec, KeepsPromise, Promise!Spec

=============================================================================
