---------------------------- MODULE MailboxProofs ----------------------------
(* Theorems about Mailbox, for any set of threads and any number of        *)
(* publishes.                                                              *)
EXTENDS Mailbox, TLAPS

USE MailboxAssumption, NoThreadAssumption

(* The initial state satisfies the inductive invariant. *)
LEMMA InitInv == Init => IInv
<1> SUFFICES ASSUME Init PROVE IInv
    OBVIOUS
<1> USE DEF Init
<1>1. TypeOK
  <2>1. full \in BOOLEAN
        OBVIOUS
  <2>2. count \in [Threads -> 0 .. MaxPublish]
        OBVIOUS
  <2>3. ppc \in [Threads -> {"idle", "acquire", "drain", "put"}]
        OBVIOUS
  <2>4. slot \in Nat /\ put \in Nat /\ taken \in Nat
        OBVIOUS
  <2>5. /\ lock \in Threads \cup {NoThread}
        /\ publisher \in Threads \cup {NoThread}
        OBVIOUS
  <2> QED
      BY ONLY <2>1, <2>2, <2>3, <2>4, <2>5 DEF TypeOK
<1>2. LockHeld /\ OnePublisher
      BY DEF LockHeld, OnePublisher, Inside, NoThread
<1>3. Numbered
      BY DEF Numbered, NoThread
<1>4. Ordered /\ NewestSurvives /\ PublishSucceeds
      BY DEF Ordered, NewestSurvives, PublishSucceeds
<1> QED
    BY <1>1, <1>2, <1>3, <1>4 DEF IInv

(* Every step preserves the types. *)
LEMMA TypeStep == TypeOK /\ [Next]_vars => TypeOK'
<1> SUFFICES ASSUME TypeOK, [Next]_vars PROVE TypeOK'
    OBVIOUS
<1> USE DEF TypeOK, At
<1>1. ASSUME NEW p \in Threads, Publish(p) PROVE TypeOK'
      BY <1>1 DEF Publish
<1>2. ASSUME NEW p \in Threads, Acquire(p) PROVE TypeOK'
      BY <1>2 DEF Acquire
<1>3. ASSUME NEW p \in Threads, Drain(p) PROVE TypeOK'
      BY <1>3 DEF Drain
<1>4. ASSUME NEW p \in Threads, Put(p) PROVE TypeOK'
  <2> USE <1>4 DEF Put
  <2>1. full' \in BOOLEAN
        OBVIOUS
  <2>2. count' \in [Threads -> 0 .. MaxPublish]
        OBVIOUS
  <2>3. ppc' \in [Threads -> {"idle", "acquire", "drain", "put"}]
        OBVIOUS
  <2>4. slot' \in Nat /\ put' \in Nat /\ taken' \in Nat
        OBVIOUS
  <2>5. /\ lock' \in Threads \cup {NoThread}
        /\ publisher' \in Threads \cup {NoThread}
        OBVIOUS
  <2> QED
      BY ONLY <2>1, <2>2, <2>3, <2>4, <2>5 DEF TypeOK
<1>5. CASE Take
      BY <1>5 DEF Take
<1>6. CASE UNCHANGED vars
      BY <1>6 DEF vars
<1> QED
    BY <1>1, <1>2, <1>3, <1>4, <1>5, <1>6 DEF Next, Advance

(* Every step preserves the rest of the inductive invariant. *)
LEMMA Step == IInv /\ [Next]_vars => IInv'
<1> SUFFICES ASSUME IInv, [Next]_vars PROVE IInv'
    OBVIOUS
<1>t. TypeOK /\ TypeOK'
      BY TypeStep DEF IInv
<1> USE <1>t
<1>1. ASSUME NEW p \in Threads, Publish(p) PROVE IInv'
  <2> USE <1>1 DEF Publish, At, TypeOK
  <2>1. LockHeld' /\ OnePublisher'
        BY DEF IInv, LockHeld, OnePublisher, Inside
  <2>2. Numbered'
        BY DEF IInv, Numbered
  <2>3. Ordered' /\ NewestSurvives' /\ PublishSucceeds'
        BY DEF IInv, Ordered, NewestSurvives, PublishSucceeds
  <2> QED
      BY <2>1, <2>2, <2>3 DEF IInv
<1>2. ASSUME NEW p \in Threads, Acquire(p) PROVE IInv'
  <2> USE <1>2 DEF Acquire, At, TypeOK
  <2>1. LockHeld'
        BY DEF IInv, LockHeld, Inside
  <2>2. OnePublisher'
        BY DEF IInv, OnePublisher
  <2>3. Numbered'
        BY DEF IInv, Numbered
  <2>4. Ordered' /\ NewestSurvives' /\ PublishSucceeds'
        BY DEF IInv, Ordered, NewestSurvives, PublishSucceeds
  <2> QED
      BY <2>1, <2>2, <2>3, <2>4 DEF IInv
<1>3. ASSUME NEW p \in Threads, Drain(p) PROVE IInv'
  <2> USE <1>3 DEF Drain, At, TypeOK
  <2>1. lock = p
        BY DEF IInv, LockHeld, Inside
  <2>2. LockHeld' /\ OnePublisher'
        BY <2>1 DEF IInv, LockHeld, OnePublisher, Inside
  <2>3. Numbered'
        BY DEF IInv, Numbered
  <2>4. Ordered'
        BY <2>1 DEF IInv, Ordered
  <2>5. NewestSurvives' /\ PublishSucceeds'
        BY <2>1 DEF IInv, NewestSurvives, PublishSucceeds
  <2> QED
      BY <2>2, <2>3, <2>4, <2>5 DEF IInv
<1>4. ASSUME NEW p \in Threads, Put(p) PROVE IInv'
  <2> USE <1>4 DEF Put, At, TypeOK
  <2>1. lock = p /\ slot = 0
        BY DEF IInv, LockHeld, Inside, Ordered
  <2>2. /\ slot' = count[p] /\ put' = count[p] /\ publisher' = p
        /\ lock' = NoThread /\ full' = full
        BY <2>1
  <2>3. put < count[p]
    <3>1. publisher \in {NoThread, p}
          BY <2>1 DEF IInv, OnePublisher
    <3>2. CASE publisher = p
          BY <3>2 DEF IInv, Numbered
    <3>3. CASE publisher = NoThread
          BY <3>3 DEF IInv, OnePublisher, Numbered
    <3> QED
        BY <3>1, <3>2, <3>3
  <2>4. LockHeld'
        BY <2>1, <2>2 DEF IInv, LockHeld, Inside
  <2>5. OnePublisher'
        BY <2>2 DEF OnePublisher
  <2>6. Numbered'
        BY <2>2 DEF IInv, Numbered
  <2>7. Ordered' /\ NewestSurvives' /\ PublishSucceeds'
        BY <2>2, <2>3 DEF IInv, Ordered, NewestSurvives, PublishSucceeds
  <2> QED
      BY <2>4, <2>5, <2>6, <2>7 DEF IInv
<1>5. CASE Take
  <2> USE <1>5 DEF Take, TypeOK
  <2>1. LockHeld' /\ OnePublisher' /\ Numbered'
        BY DEF IInv, LockHeld, OnePublisher, Numbered
  <2>2. Ordered' /\ NewestSurvives' /\ PublishSucceeds'
        BY DEF IInv, Ordered, NewestSurvives, PublishSucceeds
  <2> QED
      BY <2>1, <2>2 DEF IInv
<1>6. CASE UNCHANGED vars
      BY <1>6 DEF vars, IInv, LockHeld, OnePublisher, Numbered, Ordered,
                  NewestSurvives, PublishSucceeds
<1> QED
    BY <1>1, <1>2, <1>3, <1>4, <1>5, <1>6 DEF Next, Advance

(* The inductive invariant holds in every reachable state. *)
THEOREM MailboxInvariant == Spec => []IInv
  BY InitInv, Step, PTL DEF Spec

(* publish never meets a full queue: the removal and the insertion are two *)
(* operations, and takers only remove.                                     *)
THEOREM PublishNeverFails == Spec => []PublishSucceeds
<1>1. IInv => PublishSucceeds
      BY DEF IInv
<1> QED
    BY <1>1, MailboxInvariant, PTL

(* No snapshot is delivered twice or out of order. *)
THEOREM DeliveryInOrder == Spec => []SlotIsNewer
<1>1. IInv => SlotIsNewer
      BY DEF IInv, TypeOK, Ordered, SlotIsNewer
<1> QED
    BY <1>1, MailboxInvariant, PTL

(* Replacement never loses the newest snapshot. *)
THEOREM NewestIsKept == Spec => []NewestSurvives
<1>1. IInv => NewestSurvives
      BY DEF IInv
<1> QED
    BY <1>1, MailboxInvariant, PTL

=============================================================================
