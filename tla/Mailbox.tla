------------------------------ MODULE Mailbox ------------------------------
(***************************************************************************)
(* LatestSnapshotMailbox (tennis_v1/mailbox.py): a queue of one dashboard  *)
(* snapshot.  publish replaces the snapshot under a lock that take does    *)
(* not hold, so a taker may come between the removal and the insertion.    *)
(* The first thread to publish is the publisher; others are refused.       *)
(* A snapshot is the number its thread gave it.                            *)
(***************************************************************************)
EXTENDS Naturals

CONSTANTS Threads,      \* threads that call publish
          MaxPublish    \* bound: calls of publish by each

ASSUME MailboxAssumption == MaxPublish \in Nat

NoThread == "none"
ASSUME NoThreadAssumption == NoThread \notin Threads

VARIABLES
    slot,               \* _queue: the snapshot in it, 0 if empty
    lock,               \* the thread that holds _replacement_lock
    publisher,          \* _publisher_thread
    count,              \* calls of publish each thread has begun
    ppc,                \* where each thread is in publish
    put,                \* history: the newest snapshot put
    taken,              \* history: the last snapshot taken
    full                \* history: put_nowait raised queue.Full

vars == <<slot, lock, publisher, count, ppc, put, taken, full>>

Init ==
    /\ slot = 0 /\ lock = NoThread /\ publisher = NoThread
    /\ count = [p \in Threads |-> 0]
    /\ ppc = [p \in Threads |-> "idle"]
    /\ put = 0 /\ taken = 0 /\ full = FALSE

At(p, next) == ppc' = [ppc EXCEPT ![p] = next]

Publish(p) ==
    /\ ppc[p] = "idle" /\ count[p] < MaxPublish
    /\ count' = [count EXCEPT ![p] = @ + 1]
    /\ At(p, "acquire")
    /\ UNCHANGED <<slot, lock, publisher, put, taken, full>>

(* The lock; a thread that is not the publisher raises and releases it. *)
AcquireUnlocked(p) ==   \* mutant: replacement without the lock
    /\ ppc[p] = "acquire"
    /\ lock' = NoThread /\ At(p, "drain")
    /\ UNCHANGED <<slot, publisher, count, put, taken, full>>
Acquire(p) ==
    /\ ppc[p] = "acquire" /\ lock = NoThread
    /\ IF publisher \in {NoThread, p}
       THEN lock' = p /\ At(p, "drain")
       ELSE lock' = NoThread /\ At(p, "idle")
    /\ UNCHANGED <<slot, publisher, count, put, taken, full>>

(* get_nowait; an empty queue is fine. *)
Drain(p) ==
    /\ ppc[p] = "drain"
    /\ slot' = 0 /\ At(p, "put")
    /\ UNCHANGED <<lock, publisher, count, put, taken, full>>

(* put_nowait raises if the queue is full; either way the lock is freed. *)
PutLost(p) ==           \* mutant: the snapshot does not reach the queue
    /\ ppc[p] = "put"
    /\ put' = count[p] /\ publisher' = p
    /\ lock' = NoThread /\ At(p, "idle")
    /\ UNCHANGED <<slot, count, taken, full>>
Put(p) ==
    /\ ppc[p] = "put"
    /\ IF slot = 0
       THEN slot' = count[p] /\ put' = count[p] /\ publisher' = p /\ full' = full
       ELSE full' = TRUE /\ UNCHANGED <<slot, put, publisher>>
    /\ lock' = NoThread /\ At(p, "idle")
    /\ UNCHANGED <<count, taken>>

(* take returns a snapshot; a take that times out changes nothing. *)
TakePeeks ==            \* mutant: the snapshot stays in the queue
    /\ slot # 0
    /\ taken' = slot /\ UNCHANGED <<slot, lock, publisher, count, ppc, put, full>>
Take ==
    /\ slot # 0
    /\ taken' = slot /\ slot' = 0
    /\ UNCHANGED <<lock, publisher, count, ppc, put, full>>

Advance(p) == Publish(p) \/ Acquire(p) \/ Drain(p) \/ Put(p)

Next == (\E p \in Threads : Advance(p)) \/ Take

Spec == Init /\ [][Next]_vars

(* A thread that holds the lock does not stop before it frees it, and the  *)
(* dashboard keeps taking.  Nothing is assumed of who gets the lock.       *)
FairSpec ==
    /\ Spec /\ WF_vars(Take)
    /\ \A p \in Threads : WF_vars(Drain(p) \/ Put(p))

-----------------------------------------------------------------------------
(* Every variable has its type. *)
TypeOK ==
    /\ slot \in Nat /\ put \in Nat /\ taken \in Nat
    /\ lock \in Threads \cup {NoThread} /\ publisher \in Threads \cup {NoThread}
    /\ count \in [Threads -> 0 .. MaxPublish]
    /\ ppc \in [Threads -> {"idle", "acquire", "drain", "put"}]
    /\ full \in BOOLEAN

(* Although publish is two queue operations with a taker between them, its *)
(* insertion never finds the queue full: a publish by the publisher        *)
(* succeeds.                                                               *)
PublishSucceeds == ~full

(* What waits in the mailbox is newer than anything taken: no snapshot is  *)
(* delivered twice or out of order.                                        *)
SlotIsNewer == slot # 0 => slot > taken

(* Between two publishes the newest snapshot is in the mailbox or was the  *)
(* last one taken: replacement never loses the newest.                     *)
NewestSurvives == lock = NoThread => put \in {slot, taken}

(* A snapshot that was put is taken, or a newer one is. *)
NewestArrives == \A n \in 1 .. MaxPublish : put = n ~> taken >= n

-----------------------------------------------------------------------------
(* The inductive invariant.  Only the lock's holder is between Acquire and *)
(* Put, only the publisher (or, before there is one, whoever comes first)  *)
(* is there, and what it will put is newer than all it has put.            *)

Inside == {"drain", "put"}

LockHeld == \A p \in Threads : (ppc[p] \in Inside) <=> (lock = p)

OnePublisher ==
    /\ \A p \in Threads : lock = p => publisher \in {NoThread, p}
    /\ publisher = NoThread => put = 0

Numbered ==
    /\ \A p \in Threads : publisher = p =>
          put <= count[p] /\ (ppc[p] # "idle" => put < count[p])
    /\ \A p \in Threads : ppc[p] # "idle" => count[p] > 0

Ordered ==
    /\ slot <= put /\ taken <= put
    /\ slot # 0 => slot = put /\ taken < put
    /\ \A p \in Threads : lock = p /\ ppc[p] = "put" => slot = 0

IInv == /\ TypeOK /\ LockHeld /\ OnePublisher /\ Numbered /\ Ordered
        /\ NewestSurvives /\ PublishSucceeds

=============================================================================
