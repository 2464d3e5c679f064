----------------------------- MODULE MarketBook -----------------------------
(***************************************************************************)
(* The order book of one market as the expert keeps it                     *)
(* (inci_tennis_expert/market_book.py): a snapshot starts a connection     *)
(* epoch, deltas follow in sequence, lifecycle events change the market's  *)
(* status, and whatever cannot be applied leaves the book untrusted, with  *)
(* a sequence gap that only the snapshot of a newer epoch closes.          *)
(*                                                                         *)
(* Prices are whole ticks, One of them the dollar.  A side's ladder of bids *)
(* is a function from price to quantity, 0 where there is no level.  Each   *)
(* event carries the venue's stamp, `source`, and the book the one of its  *)
(* last status; the other source clocks and the digests are left out, as   *)
(* nothing here decides on them.                                           *)
(***************************************************************************)
EXTENDS Integers, FiniteSets, FiniteSetsExt

CONSTANTS One,       \* ticks of a dollar
          Prices,    \* the prices that may be bid
          MaxQty     \* bound: quantity of a level

ASSUME BookAssumption ==
    /\ One \in Nat \ {0} /\ Prices \subseteq 0..One /\ MaxQty \in Nat \ {0}

Outcomes == {"yes", "no"}
Complement(side) == IF side = "yes" THEN "no" ELSE "yes"

Ladders == [Prices -> 0..MaxQty]

MarketStatus == {"PREOPEN", "OPEN", "SUSPENDED", "CLOSED", "SETTLED",
                 "CANCELLED"}

\* _ALLOWED_STATUS_TRANSITIONS
StatusAllowed(current) ==
    CASE current = "PREOPEN" -> MarketStatus \ {"SETTLED"}
      [] current \in {"OPEN", "SUSPENDED"} -> MarketStatus \ {"PREOPEN",
                                                              "SETTLED"}
      [] current = "CLOSED" -> {"CLOSED", "SETTLED", "CANCELLED"}
      [] OTHER -> {current}

Bid(ladder) == {p \in Prices : ladder[p] > 0}
BestBid(ladder) == Max(Bid(ladder))

Crossed(bids) ==
    /\ \A side \in Outcomes : Bid(bids[side]) # {}
    /\ BestBid(bids["yes"]) + BestBid(bids["no"]) > One

\* What buying `side` costs, from the best bid of its complement.
AskMove(before, after) ==
    IF Bid(before) = {} /\ Bid(after) = {} THEN 0
    ELSE IF Bid(before) = {} \/ Bid(after) = {} THEN One
    ELSE LET d == BestBid(after) - BestBid(before) IN IF d < 0 THEN -d ELSE d

ExecutableMove(before, after) ==
    Max({AskMove(before[side], after[side]) : side \in Outcomes})

-----------------------------------------------------------------------------
(* Transitions: the next book, the kind of event it accepted ("none" when   *)
(* nothing was), the move of the best asks; or the error the code raises.  *)

Transition(book, kind, move) ==
    [book |-> book, kind |-> kind, move |-> move, error |-> FALSE]

Raises(book) == [book |-> book, kind |-> "none", move |-> 0, error |-> TRUE]

GappedCopy(book) == [book EXCEPT !.trusted = FALSE, !.sequence_gap = TRUE]

NoEvent(book) == Transition(book, "none", 0)

FromSnapshot(e, at) ==
    [epoch |-> e.epoch, sequence |-> e.sequence, status |-> e.status,
     close |-> e.close, observed |-> at, lifecycle_observed |-> at,
     lifecycle_source |-> e.source,
     bids |-> e.bids, trusted |-> TRUE, sequence_gap |-> FALSE]

BookFromSnapshot(e, at) == Transition(FromSnapshot(e, at), "SNAPSHOT", 0)

RequireResnapshot(book) == GappedCopy(book)

ApplySnapshot(book, e, at) ==
    IF \/ book.trusted \/ ~book.sequence_gap \/ e.epoch <= book.epoch
       \/ at < book.observed \/ at < book.lifecycle_observed
    THEN Raises(book)
    ELSE IF e.status \notin StatusAllowed(book.status)
         THEN NoEvent(GappedCopy(book))
         ELSE Transition(FromSnapshot(e, at), "SNAPSHOT",
                         ExecutableMove(book.bids, e.bids))

\* Mutant: a delta is taken whatever numbers were skipped before it.
MutSkipsSequences(book, e, at) ==
    /\ e.epoch = book.epoch /\ at >= book.observed
    /\ e.sequence > book.sequence
    /\ e.quantity = 0 => book.bids[e.side][e.price] > 0

\* The conditions under which a delta is accepted at all.
DeltaFollows(book, e, at) ==
    /\ e.epoch = book.epoch /\ at >= book.observed
    /\ e.sequence = book.sequence + 1
    /\ e.quantity = 0 => book.bids[e.side][e.price] > 0

ApplyDelta(book, e, at) ==
    LET bids == [book.bids EXCEPT ![e.side][e.price] = e.quantity]
    IN IF ~book.trusted \/ book.sequence_gap \/ e.epoch < book.epoch
       THEN Raises(book)
       ELSE IF ~DeltaFollows(book, e, at) \/ Crossed(bids)
       THEN NoEvent(GappedCopy(book))
       ELSE Transition([book EXCEPT !.sequence = e.sequence,
                                    !.observed = at, !.bids = bids],
                       "DELTA", ExecutableMove(book.bids, bids))

ApplyMarketLifecycle(book, e, at) ==
    IF e.epoch < book.epoch
       \/ (e.epoch = book.epoch /\ at < book.lifecycle_observed)
    THEN Raises(book)
    ELSE IF e.epoch > book.epoch THEN NoEvent(GappedCopy(book))
    ELSE IF at = book.lifecycle_observed
    THEN NoEvent(IF /\ e.status = book.status /\ e.close = book.close
                    /\ e.source = book.lifecycle_source
                 THEN book ELSE GappedCopy(book))
    ELSE IF e.status \notin StatusAllowed(book.status)
    THEN NoEvent(GappedCopy(book))
    ELSE Transition([book EXCEPT !.status = e.status, !.close = e.close,
                                 !.lifecycle_observed = at,
                                 !.lifecycle_source = e.source],
                    "LIFECYCLE", 0)

=============================================================================
