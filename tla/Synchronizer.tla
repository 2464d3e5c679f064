---------------------------- MODULE Synchronizer ----------------------------
(***************************************************************************)
(* The synchronization session of one match and its markets                *)
(* (inci_tennis_expert/synchronizer.py), reduced one observation at a time *)
(* (reducer.py): it keeps the tracker of the provider's score and the book *)
(* of each market, withholds a market whose book moved without a point to  *)
(* explain it, and emits a trusted snapshot when nothing blocks.           *)
(*                                                                         *)
(* Around it, a provider that publishes points, lifecycle events and       *)
(* corrections, a venue that publishes each market's book, and transports  *)
(* that lose, repeat, delay, reorder and garble what they publish.  What   *)
(* is published in all is chosen at the start; any event of it can arrive  *)
(* at any time, any number of times or never.  A delivery has the time it  *)
(* was received at, and the session observes a clock of its own.           *)
(*                                                                         *)
(* The evidence of an observation carries the transition its producer      *)
(* computed from the prior state; the session recomputes it.  A producer   *)
(* that used another prior state is the action StaleEvidence.  The members *)
(* of an observation group are reduced one after the other, as here.       *)
(***************************************************************************)
EXTENDS TennisScore, MarketBook

CONSTANTS
    Tickers,             \* the two markets of the match, in ticker order
    MaxScoreAge, MaxBookAge, MaxLifecycleAge,     \* SyncPolicy
    MaxSkew, MoveThreshold, ExplanationWindow, CloseHorizon,
    Scripts,             \* bound: what the provider and the venue may publish,
                         \* and what may be wrong with an event on delivery
    Close,               \* when the markets close
    MaxTime              \* bound: the clock

ASSUME PolicyAssumption == MoveThreshold \in Nat /\ MaxTime \in Nat

VARIABLES
    clock,     \* the time, of the transports and of the session
    script,    \* which of the scripts is played
    session,   \* SynchronizationSessionState
    halted     \* ExpertStateV1.halt_reason, or "none"

moment == <<clock, script, session, halted>>

feed == Scripts[script].feed      \* what the provider published, in order
venue == Scripts[script].venue    \* of each market, what the venue published
Defects == Scripts[script].defects

Markets == {Tickers[i] : i \in DOMAIN Tickers}

ASSUME MarketsAssumption == IsFiniteSet(Markets)

\* What is absent: of a record, of an integer, and of the halt reason.
None == [absent |-> TRUE]
NoFloor == -1
Running == "none"

-----------------------------------------------------------------------------
(* The session: cursors of the tracker and of the books.                    *)

NoBooks(value) == [t \in Markets |-> value]

InitialSession ==
    [tennis |-> None, witness |-> None, book |-> NoBooks(None),
     pending |-> NoBooks(None), causal |-> NoBooks(None),
     consumed |-> NoBooks(None), emission |-> NoBooks(None),
     decisions |-> 0]

Witness(e, at) == [event |-> e, received |-> at]

BookId(book) == <<book.epoch, book.sequence>>
ProviderId(tennis) == <<tennis.epoch, tennis.revision>>

AtMost(a, b) == a[1] < b[1] \/ (a[1] = b[1] /\ a[2] <= b[2])

\* Mutant: a point explains moves however often.
MutExplainsAgain(w, pending, consumed, tennis) ==
    /\ pending.tennis_floor # NoFloor
    /\ w.event.epoch = tennis.epoch
    /\ w.received <= pending.first
    /\ pending.last - w.received <= ExplanationWindow

\* _explain_pending: a point received before the market moved explains it.
Explains(w, pending, consumed, tennis) ==
    /\ pending.tennis_floor # NoFloor
    /\ w.event.epoch = tennis.epoch
    /\ consumed = None \/ consumed.event # w.event
    /\ w.received <= pending.first
    /\ pending.last - w.received <= ExplanationWindow

\* Each of these markets on its own: no market's cursor decides another's.
ExplainPending(s, markets, w) ==
    LET explained ==
            {t \in markets :
                /\ s.pending[t] # None /\ w # None /\ s.tennis # None
                /\ Explains(w, s.pending[t], s.consumed[t], s.tennis)}
        Set(cursors, value) ==
            [t \in Markets |-> IF t \in explained THEN value ELSE cursors[t]]
    IN [s EXCEPT !.pending = Set(@, None), !.causal = Set(@, w),
                 !.consumed = Set(@, w)]

\* _new_pending and _extended_pending: an accepted large move.
RecordMove(s, t, at) ==
    LET book == s.book[t]
        floor == IF s.tennis = None THEN NoFloor ELSE s.tennis.epoch
        pending ==
            IF s.pending[t] = None
            THEN [first |-> at, last |-> at, first_id |-> BookId(book),
                  last_id |-> BookId(book), several |-> FALSE,
                  tennis_floor |-> floor, book_floor |-> book.epoch]
            ELSE [s.pending[t] EXCEPT !.last = at, !.last_id = BookId(book),
                                      !.several = TRUE]
    IN ExplainPending([s EXCEPT !.pending[t] = pending, !.causal[t] = None],
                      {t}, s.witness)

\* _paired_reset: both sides were replaced after the last move.
PairedReset(pending, tennis, book) ==
    /\ tennis # None /\ pending.tennis_floor # NoFloor
    /\ tennis.epoch > pending.tennis_floor
    /\ book.epoch > pending.book_floor
    /\ tennis.received >= pending.last /\ book.observed >= pending.last

-----------------------------------------------------------------------------
(* Evaluation of a market.                                                  *)

Uncertain(s, book, now) ==
    \/ now.at < s.tennis.received \/ now.at < book.observed
    \/ now.at < book.lifecycle_observed \/ ~now.certain
    \/ s.tennis.received - book.observed > MaxSkew
    \/ book.observed - s.tennis.received > MaxSkew

Stale(s, book, now) ==
    \/ now.at - s.tennis.received > MaxScoreAge
    \/ now.at - book.observed > MaxBookAge
    \/ now.at - book.lifecycle_observed > MaxLifecycleAge

\* _block_reason is None.  A binding drift of the tracker, a gap and every
\* other block of it all keep the market back.
NothingBlocks(s, t, now) ==
    LET book == s.book[t]
    IN /\ s.tennis # None /\ book # None
       /\ s.tennis.block = NoBlock
       /\ book.trusted /\ ~book.sequence_gap
       /\ s.tennis.score.status = "LIVE" /\ book.status = "OPEN"
       /\ s.tennis.score.server # Nobody
       /\ ~Uncertain(s, book, now) /\ ~Stale(s, book, now)
       /\ \E side \in Outcomes : Bid(book.bids[side]) # {}
       /\ now.wall < book.close /\ book.close - now.wall >= CloseHorizon
       /\ s.pending[t] = None

\* An emission is identified by the provider's last event and the book's id.
Emission(s, t) ==
    [provider |-> ProviderId(s.tennis), digest |-> s.tennis.digest,
     book |-> BookId(s.book[t])]

\* Mutant: a pair is emitted at every evaluation.
MutEmitsAgain(s, t, now) == NothingBlocks(s, t, now)

\* _evaluate: emit, unless this pair was the last one emitted.
Emits(s, t, now) == NothingBlocks(s, t, now) /\ s.emission[t] # Emission(s, t)

\* _results_for_tickers: what one market emits does not block another.
Evaluate(s, markets, now) ==
    LET emitting == {t \in markets : Emits(s, t, now)}
    IN [s EXCEPT !.decisions = @ + Cardinality(emitting),
                 !.emission = [t \in Markets |-> IF t \in emitting
                                                 THEN Emission(s, t) ELSE @[t]]]

-----------------------------------------------------------------------------
(* What the constructors of the session and of its cursors insist on; a     *)
(* session that they reject raises inside the reducer.                      *)

WitnessFits(w, tennis) ==
    /\ AtMost(ProviderId(w.event), ProviderId(tennis))
    /\ w.received <= tennis.received
    /\ ProviderId(w.event) = ProviderId(tennis)
         => w.event = tennis.digest /\ w.received = tennis.received

TennisCursorFits(s) ==
    s.witness # None => /\ s.tennis # None
                        /\ s.witness.event.epoch = s.tennis.epoch
                        /\ WitnessFits(s.witness, s.tennis)

PendingFits(s, t) ==
    LET pending == s.pending[t]
    IN pending # None =>
         /\ pending.first <= pending.last
         /\ AtMost(pending.first_id, pending.last_id)
         /\ pending.several <=> pending.first_id # pending.last_id
         /\ ~pending.several => pending.first = pending.last
         /\ pending.first_id[1] = pending.book_floor
         /\ AtMost(pending.last_id, BookId(s.book[t]))
         /\ pending.last <= s.book[t].observed
         /\ s.causal[t] = None
         /\ s.tennis = None <=> pending.tennis_floor = NoFloor
         /\ s.tennis # None => pending.tennis_floor <= s.tennis.epoch

WitnessesFit(s, t) ==
    /\ s.causal[t] # None => /\ s.causal[t] = s.consumed[t]
                             /\ s.causal[t].event.epoch = s.tennis.epoch
    /\ s.consumed[t] # None => /\ s.tennis # None
                               /\ WitnessFits(s.consumed[t], s.tennis)

EmissionFits(s, t) ==
    LET emission == s.emission[t]
    IN emission # None =>
         /\ AtMost(emission.book, BookId(s.book[t]))
         /\ s.tennis # None
         /\ AtMost(emission.provider, ProviderId(s.tennis))
         /\ emission.provider = ProviderId(s.tennis)
              => emission.digest = s.tennis.digest

SessionFits(s) ==
    /\ TennisCursorFits(s)
    /\ \A t \in Markets :
           IF s.book[t] = None
           THEN {s.pending[t], s.causal[t], s.consumed[t], s.emission[t]}
                    = {None}
           ELSE PendingFits(s, t) /\ WitnessesFit(s, t) /\ EmissionFits(s, t)
    /\ s.decisions > 0 <=> \E t \in Markets : s.emission[t] # None

-----------------------------------------------------------------------------
(* Ingestion: the next session before any market is evaluated.              *)

\* Mutant: the origin leaves the moves that came before it without a floor.
MutOriginSetsNoFloor(s, e, at) == [s EXCEPT !.tennis = TrackerFrom(e, at)]

\* _ingest_tennis_origin: a move pending without a tracker gets its floor.
WithOrigin(s, e, at) ==
    [s EXCEPT !.tennis = TrackerFrom(e, at),
              !.pending = [t \in Markets |->
                  IF @[t] # None /\ @[t].tennis_floor = NoFloor
                  THEN [@[t] EXCEPT !.tennis_floor = e.epoch] ELSE @[t]]]

OriginValid(s, e) ==
    s.tennis = None /\ e.kind = "SNAPSHOT" /\ e.complete /\ Reachable(e.score)

TennisResult(tennis, e, at) ==
    CASE e.kind = "POINT" -> ApplyPoint(tennis, e, at)
      [] e.kind = "SNAPSHOT" -> ApplyCorrection(tennis, e, at)
      [] OTHER -> ApplyLifecycle(tennis, e, at)

\* _ingest_tennis_transition: an applied point may explain what is pending,
\* an applied correction withdraws every point before it.
WithTennis(s, result, e, at) ==
    LET next == [s EXCEPT !.tennis = result.state]
    IN CASE result.reason = "POINT_APPLIED" ->
              ExplainPending([next EXCEPT !.witness = Witness(e, at)], Markets,
                             Witness(e, at))
         [] result.reason = "CORRECTION_APPLIED" ->
              [next EXCEPT !.witness = None, !.causal = NoBooks(None)]
         [] OTHER -> next

BookResult(book, e, at) ==
    IF book = None
    THEN IF e.kind = "SNAPSHOT" THEN BookFromSnapshot(e, at) ELSE Raises(None)
    ELSE CASE e.kind = "SNAPSHOT" -> ApplySnapshot(book, e, at)
           [] e.kind = "DELTA" -> ApplyDelta(book, e, at)
           [] OTHER -> ApplyMarketLifecycle(book, e, at)

\* _ingest_book_transition: a snapshot may complete a paired reset, then an
\* accepted large move is recorded, the one of that snapshot included.
WithBook(s, t, result, at) ==
    LET initial == s.book[t] = None
        reset == /\ ~initial /\ result.kind = "SNAPSHOT"
                 /\ s.pending[t] # None
                 /\ PairedReset(s.pending[t], s.tennis, result.book)
        large == /\ ~initial /\ result.kind \in {"SNAPSHOT", "DELTA"}
                 /\ result.move > 0 /\ result.move >= MoveThreshold
        next == [s EXCEPT !.book[t] = result.book,
                          !.pending[t] = IF reset THEN None ELSE @]
    IN IF large THEN RecordMove(next, t, at) ELSE next

-----------------------------------------------------------------------------
(* The reducer on one observation.                                          *)

\* The paired clock the session observes.
Observations == [at : {clock}, wall : {clock}, certain : BOOLEAN]

Halt(reason) == halted' = reason /\ UNCHANGED session

\* reduce_expert_parent: `valid` says that the evidence is what the session
\* recomputes, `ingested` is the session it leads to and `next` that session
\* once evaluated.  Both are constructed.
Reduce(valid, ingested, next) ==
    /\ halted = Running
    /\ IF ~valid
       THEN Halt("SYNCHRONIZATION_SESSION_DRIFT")
       ELSE IF ~(SessionFits(ingested) /\ SessionFits(next)) THEN Halt("REDUCER_EXCEPTION")
       ELSE session' = next /\ UNCHANGED halted
    /\ UNCHANGED <<clock, script>>

ReceiptTimes == {clock, clock - 1} \cap Nat

\* A provider event as the transport hands it over.
Garbled(e, defect) ==
    CASE defect = NoMismatch -> e
      [] defect = "INCOMPLETE" -> [e EXCEPT !.complete = FALSE]
      [] OTHER -> [e EXCEPT !.mismatch = defect]

TennisOrigin(e, at, now) ==
    LET next == WithOrigin(session, e, at)
    IN /\ session.tennis = None
       /\ IF e.mismatch # NoMismatch
          THEN Reduce(OriginValid(session, e), session, session)
          ELSE Reduce(OriginValid(session, e), next, Evaluate(next, Markets, now))

TennisTransition(e, at, now) ==
    /\ session.tennis # None
    /\ LET result == TennisResult(session.tennis, e, at)
           next == WithTennis(session, result, e, at)
       IN Reduce(Reachable(result.state.score), next, Evaluate(next, Markets, now))

BookTransition(t, e, at, now) ==
    LET result == BookResult(session.book[t], e, at)
        next == WithBook(session, t, result, at)
    IN Reduce(~result.error, next, Evaluate(next, {t}, now))

ResnapshotRequired(t, now) ==
    LET next == [session EXCEPT !.book[t] = RequireResnapshot(@)]
    IN Reduce(session.book[t] # None, next, Evaluate(next, {t}, now))

Clock(t, now) == Reduce(TRUE, session, Evaluate(session, {t}, now))

\* A ticker the match is not bound to: CONTRACT_MISMATCH, nothing else.
UnboundTicker == Reduce(TRUE, session, session)

\* Evidence computed from a state that is not the cursor's, or observed by a
\* clock that is behind the last observation (all that one is kept for).
StaleEvidence == Reduce(FALSE, session, session)

-----------------------------------------------------------------------------
(* What the provider publishes: each event with the score it leads to.      *)

OpeningScore ==
    [status |-> "LIVE", termination |-> "NONE", winner |-> Nobody,
     retired |-> Nobody, sets |-> <<>>, games |-> Zero, points |-> Zero,
     in_tiebreak |-> FALSE, tiebreak |-> Zero,
     tiebreak_first_server |-> Nobody, server |-> "home"]

ProviderEvent(kind, epoch, revision, payload) ==
    payload @@ [kind |-> kind, epoch |-> epoch, revision |-> revision,
                mismatch |-> NoMismatch, winner |-> Nobody,
                retired |-> Nobody, server |-> Nobody, complete |-> TRUE,
                score |-> None]

Published(e, score) == [event |-> e, score |-> score]

Opening == <<Published(ProviderEvent("SNAPSHOT", 0, 0,
                           [score |-> OpeningScore]), OpeningScore)>>

PublishPoint(history, winner) ==
    LET last == Last(history)
        e == ProviderEvent("POINT", last.event.epoch, last.event.revision + 1,
                 [winner |-> winner, server |-> last.score.server])
    IN Append(history, Published(e, AdvanceScore(last.score, winner)))

PublishLifecycle(history, kind, payload) ==
    LET last == Last(history)
        e == ProviderEvent(kind, last.event.epoch, last.event.revision + 1,
                           payload)
    IN Append(history, Published(e, LifecycleScore(last.score, e)))

\* A correction replaces the score, at the revision reached.
PublishCorrection(history, score) ==
    LET last == Last(history).event
    IN Append(history,
              Published(ProviderEvent("SNAPSHOT", last.epoch + 1,
                            last.revision, [score |-> score]), score))

-----------------------------------------------------------------------------
(* What the venue publishes of a market: each event with the bids after it. *)

Vended(e, bids) == [event |-> e, bids |-> bids]

VenueSnapshot(history, epoch, status, bids) ==
    Append(history,
           Vended([kind |-> "SNAPSHOT", epoch |-> epoch, sequence |-> 1,
                   bids |-> bids, status |-> status, close |-> Close,
                   source |-> Len(history) + 1], bids))

InBook(history) ==
    Last(SelectSeq(history, LAMBDA m : m.event.kind # "LIFECYCLE")).event

VenueDelta(history, side, price, quantity) ==
    LET last == InBook(history)
    IN Append(history,
              Vended([kind |-> "DELTA", epoch |-> last.epoch,
                      sequence |-> last.sequence + 1, side |-> side,
                      price |-> price, quantity |-> quantity],
                     [Last(history).bids EXCEPT ![side][price] = quantity]))

VenueLifecycle(history, status) ==
    Append(history,
           Vended([kind |-> "LIFECYCLE", epoch |-> InBook(history).epoch,
                   status |-> status, close |-> Close,
                   source |-> Len(history) + 1], Last(history).bids))

-----------------------------------------------------------------------------
(* What may be published, then: events of identities of their own, each the *)
(* effect it has on what was there under the identity before it.            *)

ProviderDefects == {"INCOMPLETE", "IDENTITY_MISMATCH",
                    "SOURCE_LINEAGE_MISMATCH", "REVISION_DOMAIN_MISMATCH",
                    "FORMAT_MISMATCH"}

IsEvent(e) ==
    /\ e = [kind |-> e.kind, epoch |-> e.epoch, revision |-> e.revision,
            mismatch |-> e.mismatch, winner |-> e.winner,
            retired |-> e.retired, server |-> e.server,
            complete |-> e.complete, score |-> e.score]
    /\ e.epoch \in Nat /\ e.revision \in Nat /\ e.mismatch = NoMismatch

\* The score that a point or a lifecycle event leads to.
ScoreAfter(score, e) ==
    CASE e.kind = "POINT" -> AdvanceScore(score, e.winner)
      [] Confirms(score, e) -> score
      [] OTHER -> LifecycleScore(score, e)

ProviderFeed(history) ==
    \A i \in DOMAIN history :
        LET e == history[i].event
            score == history[i].score
        IN /\ IsEvent(e)
           /\ \A j \in DOMAIN history :
                  ProviderId(history[j].event) = ProviderId(e) => j = i
           /\ IF e.kind = "SNAPSHOT" THEN e.score = score
              ELSE \E j \in DOMAIN history :
                       /\ history[j].event.epoch = e.epoch
                       /\ history[j].event.revision + 1 = e.revision
                       /\ score = ScoreAfter(history[j].score, e)

OfBook(m) == m.event.kind # "LIFECYCLE"

VenueFeed(history) ==
    \A i \in DOMAIN history :
        LET e == history[i].event
            bids == history[i].bids
        IN /\ e.kind \in {"SNAPSHOT", "DELTA", "LIFECYCLE"} /\ e.epoch \in Nat
           /\ OfBook(history[i]) =>
                  /\ e.sequence \in Nat
                  /\ \A j \in DOMAIN history :
                         OfBook(history[j]) /\ BookId(history[j].event) = BookId(e)
                             => j = i
           /\ e.kind = "SNAPSHOT" => e.bids = bids
           /\ e.kind = "DELTA" =>
                  \E j \in DOMAIN history :
                      /\ OfBook(history[j])
                      /\ history[j].event.epoch = e.epoch
                      /\ history[j].event.sequence + 1 = e.sequence
                      /\ bids = [history[j].bids EXCEPT
                                     ![e.side][e.price] = e.quantity]

ASSUME ScriptsAssumption ==
    \A n \in DOMAIN Scripts :
        /\ ProviderFeed(Scripts[n].feed)
        /\ \A t \in Markets : VenueFeed(Scripts[n].venue[t])
        /\ Scripts[n].defects \subseteq ProviderDefects

-----------------------------------------------------------------------------
(* The specification. *)

SyncInit ==
    /\ clock = 0
    /\ script \in DOMAIN Scripts
    /\ session = InitialSession
    /\ halted = Running

Tick ==
    /\ halted = Running /\ clock < MaxTime
    /\ clock' = clock + 1
    /\ UNCHANGED <<script, session, halted>>

ProviderInput(now) ==
    \E i \in DOMAIN feed, at \in ReceiptTimes,
      defect \in Defects \cup {NoMismatch} :
        LET e == Garbled(feed[i].event, defect)
        IN TennisOrigin(e, at, now) \/ TennisTransition(e, at, now)

MarketInput(now) ==
    \E t \in Markets :
        \/ \E i \in DOMAIN venue[t], at \in ReceiptTimes :
               BookTransition(t, venue[t][i].event, at, now)
        \/ ResnapshotRequired(t, now)
        \/ Clock(t, now)

SyncNext ==
    \/ Tick
    \/ \E now \in Observations :
          \/ ProviderInput(now)
          \/ MarketInput(now)
    \/ UnboundTicker
    \/ StaleEvidence

SyncSpec == SyncInit /\ [][SyncNext]_moment

-----------------------------------------------------------------------------
(* Properties. *)

(* However the transport loses, repeats, delays, reorders and garbles, the  *)
(* tracker shows the score the provider had at the epoch and revision it    *)
(* names, and a trusted book the bids the venue had at the connection and   *)
(* sequence it names: what an emission shows as one moment of the match     *)
(* and of the market was one.                                               *)
TrackedIsTrue ==
    /\ session.tennis # None =>
         \E i \in DOMAIN feed :
             /\ ProviderId(feed[i].event) = ProviderId(session.tennis)
             /\ feed[i].score = session.tennis.score
    /\ \A t \in Markets : session.book[t] # None /\ session.book[t].trusted =>
         \E i \in DOMAIN venue[t] :
             /\ OfBook(venue[t][i])
             /\ BookId(venue[t][i].event) = BookId(session.book[t])
             /\ venue[t][i].bids = session.book[t].bids

(* The constructors of the session and its cursors assert how the tracker,  *)
(* the books, the pending moves, the witnesses and the emissions relate;    *)
(* no order of events makes the session they build fail them, so a halt is  *)
(* always the drift of an input and never an exception of the reducer.      *)
NeverRaises == halted # "REDUCER_EXCEPTION"

(* The code remembers only the last pair it emitted for a market.  Still    *)
(* no pair is emitted twice: every decision is a pair of its own, ahead of  *)
(* the one before it in the provider's identity or in the book's, and       *)
(* behind it in neither.                                                    *)
Advances(old, new) ==
    old # None => /\ AtMost(old.provider, new.provider)
                  /\ AtMost(old.book, new.book)
                  /\ <<old.provider, old.book>> # <<new.provider, new.book>>

EmissionsAdvance ==
    [][LET emitted == {t \in Markets :
                          session'.emission[t] # session.emission[t]}
       IN /\ \A t \in emitted :
                 Advances(session.emission[t], session'.emission[t])
          /\ session'.decisions = session.decisions + Cardinality(emitted)
      ]_moment

(* A point explains one unexplained stretch of a market's moves and then no *)
(* other: when a large move is accepted and stands explained, or a pending  *)
(* one becomes so, then by a point later than the one that explained a move *)
(* of this market before.                                                   *)
MovedLargely(t) ==
    /\ session.book[t] # None
    /\ LET move == ExecutableMove(session.book[t].bids, session'.book[t].bids)
       IN move > 0 /\ move >= MoveThreshold

PointExplainsOnce ==
    [][\A t \in Markets :
          LET old == session.consumed[t]
              new == session'.causal[t]
          IN /\ old # None /\ new # None
             /\ MovedLargely(t) \/ session.causal[t] = None
             => /\ AtMost(ProviderId(old.event), ProviderId(new.event))
                /\ old # new
      ]_moment

=============================================================================
