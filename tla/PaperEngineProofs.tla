-------------------------- MODULE PaperEngineProofs --------------------------
(***************************************************************************)
(* Theorems about PaperEngine for any markets, quotes, limits and timing:  *)
(* exits cover positions, exposure and loss limits hold, the realized P&L  *)
(* is the ledger's, and no exit is delayed.                                *)
(***************************************************************************)
EXTENDS PaperEngine, FiniteSetTheorems, TLAPS

Idle == {"sweep", "halt", "stopped"}
Marked == {"due_sell", "due_buy", "ioc", "revalue", "decide"}

\* The tick of a ticker that is observed, judged at the bid of its own quote.
Ticking ==
    /\ pc \notin Idle => cur \in Markets \ quarantined /\ book[cur] \in settings.books
    /\ pc \in Marked => latest_bid[cur] = book[cur].bid
    /\ pc = "due_sell" => Due /\ pending[cur].side = "SELL"
    /\ pc = "due_buy" => Due /\ pending[cur].side = "BUY"
    /\ pc = "stopped" => \A t \in Tickers : pending[t] = None

\* The halt ends the tick, at once or after a canceled entry.
Tripping ==
    /\ pc \in {"halt", "stopped"} => tripped
    /\ tripped => \/ pc \in {"halt", "stopped"}
                  \/ pc \in {"ioc", "revalue"} /\ pending[cur] = None

Fitting == \A t \in Tickers : OrderFitsPosition(t)

\* Urgent exits work but for the ticker that is being judged.
Exiting == ~tripped =>
    \A t \in Tickers : UrgentExitWorks(t) \/ (t = cur /\ pc \in Marked)

\* An entry that may still be sent or filled has passed the loss limit.
Allowed ==
    pc = "decide" \/ (pc = "ioc" /\ cur \in Working("BUY") /\ Due) => ~LossLimitHit

Sound ==
    /\ Ticking /\ Tripping /\ Fitting /\ Exiting /\ Allowed
    /\ ExposureLimits /\ ExposedIsObserved /\ RealizedMatchesLedger

IInv == settings \in Settings /\ TypeOK /\ Sound

-----------------------------------------------------------------------------
(* The settings, orders and positions. *)

LEMMA SettingsTypes ==
    ASSUME settings \in Settings
    PROVE  /\ Markets \subseteq Tickers /\ settings.books \subseteq Books
           /\ settings.max_open \in Nat /\ MaxLoss \in Nat /\ StaleAfter \in Nat
           /\ MaxTime \in Nat /\ Contracts \in Nat \ {0} /\ MaxErrors \in Nat \ {0}
           /\ MaxStarts \in Nat \ {0}
  BY SettingsAssumption
     DEF Markets, MaxLoss, StaleAfter, MaxTime, Contracts, MaxErrors, MaxStarts

LEMMA SameSettings ==
    ASSUME UNCHANGED settings
    PROVE  UNCHANGED <<Markets, MaxLoss, StaleAfter, MaxTime, Contracts, MaxErrors,
                       MaxStarts, Days, Order, Position>>
  BY DEF Markets, MaxLoss, StaleAfter, MaxTime, Contracts, MaxErrors, MaxStarts, Days,
         Order, Position

LEMMA NotNone == None \notin Order /\ None \notin Position
  BY DEF None, Order, Position

LEMMA DayTypes ==
    ASSUME settings \in Settings, NEW ts \in 0 .. MaxTime
    PROVE  Day(ts) \in Days
  BY PaperEngineAssumption, SettingsTypes DEF Day, Days

\* What is the same when no order and no position changes.
LEMMA SameTrading ==
    ASSUME UNCHANGED <<positions, pending, settings>>
    PROVE  /\ Held' = Held /\ Critical' = Critical
           /\ \A side : Working(side)' = Working(side)
           /\ \A t \in Tickers : OrderFitsPosition(t)' = OrderFitsPosition(t)
           /\ ExposureLimits' = ExposureLimits
  BY DEF Held, Critical, Working, OrderFitsPosition, ExposureLimits

LEMMA SameUrgency ==
    ASSUME NEW t \in Tickers, positions'[t] = positions[t], pending'[t] = pending[t],
           seen'[t] = seen[t], latest_bid'[t] = latest_bid[t]
    PROVE  UrgentExitWorks(t)' = UrgentExitWorks(t)
  BY DEF UrgentExitWorks, Held, Working

-----------------------------------------------------------------------------
(* Safety. *)

\* No exposed market is quarantined without a trip, and nothing that is neither
\* excluded nor stale is.
LEMMA Staleness ==
    ASSUME settings \in Settings, TypeOK, NEW ts, NEW good, NEW excluded \in SUBSET Tickers,
           CheckStaleness(ts, good, excluded)
    PROVE  /\ quarantined' \subseteq Tickers /\ tripped' \in BOOLEAN
           /\ tripped => tripped'
           /\ ~tripped' => Critical \cap quarantined' = {}
           /\ \A t \in quarantined' : t \in excluded \/ ts - good[t] > StaleAfter
  <1>1. excluded \cup {t \in Markets \ excluded : ts - good[t] > StaleAfter} \subseteq Tickers
    BY SettingsTypes
  <1> QED
    BY <1>1 DEF CheckStaleness

LEMMA QuotedKeeps ==
    ASSUME settings \in Settings, TypeOK, UNCHANGED settings, NEW t \in Tickers,
           NEW b \in settings.books, NEW ts \in 0 .. MaxTime, Quoted(t, b, ts)
    PROVE  /\ book' \in [Tickers -> settings.books \cup {NoBook}]
           /\ last_good' \in [Tickers -> 0 .. MaxTime]
           /\ per_ticker' \in [Tickers -> 0 .. MaxErrors]
           /\ quarantined' \subseteq Tickers /\ tripped' \in BOOLEAN
           /\ tripped => tripped'
           /\ ~tripped' => Critical \cap quarantined' = {}
           /\ t \in quarantined' => t \in quarantined
           /\ book'[t] = b
  <1>1. last_good' \in [Tickers -> 0 .. MaxTime] /\ last_good'[t] = ts
    BY DEF Quoted, TypeOK
  <1>2. /\ quarantined' \subseteq Tickers /\ tripped' \in BOOLEAN
        /\ tripped => tripped'
        /\ ~tripped' => Critical \cap quarantined' = {}
        /\ t \in quarantined' => t \in quarantined
    <2>1. CheckStaleness(ts, last_good', quarantined) /\ quarantined \in SUBSET Tickers
      BY DEF Quoted, TypeOK
    <2>2. ts - last_good'[t] <= StaleAfter
      BY <1>1, SettingsTypes
    <2> HIDE DEF Quoted
    <2>3. /\ quarantined' \subseteq Tickers /\ tripped' \in BOOLEAN
          /\ tripped => tripped'
          /\ ~tripped' => Critical \cap quarantined' = {}
          /\ \A u \in quarantined' : u \in quarantined \/ ts - last_good'[u] > StaleAfter
      BY <2>1, Staleness
    <2> QED
      BY <1>1, <2>2, <2>3, SettingsTypes
  <1> QED
    BY <1>1, <1>2, SettingsTypes DEF Quoted, TypeOK

LEMMA QuoteFailedKeeps ==
    ASSUME settings \in Settings, TypeOK, UNCHANGED settings, NEW t \in Tickers,
           NEW error, NEW ts \in 0 .. MaxTime, QuoteFailed(t, error, ts)
    PROVE  /\ per_ticker' \in [Tickers -> 0 .. MaxErrors]
           /\ quarantined' \subseteq Tickers /\ tripped' \in BOOLEAN
           /\ tripped => tripped'
           /\ ~tripped' => Critical \cap quarantined' = {}
  <1>1. per_ticker' \in [Tickers -> 0 .. MaxErrors]
    BY SettingsTypes DEF QuoteFailed, TypeOK, Least
  <1>2. CASE tripped' = TRUE /\ quarantined' = quarantined
    BY <1>1, <1>2 DEF TypeOK
  <1>3. CASE \E excluded \in SUBSET Tickers : CheckStaleness(ts, last_good, excluded)
    BY <1>1, <1>3, Staleness
  <1> QED
    BY <1>2, <1>3 DEF QuoteFailed, TypeOK

-----------------------------------------------------------------------------
(* The sweep: quotes come in or fail, and no order or position changes. *)

LEMMA SweepKeeps ==
    ASSUME IInv, UNCHANGED <<positions, pending, settings, realized, ledger_day, ledger,
                             latest_bid, bid_ts, seen>>,
           pc \in {"sweep", "requote"}, pc' \in {"sweep", "requote", "due", "halt"},
           tripped' <=> pc' = "halt",
           ~tripped' => Critical \cap quarantined' = {},
           pc' \in {"requote", "due"} =>
               cur' \in Markets \ quarantined' /\ book'[cur'] \in settings.books
    PROVE  Sound'
  <1> USE DEF IInv, Sound
  <1>1. Ticking' /\ Tripping' /\ Allowed' /\ RealizedMatchesLedger'
    BY SameSettings DEF Ticking, Tripping, Allowed, RealizedMatchesLedger, Idle, Marked
  <1>2. Fitting' /\ ExposureLimits' /\ ExposedIsObserved'
    BY SameTrading DEF Fitting, ExposedIsObserved
  <1>3. Exiting'
    <2>1. ~tripped
      BY DEF Tripping
    <2> QED
      BY <2>1, SameUrgency DEF Exiting, Marked
  <1> QED
    BY <1>1, <1>2, <1>3

LEMMA EvidenceKeeps ==
    ASSUME IInv, UNCHANGED settings, NEW t \in Markets, Evidence(t)
    PROVE  IInv'
  <1> USE DEF IInv
  <1>1. t \in Tickers /\ t \notin quarantined /\ cur' = t /\ pc = "sweep"
    BY SettingsTypes DEF Evidence
  <1>2. PICK b \in settings.books, d \in 0 .. 1 :
            now + d <= MaxTime /\ now' = now + d /\ Quoted(t, b, now')
    BY DEF Evidence
  <1>3. now' \in 0 .. MaxTime
    BY <1>2, SettingsTypes DEF TypeOK
  <1>4. /\ book' \in [Tickers -> settings.books \cup {NoBook}]
        /\ last_good' \in [Tickers -> 0 .. MaxTime]
        /\ per_ticker' \in [Tickers -> 0 .. MaxErrors]
        /\ quarantined' \subseteq Tickers /\ tripped' \in BOOLEAN
        /\ ~tripped' => Critical \cap quarantined' = {}
        /\ t \notin quarantined' /\ book'[t] = b
    BY <1>1, <1>2, <1>3, QuotedKeeps
  <1>5. pc' = IF tripped' THEN "halt" ELSE "requote"
    BY DEF Evidence, After
  <1>6. UNCHANGED <<quote_ts, decision_at, marks, trading, pnl, seen, starts>>
    BY DEF Evidence
  <1>7. TypeOK'
    BY <1>1, <1>3, <1>4, <1>5, <1>6, SameSettings DEF TypeOK, marks, trading, pnl
  <1> QED
    BY <1>1, <1>4, <1>5, <1>6, <1>7, SweepKeeps DEF marks, trading, pnl

LEMMA RequoteKeeps == IInv /\ UNCHANGED settings /\ Requote => IInv'
  <1> SUFFICES ASSUME IInv, UNCHANGED settings, Requote PROVE IInv'
    OBVIOUS
  <1> USE DEF IInv
  <1>1. cur \in Tickers /\ cur \in Markets \ quarantined /\ cur' = cur /\ pc = "requote"
    BY SettingsTypes DEF Requote, Sound, Ticking, Idle
  <1>2. PICK b \in settings.books, d \in 0 .. 1 :
            /\ now + d <= MaxTime /\ now' = now + d /\ decision_at' = now + d
            /\ quote_ts' = now /\ Quoted(cur, b, now)
    BY DEF Requote
  <1>3. /\ now \in 0 .. MaxTime /\ now' \in 0 .. MaxTime /\ quote_ts' \in 0 .. MaxTime
        /\ decision_at' \in 0 .. MaxTime
    BY <1>2, SettingsTypes DEF TypeOK
  <1>4. /\ book' \in [Tickers -> settings.books \cup {NoBook}]
        /\ last_good' \in [Tickers -> 0 .. MaxTime]
        /\ per_ticker' \in [Tickers -> 0 .. MaxErrors]
        /\ quarantined' \subseteq Tickers /\ tripped' \in BOOLEAN
        /\ ~tripped' => Critical \cap quarantined' = {}
        /\ cur \notin quarantined' /\ book'[cur] = b
    BY <1>1, <1>2, <1>3, QuotedKeeps
  <1>5. pc' = IF tripped' THEN "halt" ELSE "due"
    BY DEF Requote, After
  <1>6. UNCHANGED <<marks, trading, pnl, seen, starts>>
    BY DEF Requote
  <1>7. TypeOK'
    BY <1>1, <1>3, <1>4, <1>5, <1>6, SameSettings DEF TypeOK, marks, trading, pnl
  <1> QED
    BY <1>1, <1>4, <1>5, <1>6, <1>7, SweepKeeps DEF marks, trading, pnl

LEMMA ObserveFailsKeeps ==
    ASSUME IInv, UNCHANGED settings, NEW t \in Markets, ObserveFails(t)
    PROVE  IInv'
  <1> USE DEF IInv
  <1>1. t \in Tickers /\ pc \in {"sweep", "requote"} /\ now' = now /\ now \in 0 .. MaxTime
    BY SettingsTypes DEF ObserveFails, TypeOK
  <1>2. /\ per_ticker' \in [Tickers -> 0 .. MaxErrors]
        /\ quarantined' \subseteq Tickers /\ tripped' \in BOOLEAN
        /\ ~tripped' => Critical \cap quarantined' = {}
    BY <1>1, QuoteFailedKeeps DEF ObserveFails
  <1>3. pc' = IF tripped' THEN "halt" ELSE "sweep"
    BY DEF ObserveFails, After
  <1>4. /\ UNCHANGED <<feed, marks, trading, pnl, seen, starts>>
        /\ cur' = None /\ quote_ts' = 0 /\ decision_at' = 0
    BY DEF ObserveFails, EndPackage
  <1>5. TypeOK'
    BY <1>1, <1>2, <1>3, <1>4, SameSettings, SettingsTypes
       DEF TypeOK, marks, trading, pnl, feed
  <1> QED
    BY <1>1, <1>2, <1>3, <1>4, <1>5, SweepKeeps DEF marks, trading, pnl

LEMMA RelationFailsKeeps ==
    ASSUME IInv, UNCHANGED settings, NEW t \in Markets, RelationFails(t)
    PROVE  IInv'
  <1> USE DEF IInv
  <1>1. t \in Tickers /\ t \notin Critical /\ pc = "sweep" /\ pc' = "sweep"
    BY SettingsTypes DEF RelationFails
  <1>2. /\ UNCHANGED <<clock, cur, feed, marks, trading, pnl, tripped, seen, starts>>
        /\ quarantined' \in {quarantined, quarantined \cup {t}}
        /\ ~tripped
    BY <1>1 DEF RelationFails, Sound, Tripping
  <1>3. per_ticker' \in [Tickers -> 0 .. MaxErrors]
    BY <1>1, SettingsTypes DEF RelationFails, TypeOK, Least
  <1>4. TypeOK'
    BY <1>1, <1>2, <1>3, SameSettings DEF TypeOK, clock, marks, trading, pnl, feed
  <1>5. Critical \cap quarantined' = {}
    BY <1>1, <1>2 DEF Sound, ExposedIsObserved
  <1> QED
    BY <1>1, <1>2, <1>4, <1>5, SweepKeeps DEF marks, trading, pnl

LEMMA EndSweepKeeps == IInv /\ UNCHANGED settings /\ EndSweep => IInv'
  <1> SUFFICES ASSUME IInv, UNCHANGED settings, EndSweep PROVE IInv'
    OBVIOUS
  <1> USE DEF IInv
  <1>1. /\ pc = "sweep" /\ now' \in 0 .. MaxTime
        /\ UNCHANGED <<quote_ts, decision_at, cur, feed, marks, trading, pnl,
                       per_ticker, seen, starts>>
    BY SettingsTypes DEF EndSweep, TypeOK
  <1>2. /\ quarantined' \subseteq Tickers /\ tripped' \in BOOLEAN
        /\ ~tripped' => Critical \cap quarantined' = {}
    BY Staleness DEF EndSweep, TypeOK
  <1>3. pc' = IF tripped' THEN "halt" ELSE "sweep"
    BY DEF EndSweep, After
  <1>4. TypeOK'
    BY <1>1, <1>2, <1>3, SameSettings DEF TypeOK, marks, trading, pnl, feed
  <1> QED
    BY <1>1, <1>2, <1>3, <1>4, SweepKeeps DEF marks, trading, pnl

-----------------------------------------------------------------------------
(* The tick. *)

LEMMA InTick ==
    ASSUME IInv, pc \in Marked \cup {"due"}
    PROVE  /\ cur \in Tickers /\ cur \notin quarantined /\ cur \in Markets
           /\ book[cur] \in settings.books /\ book[cur] \in Books
           /\ book[cur].bid \in Nat /\ book[cur].bidQty \in Nat \ {0}
           /\ book[cur].ask \in Nat /\ book[cur].askQty \in Nat \ {0}
  BY SettingsTypes DEF IInv, Sound, Ticking, Idle, Marked, Books

LEMMA MarkKeeps == IInv /\ UNCHANGED settings /\ Mark => IInv'
  <1> SUFFICES ASSUME IInv, UNCHANGED settings, Mark PROVE IInv'
    OBVIOUS
  <1> USE DEF IInv, Sound
  <1>1. /\ pc = "due" /\ latest_bid' = [latest_bid EXCEPT ![cur] = book[cur].bid]
        /\ bid_ts' = [bid_ts EXCEPT ![cur] = quote_ts]
        /\ pc' = IF ~Due THEN "ioc"
                 ELSE IF pending[cur].side = "SELL" THEN "due_sell" ELSE "due_buy"
        /\ UNCHANGED <<clock, cur, feed, trading, pnl, safety, seen, starts>>
    BY DEF Mark, MarkBid, Quote
  <1>2. cur \in Tickers /\ book[cur].bid \in Nat
    BY <1>1, InTick
  <1>3. latest_bid' \in [Tickers -> Nat] /\ bid_ts' \in [Tickers -> -1 .. MaxTime]
    BY <1>1, <1>2, SettingsTypes DEF TypeOK
  <1>4. TypeOK'
    BY <1>1, <1>3, SameSettings DEF TypeOK, clock, trading, pnl, feed, safety
  <1>5. Fitting' /\ ExposureLimits' /\ ExposedIsObserved'
    BY <1>1, SameTrading DEF Fitting, ExposedIsObserved, trading, safety
  <1>6. ~tripped
    BY <1>1 DEF Tripping
  <1>7. Exiting'
    <2>1. ASSUME NEW t \in Tickers, t # cur
          PROVE  UrgentExitWorks(t)'
      BY <1>1, <1>6, <2>1, SameUrgency DEF Exiting, Marked, trading, TypeOK
    <2> QED
      BY <1>1, <2>1 DEF Exiting, Marked
  <1>8. Due' = Due /\ (Due => pending[cur].side \in {"SELL", "BUY"})
    BY <1>1, <1>2 DEF Due, clock, trading, TypeOK, Order
  <1>9. Ticking' /\ Tripping' /\ RealizedMatchesLedger'
    BY <1>1, <1>2, <1>6, <1>8, SameSettings
       DEF Ticking, Tripping, RealizedMatchesLedger, Idle, Marked, clock, trading, pnl, feed,
           safety, TypeOK
  <1>10. Allowed'
    BY <1>1, <1>8 DEF Allowed
  <1> QED
    BY <1>4, <1>5, <1>7, <1>9, <1>10

\* The realized P&L that is read back on another day is that day's ledger.
LEMMA RealizedAtDay ==
    ASSUME IInv, pc \notin {"halt", "stopped"}, NEW ts \in 0 .. MaxTime
    PROVE  RealizedAt(ts) = ledger[Day(ts)] /\ RealizedAt(ts) \in Int /\ Day(ts) \in Days
  <1>1. Day(ts) \in Days
    BY DayTypes DEF IInv
  <1> QED
    BY <1>1 DEF IInv, Sound, TypeOK, RealizedMatchesLedger, RealizedAt

\* The loss limit is judged by what is held now, and judging it does not change it.
LEMMA LossLimitChecked ==
    ASSUME IInv, pc \notin {"halt", "stopped"}, CheckLossLimit,
           UNCHANGED <<now, book, latest_bid, bid_ts, positions, ledger, settings>>
    PROVE  /\ realized' \in Int /\ ledger_day' \in Days /\ realized' = ledger'[ledger_day']
           /\ tripped' \in BOOLEAN /\ (tripped => tripped')
           /\ LossLimitHit' = LossLimitHit /\ (~tripped' => ~LossLimitHit)
  <1>1. /\ realized' = RealizedAt(now) /\ ledger_day' = Day(now)
        /\ tripped' = (tripped \/ LossLimitHit)
    BY DEF CheckLossLimit
  <1>2. /\ RealizedAt(now) = ledger[Day(now)] /\ RealizedAt(now) \in Int
        /\ Day(now) \in Days
    BY RealizedAtDay DEF IInv, TypeOK
  <1>3. LossLimitHit' = LossLimitHit
    <2>1. Held' = Held /\ Unvalued' = Unvalued /\ MaxLoss' = MaxLoss
      BY SameSettings DEF Held, Unvalued, StaleAfter
    <2>2. Day(now)' = Day(now)
      BY DEF Day
    <2>3. RealizedAt(now)' = RealizedAt(now)
      BY <1>1, <2>2 DEF RealizedAt
    <2>4. \A t : OpenPnl(t)' = OpenPnl(t)
      BY DEF OpenPnl
    <2>5. [t \in Held |-> OpenPnl(t)]' = [t \in Held |-> OpenPnl(t)]
      BY <2>1, <2>4
    <2>6. TotalPnl(now)' = TotalPnl(now)
      BY <2>3, <2>5 DEF TotalPnl
    <2> QED
      BY <2>1, <2>6 DEF LossLimitHit
  <1>4. tripped' \in BOOLEAN /\ (tripped => tripped') /\ (~tripped' => ~LossLimitHit)
    BY <1>1, Zenon
  <1> QED
    BY <1>1, <1>2, <1>3, <1>4

LEMMA RevalueKeeps == IInv /\ UNCHANGED settings /\ Revalue => IInv'
  <1> SUFFICES ASSUME IInv, UNCHANGED settings, Revalue PROVE IInv'
    OBVIOUS
  <1>1. /\ pc = "revalue" /\ pc' = IF tripped' THEN "halt" ELSE "decide"
        /\ UNCHANGED <<clock, cur, feed, marks, trading, ledger, quarantined,
                       per_ticker, seen, starts>>
        /\ CheckLossLimit
    BY DEF Revalue, After
  <1>2. /\ realized' \in Int /\ ledger_day' \in Days /\ realized' = ledger'[ledger_day']
        /\ tripped' \in BOOLEAN /\ (tripped => tripped')
        /\ LossLimitHit' = LossLimitHit /\ (~tripped' => ~LossLimitHit)
    BY <1>1, LossLimitChecked DEF clock, feed, marks, trading
  <1>3. cur \in Tickers
    BY <1>1, InTick DEF Marked
  <1> USE DEF IInv, Sound
  <1>4. TypeOK'
    BY <1>1, <1>2, SameSettings DEF TypeOK, clock, trading, feed, marks
  <1>5. Fitting' /\ ExposureLimits' /\ ExposedIsObserved'
    BY <1>1, <1>2, SameTrading DEF Fitting, ExposedIsObserved, trading
  <1>6. Exiting'
    BY <1>1, <1>2, SameUrgency DEF Exiting, Marked, trading, marks
  <1>7. Ticking' /\ Tripping' /\ Allowed' /\ RealizedMatchesLedger'
    BY <1>1, <1>2, SameSettings
       DEF Ticking, Tripping, Allowed, RealizedMatchesLedger, Idle, Marked, clock, trading,
           feed, marks
  <1> QED
    BY <1>4, <1>5, <1>6, <1>7

LEMMA PeakSet ==
    ASSUME NEW p \in Position, NEW peak \in Int
    PROVE  /\ [p EXCEPT !.peak = peak] \in Position
           /\ [p EXCEPT !.peak = peak].entry = p.entry
           /\ [p EXCEPT !.peak = peak].opened = p.opened
           /\ [p EXCEPT !.peak = peak].contracts = p.contracts
  BY DEF Position

LEMMA Upgraded ==
    ASSUME NEW order \in Order, NEW reason \in {"stop", "time", "profit"}
    PROVE  /\ Upgrade(order, reason) \in Order
           /\ Upgrade(order, reason).due = order.due
           /\ Upgrade(order, reason).side = order.side
           /\ Upgrade(order, reason).contracts = order.contracts
           /\ Upgrade(order, reason).reason = reason
  <1> DEFINE urgent == [order EXCEPT !.reason = reason]
             next == [urgent EXCEPT !.limit = -1]
  <1>1. /\ urgent \in Order /\ urgent.side = order.side /\ urgent.due = order.due
        /\ urgent.contracts = order.contracts /\ urgent.reason = reason
    BY DEF Order
  <1>2. Upgrade(order, reason) = next
    BY DEF Upgrade, Order
  <1> HIDE DEF urgent
  <1>3. /\ next \in Order /\ next.side = urgent.side /\ next.due = urgent.due
        /\ next.contracts = urgent.contracts /\ next.reason = urgent.reason
    BY <1>1 DEF Order
  <1> QED
    BY <1>1, <1>2, <1>3

\* A judged position keeps all but its peak, a working exit all but its urgency.
LEMMA Judged ==
    ASSUME IInv, UNCHANGED settings, cur \in Tickers, positions[cur] \in Position,
           NEW peak \in Int, positions' = [positions EXCEPT ![cur].peak = peak],
           \/ pending' = pending
           \/ /\ cur \in Working("SELL")
              /\ \E reason \in {"stop", "time", "profit"} :
                     pending' = [pending EXCEPT ![cur] = Upgrade(@, reason)]
    PROVE  /\ positions' \in [Tickers -> Position' \cup {None}]
           /\ pending' \in [Tickers -> Order' \cup {None}]
           /\ Held' = Held /\ Critical' = Critical
           /\ \A side : Working(side)' = Working(side)
           /\ Fitting' /\ ExposureLimits'
           /\ \A t \in Tickers \ {cur} :
                  positions'[t] = positions[t] /\ pending'[t] = pending[t]
           /\ positions'[cur].entry = positions[cur].entry
           /\ positions'[cur].opened = positions[cur].opened
           /\ pending[cur] # None =>
                  pending'[cur].due = pending[cur].due /\ pending'[cur].side = pending[cur].side
  <1>1. /\ positions \in [Tickers -> Position \cup {None}]
        /\ pending \in [Tickers -> Order \cup {None}]
        /\ Order' = Order /\ Position' = Position
    BY SameSettings DEF IInv, TypeOK
  <1>2. /\ positions' \in [Tickers -> Position \cup {None}]
        /\ positions'[cur] = [positions[cur] EXCEPT !.peak = peak]
        /\ \A t \in Tickers \ {cur} : positions'[t] = positions[t]
    BY <1>1, PeakSet
  <1>3. /\ positions'[cur] \in Position
        /\ positions'[cur].entry = positions[cur].entry
        /\ positions'[cur].opened = positions[cur].opened
        /\ positions'[cur].contracts = positions[cur].contracts
    BY <1>2, PeakSet
  <1>4. /\ pending' \in [Tickers -> Order \cup {None}]
        /\ \A t \in Tickers \ {cur} : pending'[t] = pending[t]
        /\ pending[cur] = None => pending'[cur] = None
        /\ pending[cur] # None =>
               /\ pending'[cur] \in Order /\ pending'[cur].due = pending[cur].due
               /\ pending'[cur].side = pending[cur].side
               /\ pending'[cur].contracts = pending[cur].contracts
    <2>1. CASE pending' = pending
      BY <1>1, <2>1
    <2>2. CASE /\ cur \in Working("SELL")
               /\ \E reason \in {"stop", "time", "profit"} :
                      pending' = [pending EXCEPT ![cur] = Upgrade(@, reason)]
      <3>1. pending[cur] \in Order
        BY <1>1, <2>2 DEF Working
      <3>2. PICK reason \in {"stop", "time", "profit"} :
                pending' = [pending EXCEPT ![cur] = Upgrade(@, reason)]
        BY <2>2
      <3> QED
        BY <1>1, <3>1, <3>2, Upgraded, NotNone
    <2> QED
      BY <2>1, <2>2
  <1>5. \A t \in Tickers : /\ positions'[t] = None <=> positions[t] = None
                           /\ pending'[t] = None <=> pending[t] = None
                           /\ pending[t] # None => pending'[t].side = pending[t].side
    BY <1>2, <1>3, <1>4, NotNone
  <1>6. Held' = Held /\ Critical' = Critical /\ \A side : Working(side)' = Working(side)
    BY <1>5 DEF Held, Critical, Working
  <1>7. ExposureLimits'
    BY <1>6 DEF IInv, Sound, ExposureLimits
  <1>8. Fitting'
    <2>1. ASSUME NEW t \in Tickers, pending[t] # None
          PROVE  /\ pending'[t].side = pending[t].side
                 /\ pending'[t].contracts = pending[t].contracts
                 /\ positions'[t].contracts = positions[t].contracts
      BY <1>2, <1>3, <1>4, <2>1
    <2> QED
      BY <1>5, <1>6, <2>1 DEF IInv, Sound, Fitting, OrderFitsPosition
  <1> QED
    BY <1>1, <1>2, <1>3, <1>4, <1>6, <1>7, <1>8

LEMMA DueSellKeeps == IInv /\ UNCHANGED settings /\ DueSell => IInv'
  <1> SUFFICES ASSUME IInv, UNCHANGED settings, DueSell PROVE IInv'
    OBVIOUS
  <1>1. /\ pc = "due_sell" /\ pc' = "ioc"
        /\ UNCHANGED <<clock, cur, feed, marks, pnl, safety, seen, starts>>
    BY DEF DueSell
  <1>2. cur \in Tickers /\ cur \notin quarantined /\ book[cur].bid \in Nat
    BY <1>1, InTick DEF Marked
  <1>3. /\ pending[cur] # None /\ pending[cur].side = "SELL"
        /\ positions[cur] # None /\ positions[cur] \in Position /\ ~tripped
    BY <1>1, <1>2
       DEF IInv, Sound, Ticking, Tripping, Due, Fitting, OrderFitsPosition, Held, TypeOK
  <1>4. PICK peak \in Int : positions' = [positions EXCEPT ![cur].peak = peak]
    BY <1>2, <1>3 DEF DueSell, Peak, Most, Quote, Position
  <1>5. \/ pending' = pending
        \/ /\ cur \in Working("SELL")
           /\ \E reason \in {"stop", "time", "profit"} :
                  pending' = [pending EXCEPT ![cur] = Upgrade(@, reason)]
    BY <1>2, <1>3 DEF DueSell, ExitReason, Working
  <1>6. /\ positions' \in [Tickers -> Position' \cup {None}]
        /\ pending' \in [Tickers -> Order' \cup {None}]
        /\ Held' = Held /\ Critical' = Critical
        /\ \A side : Working(side)' = Working(side)
        /\ Fitting' /\ ExposureLimits'
        /\ \A t \in Tickers \ {cur} :
               positions'[t] = positions[t] /\ pending'[t] = pending[t]
        /\ pending'[cur].side = "SELL"
    BY <1>2, <1>3, <1>4, <1>5, Judged
  <1> USE DEF IInv, Sound
  <1>7. TypeOK'
    BY <1>1, <1>6, SameSettings DEF TypeOK, clock, feed, marks, pnl, safety
  <1>8. ExposedIsObserved' /\ RealizedMatchesLedger' /\ Tripping'
    BY <1>1, <1>3, <1>6
       DEF ExposedIsObserved, RealizedMatchesLedger, Tripping, safety, pnl
  <1>9. Exiting'
    BY <1>1, <1>3, <1>6, SameUrgency DEF Exiting, Marked, marks
  <1>10. Ticking' /\ Allowed'
    BY <1>1, <1>2, <1>6, SameSettings
       DEF Ticking, Allowed, Idle, Marked, Working, clock, feed, marks, safety
  <1> QED
    BY <1>6, <1>7, <1>8, <1>9, <1>10

\* Fewer positions and entries are within the same limits.
LEMMA LessExposed ==
    ASSUME UNCHANGED settings, ExposureLimits, settings \in Settings,
           Held' \subseteq Held, Working("BUY")' \subseteq Working("BUY"),
           Critical' \subseteq Critical
    PROVE  ExposureLimits'
  <1>1. IsFiniteSet(Held) /\ IsFiniteSet(Working("BUY"))
    BY PaperEngineAssumption, FS_Subset DEF Held, Working
  <1>2. /\ Cardinality(Held') <= Cardinality(Held)
        /\ Cardinality(Working("BUY")') <= Cardinality(Working("BUY"))
        /\ Cardinality(Held) \in Nat /\ Cardinality(Working("BUY")) \in Nat
        /\ Cardinality(Held') \in Nat /\ Cardinality(Working("BUY")') \in Nat
    BY <1>1, FS_Subset, FS_CardinalityType
  <1>3. settings.max_open \in Nat
    BY SettingsTypes
  <1>4. Cardinality(Held)' + Cardinality(Working("BUY"))' <= settings.max_open
    BY <1>2, <1>3 DEF ExposureLimits
  <1> QED
    BY <1>4 DEF ExposureLimits

LEMMA DueBuyKeeps == IInv /\ UNCHANGED settings /\ DueBuy => IInv'
  <1> SUFFICES ASSUME IInv, UNCHANGED settings, DueBuy PROVE IInv'
    OBVIOUS
  <1>1. /\ pc = "due_buy" /\ pc' = "ioc" /\ CheckLossLimit
        /\ UNCHANGED <<clock, cur, feed, marks, positions, ledger, quarantined,
                       per_ticker, seen, starts>>
        /\ \/ pending' = [pending EXCEPT ![cur] = None]
           \/ pending' = pending /\ ~tripped'
    BY DEF DueBuy
  <1>2. /\ realized' \in Int /\ ledger_day' \in Days /\ realized' = ledger'[ledger_day']
        /\ tripped' \in BOOLEAN /\ (tripped => tripped')
        /\ LossLimitHit' = LossLimitHit /\ (~tripped' => ~LossLimitHit)
    BY <1>1, LossLimitChecked DEF clock, feed, marks
  <1>3. cur \in Tickers /\ cur \notin quarantined
    BY <1>1, InTick DEF Marked
  <1>4. /\ pending' \in [Tickers -> Order \cup {None}]
        /\ pending'[cur] = None \/ (pending' = pending /\ ~tripped')
        /\ \A t \in Tickers : pending'[t] # None => pending'[t] = pending[t]
        /\ \A t \in Tickers \ {cur} : pending'[t] = pending[t]
    BY <1>1, <1>3 DEF IInv, TypeOK
  <1>5. /\ Held' = Held /\ \A side : Working(side)' \subseteq Working(side)
        /\ Critical' \subseteq Critical
    BY <1>1, <1>4 DEF Held, Working, Critical
  <1> USE DEF IInv, Sound
  <1>6. TypeOK'
    BY <1>1, <1>2, <1>4, SameSettings DEF TypeOK, clock, feed, marks
  <1>7. ExposureLimits' /\ ExposedIsObserved'
    BY <1>1, <1>2, <1>5, LessExposed DEF ExposedIsObserved
  <1>8. Fitting'
    BY <1>1, <1>4, <1>5 DEF Fitting, OrderFitsPosition
  <1>9. Exiting'
    BY <1>1, <1>2, <1>4, SameUrgency DEF Exiting, Marked, marks
  <1>10. Ticking' /\ Tripping' /\ RealizedMatchesLedger'
    BY <1>1, <1>2, <1>3, <1>4, SameSettings
       DEF Ticking, Tripping, RealizedMatchesLedger, Idle, Marked, clock, feed, marks
  <1>11. Allowed'
    BY <1>1, <1>2, <1>4 DEF Allowed, Working
  <1> QED
    BY <1>6, <1>7, <1>8, <1>9, <1>10, <1>11

LEMMA InterruptKeeps == IInv /\ UNCHANGED settings /\ Interrupt => IInv'
  <1> SUFFICES ASSUME IInv, UNCHANGED settings, Interrupt PROVE IInv'
    OBVIOUS
  <1>1. /\ tripped' = TRUE /\ pc' = "halt" /\ cur' = None /\ quote_ts' = 0
        /\ decision_at' = 0
        /\ UNCHANGED <<now, feed, marks, trading, pnl, quarantined, per_ticker, seen, starts>>
    BY DEF Interrupt, EndPackage
  <1>2. tripped'
    BY <1>1
  <1> USE DEF IInv, Sound
  <1>3. TypeOK'
    BY <1>1, SameSettings, SettingsTypes DEF TypeOK, feed, marks, trading, pnl
  <1>4. Fitting' /\ ExposureLimits' /\ ExposedIsObserved'
    BY <1>1, <1>2, SameTrading DEF Fitting, ExposedIsObserved, trading
  <1>5. Ticking' /\ Tripping' /\ Exiting' /\ Allowed' /\ RealizedMatchesLedger'
    BY <1>1, <1>2 DEF Ticking, Tripping, Exiting, Allowed, RealizedMatchesLedger, Idle, Marked
  <1> QED
    BY <1>3, <1>4, <1>5

LEMMA SafeShutdownKeeps == IInv /\ UNCHANGED settings /\ SafeShutdown => IInv'
  <1> SUFFICES ASSUME IInv, UNCHANGED settings, SafeShutdown PROVE IInv'
    OBVIOUS
  <1>1. /\ pc = "halt" /\ pc' = "stopped" /\ cur' = None /\ quote_ts' = 0
        /\ decision_at' = 0 /\ pending' = [t \in Tickers |-> None]
        /\ UNCHANGED <<now, feed, marks, positions, pnl, safety, seen, starts>>
    BY DEF SafeShutdown, EndPackage
  <1>2. /\ Held' = Held /\ \A side : Working(side)' = {}
        /\ Critical' \subseteq Critical
    BY <1>1 DEF Held, Working, Critical
  <1> USE DEF IInv, Sound
  <1>3. TypeOK'
    BY <1>1, SameSettings, SettingsTypes DEF TypeOK, feed, marks, pnl, safety
  <1>4. ExposureLimits' /\ ExposedIsObserved'
    BY <1>1, <1>2, LessExposed DEF ExposedIsObserved, safety
  <1>5. Fitting'
    BY <1>1 DEF Fitting, OrderFitsPosition
  <1>6. Exiting'
    BY <1>1 DEF Exiting, Tripping, safety
  <1>7. Ticking' /\ Tripping' /\ Allowed' /\ RealizedMatchesLedger'
    BY <1>1 DEF safety, Ticking, Tripping, Allowed, RealizedMatchesLedger, Idle, Marked
  <1> QED
    BY <1>3, <1>4, <1>5, <1>6, <1>7

LEMMA RestartKeeps == IInv /\ UNCHANGED settings /\ Restart => IInv'
  <1> SUFFICES ASSUME IInv, UNCHANGED settings, Restart PROVE IInv'
    OBVIOUS
  <1>1. /\ starts' = starts + 1 /\ starts < MaxStarts /\ pc' = "sweep" /\ cur' = None
        /\ quote_ts' = 0 /\ decision_at' = 0
        /\ book' = [t \in Tickers |-> NoBook] /\ last_good' = [t \in Tickers |-> now]
        /\ latest_bid' = [t \in Tickers |-> 0] /\ bid_ts' = [t \in Tickers |-> -1]
        /\ positions' = [t \in Tickers |-> None] /\ pending' = [t \in Tickers |-> None]
        /\ realized' = ledger[Day(now)] /\ ledger_day' = Day(now)
        /\ quarantined' = {} /\ per_ticker' = [t \in Tickers |-> 0]
        /\ seen' = [t \in Tickers |-> -1] /\ UNCHANGED <<now, ledger>>
    BY DEF Restart, EndPackage
  <1>2. tripped' = FALSE
    BY DEF Restart
  <1>3. Held' = {} /\ Working("BUY")' = {} /\ Critical' = {}
    BY <1>1 DEF Held, Working, Critical
  <1>4. tripped' \in BOOLEAN /\ ~tripped'
    BY <1>2, Zenon
  <1> USE DEF IInv, Sound
  <1>5. /\ Day(now) \in Days /\ ledger[Day(now)] \in Int /\ now \in 0 .. MaxTime
        /\ starts' \in 1 .. MaxStarts
    BY <1>1, DayTypes, SettingsTypes DEF TypeOK
  <1>6. TypeOK'
    BY <1>1, <1>4, <1>5, SameSettings, SettingsTypes DEF TypeOK
  <1>7. ExposureLimits' /\ ExposedIsObserved'
    BY <1>3, LessExposed DEF ExposedIsObserved
  <1>8. Fitting' /\ Exiting'
    BY <1>1, <1>3 DEF Fitting, OrderFitsPosition, Exiting, UrgentExitWorks
  <1>9. Ticking' /\ Tripping' /\ Allowed' /\ RealizedMatchesLedger'
    BY <1>1, <1>4 DEF Ticking, Tripping, Allowed, RealizedMatchesLedger, Idle, Marked
  <1> QED
    BY <1>6, <1>7, <1>8, <1>9

-----------------------------------------------------------------------------
(* Fills. *)

\* At the one attempt an order fills no more than it asks for.
LEMMA FillCounts ==
    ASSUME IInv, pc = "ioc", NEW order \in Order, NEW edge
    PROVE  FillCount(order, edge) \in 0 .. order.contracts
  <1>1. Quote.askQty \in Nat \ {0} /\ Quote.bidQty \in Nat \ {0}
    BY InTick DEF Quote, Marked
  <1>2. order.contracts \in Nat
    BY SettingsTypes DEF Order, IInv
  <1>3. FillCount(order, edge) \in {0, Least(order.contracts, Quote.askQty),
                                    Least(order.contracts, Quote.bidQty)}
    BY DEF FillCount
  <1> QED
    BY <1>1, <1>2, <1>3 DEF Least

LEMMA DueOrder ==
    ASSUME IInv, pc = "ioc", Due
    PROVE  /\ cur \in Tickers /\ cur \notin quarantined
           /\ pending[cur] # None /\ pending[cur] \in Order /\ ~tripped
           /\ pending[cur].side = "BUY" => cur \notin Held
           /\ pending[cur].side = "SELL" =>
                  /\ cur \in Held /\ positions[cur] \in Position
                  /\ pending[cur].contracts = positions[cur].contracts
  <1>1. cur \in Tickers /\ cur \notin quarantined
    BY InTick DEF Marked
  <1> QED
    BY <1>1 DEF IInv, Sound, TypeOK, Due, Tripping, Fitting, OrderFitsPosition, Held

LEMMA BoughtKeeps ==
    ASSUME IInv, UNCHANGED settings, pc = "ioc", Due, pending[cur].side = "BUY",
           pending' = [pending EXCEPT ![cur] = None],
           NEW count \in 1 .. pending[cur].contracts,
           Bought(count, FillPrice(pending[cur]))
    PROVE  /\ positions' \in [Tickers -> Position \cup {None}]
           /\ \A t \in Tickers \ {cur} : positions'[t] = positions[t]
           /\ realized' \in Int /\ ledger_day' \in Days /\ ledger' = ledger
           /\ realized' = ledger[ledger_day'] /\ tripped' = tripped
           /\ Critical' = Critical /\ ExposureLimits'
  <1>1. /\ cur \in Tickers /\ cur \notin Held /\ pending[cur] \in Order
        /\ pending[cur] # None
    BY DueOrder
  <1>2. FillPrice(pending[cur]) \in Nat
    BY InTick DEF FillPrice, Quote, Marked
  <1>3. decision_at \in 0 .. MaxTime /\ count \in 1 .. Contracts
    BY <1>1, SettingsTypes DEF IInv, TypeOK, Order
  <1> DEFINE p == [entry |-> FillPrice(pending[cur]), contracts |-> count,
                   opened |-> decision_at, peak |-> -1]
  <1>4. positions' = [positions EXCEPT ![cur] = p] /\ p \in Position
    BY <1>2, <1>3 DEF Bought, Position
  <1>5. p # None
    BY <1>4, NotNone
  <1> HIDE DEF p
  <1>6. /\ positions' \in [Tickers -> Position \cup {None}] /\ positions'[cur] # None
        /\ \A t \in Tickers \ {cur} : positions'[t] = positions[t]
    BY <1>1, <1>4, <1>5 DEF IInv, TypeOK
  <1>7. /\ pending'[cur] = None /\ \A t \in Tickers \ {cur} : pending'[t] = pending[t]
    BY <1>1 DEF IInv, TypeOK
  <1>8. /\ realized' = ledger[ledger_day'] /\ realized' \in Int /\ ledger_day' \in Days
        /\ ledger' = ledger /\ tripped' = tripped
    BY <1>3, RealizedAtDay DEF Bought
  <1>9. /\ Held' = Held \cup {cur} /\ cur \in Working("BUY")
        /\ Working("BUY")' = Working("BUY") \ {cur} /\ Critical' = Critical
    BY <1>1, <1>6, <1>7 DEF Held, Working, Critical
  <1>10. ExposureLimits'
    <2>1. IsFiniteSet(Held) /\ IsFiniteSet(Working("BUY"))
      BY PaperEngineAssumption, FS_Subset DEF Held, Working
    <2>2. /\ Cardinality(Held') = Cardinality(Held) + 1
          /\ Cardinality(Working("BUY")') = Cardinality(Working("BUY")) - 1
          /\ Cardinality(Held) \in Nat /\ Cardinality(Working("BUY")) \in Nat
      BY <1>1, <1>9, <2>1, FS_AddElement, FS_RemoveElement, FS_CardinalityType, ZenonT(60)
    <2>3. Cardinality(Held) + Cardinality(Working("BUY")) <= settings.max_open
      BY DEF IInv, Sound, ExposureLimits
    <2>4. Cardinality(Held)' + Cardinality(Working("BUY"))' <= settings.max_open
      BY <2>2, <2>3
    <2> QED
      BY <1>9, <2>4 DEF IInv, Sound, ExposureLimits
  <1> QED
    BY <1>6, <1>8, <1>9, <1>10

LEMMA SoldKeeps ==
    ASSUME IInv, UNCHANGED settings, pc = "ioc", Due, pending[cur].side = "SELL",
           pending' = [pending EXCEPT ![cur] = None],
           NEW count \in 1 .. pending[cur].contracts,
           Sold(count, FillPrice(pending[cur]))
    PROVE  /\ positions' \in [Tickers -> Position \cup {None}]
           /\ \A t \in Tickers \ {cur} : positions'[t] = positions[t]
           /\ realized' \in Int /\ ledger_day' \in Days /\ ledger' \in [Days -> Int]
           /\ realized' = ledger'[ledger_day'] \/ tripped'
           /\ tripped' \in BOOLEAN
           /\ Critical' \subseteq Critical /\ ExposureLimits'
  <1>1. /\ cur \in Tickers /\ cur \in Held /\ pending[cur] \in Order /\ pending[cur] # None
        /\ positions[cur] \in Position /\ pending[cur].contracts = positions[cur].contracts
    BY DueOrder
  <1>2. FillPrice(pending[cur]) \in Int
    BY InTick, PaperEngineAssumption DEF FillPrice, Quote, Marked, Most
  <1>3. /\ decision_at \in 0 .. MaxTime /\ count \in Int /\ positions[cur].entry \in Int
        /\ positions[cur].contracts \in 1 .. Contracts /\ Contracts \in Nat
        /\ Fee \in Int
    BY <1>1, SettingsTypes, PaperEngineAssumption DEF IInv, TypeOK, Position
  <1> DEFINE gain == Gain(count, FillPrice(pending[cur]))
             day == Day(decision_at)
  <1>4. gain \in Int
    BY <1>2, <1>3 DEF Gain
  <1>5. RealizedAt(decision_at) = ledger[day] /\ ledger[day] \in Int /\ day \in Days
        /\ ledger \in [Days -> Int]
    BY <1>3, RealizedAtDay DEF IInv, TypeOK
  <1>6. realized' = RealizedAt(decision_at) + gain /\ ledger_day' = day
    BY DEF Sold
  <1> HIDE DEF gain, day
  <1>7. /\ pending'[cur] = None /\ \A t \in Tickers \ {cur} : pending'[t] = pending[t]
    BY <1>1 DEF IInv, TypeOK
  <1>8. ASSUME /\ positions' \in [Tickers -> Position \cup {None}]
               /\ \A t \in Tickers \ {cur} : positions'[t] = positions[t]
        PROVE  Critical' \subseteq Critical /\ ExposureLimits'
    <2>1. Held' \subseteq Held /\ Working("BUY")' \subseteq Working("BUY")
          /\ Critical' \subseteq Critical
      BY <1>1, <1>7, <1>8 DEF Held, Working, Critical
    <2> QED
      BY <2>1, LessExposed DEF IInv, Sound
  <1>9. CASE tripped' = TRUE /\ UNCHANGED <<ledger, positions>>
    <2>1. tripped' \in BOOLEAN /\ tripped'
      BY <1>9, Zenon
    <2> QED
      BY <1>4, <1>5, <1>6, <1>8, <1>9, <2>1 DEF IInv, TypeOK
  <1>10. CASE /\ ledger' = [ledger EXCEPT ![day] = @ + gain]
              /\ positions' = [positions EXCEPT ![cur] = Remaining(@, count)]
              /\ UNCHANGED tripped
    <2>1. /\ ledger' \in [Days -> Int] /\ ledger'[day] = ledger[day] + gain
      BY <1>4, <1>5, <1>10
    <2>2. Remaining(positions[cur], count) \in Position \cup {None}
      BY <1>1, <1>3 DEF Position, Remaining
    <2>3. /\ positions' \in [Tickers -> Position \cup {None}]
          /\ \A t \in Tickers \ {cur} : positions'[t] = positions[t]
      BY <1>1, <1>10, <2>2 DEF IInv, TypeOK
    <2> QED
      BY <1>4, <1>5, <1>6, <1>8, <1>10, <2>1, <2>3 DEF IInv, TypeOK
  <1> QED
    BY <1>9, <1>10 DEF Sold, gain, day

LEMMA IocKeeps == IInv /\ UNCHANGED settings /\ Ioc => IInv'
  <1> SUFFICES ASSUME IInv, UNCHANGED settings, Ioc PROVE IInv'
    OBVIOUS
  <1>1. /\ pc = "ioc" /\ pc' = IF tripped' /\ ~tripped THEN "halt" ELSE "revalue"
        /\ UNCHANGED <<clock, cur, feed, marks, quarantined, per_ticker, seen, starts>>
    BY DEF Ioc
  <1>2. cur \in Tickers /\ cur \notin quarantined
    BY <1>1, InTick DEF Marked
  \* Whatever the order came to, this is all that the tick changed.
  <1>3. ASSUME /\ positions' \in [Tickers -> Position \cup {None}]
               /\ pending' \in [Tickers -> Order \cup {None}]
               /\ \A t \in Tickers \ {cur} :
                      positions'[t] = positions[t] /\ pending'[t] = pending[t]
               /\ realized' \in Int /\ ledger_day' \in Days /\ ledger' \in [Days -> Int]
               /\ realized' = ledger'[ledger_day'] \/ (tripped' /\ ~tripped)
               /\ tripped' \in BOOLEAN /\ (tripped => tripped')
               /\ tripped' /\ tripped => pending'[cur] = None
               /\ Critical' \subseteq Critical /\ ExposureLimits'
               /\ OrderFitsPosition(cur)'
        PROVE  IInv'
    <2> USE DEF IInv, Sound
    <2>1. TypeOK'
      BY <1>1, <1>3, SameSettings DEF TypeOK, clock, feed, marks
    <2>2. ExposedIsObserved'
      BY <1>1, <1>3 DEF ExposedIsObserved
    <2>3. Fitting'
      <3>1. ASSUME NEW t \in Tickers, t # cur PROVE OrderFitsPosition(t)'
        BY <1>1, <1>3, <3>1 DEF Fitting, OrderFitsPosition, Held
      <3> QED
        BY <1>1, <1>3, <3>1 DEF Fitting, OrderFitsPosition
    <2>4. Exiting'
      BY <1>1, <1>3, SameUrgency DEF Exiting, Marked, marks
    <2>5. Ticking' /\ Tripping' /\ Allowed' /\ RealizedMatchesLedger'
      BY <1>1, <1>2, <1>3, SameSettings
         DEF Ticking, Tripping, Allowed, RealizedMatchesLedger, Idle, Marked, clock, feed,
             marks
    <2> QED
      BY <1>3, <2>1, <2>2, <2>3, <2>4, <2>5
  <1>4. CASE ~Due
    <2>1. UNCHANGED <<trading, pnl, tripped>>
      BY <1>4 DEF Ioc
    <2>2. /\ Critical' = Critical /\ ExposureLimits' = ExposureLimits
          /\ OrderFitsPosition(cur)' = OrderFitsPosition(cur)
      BY <1>1, <1>2, <2>1, SameTrading DEF trading
    <2>3. tripped => pending[cur] = None
      BY <1>1 DEF IInv, Sound, Tripping
    <2>4. ExposureLimits /\ OrderFitsPosition(cur) /\ realized = ledger[ledger_day]
      BY <1>1, <1>2 DEF IInv, Sound, Fitting, RealizedMatchesLedger
    <2> QED
      BY <1>3, <2>1, <2>2, <2>3, <2>4 DEF IInv, TypeOK, trading, pnl
  <1>5. CASE Due
    <2>1. /\ pending[cur] # None /\ pending[cur] \in Order /\ ~tripped
          /\ pending' = [pending EXCEPT ![cur] = None]
      BY <1>1, <1>5, DueOrder DEF Ioc
    <2>2. /\ pending' \in [Tickers -> Order \cup {None}] /\ pending'[cur] = None
          /\ \A t \in Tickers \ {cur} : pending'[t] = pending[t]
      BY <1>2, <2>1 DEF IInv, TypeOK
    <2>3. OrderFitsPosition(cur)'
      BY <1>1, <2>2 DEF OrderFitsPosition
    <2>4. PICK edge \in BOOLEAN :
              LET count == FillCount(pending[cur], edge)
              IN  IF count = 0 THEN UNCHANGED <<positions, pnl, tripped>>
                  ELSE IF pending[cur].side = "BUY"
                  THEN Bought(count, FillPrice(pending[cur]))
                  ELSE Sold(count, FillPrice(pending[cur]))
      BY <1>5 DEF Ioc
    <2> DEFINE count == FillCount(pending[cur], edge)
    <2>5. count \in 0 .. pending[cur].contracts
      BY <1>1, <2>1, FillCounts
    <2>6. pending[cur].contracts \in Nat /\ pending[cur].side \in {"BUY", "SELL"}
      BY <2>1, SettingsTypes DEF Order, IInv
    <2>7. CASE count = 0
      <3>1. UNCHANGED <<positions, pnl, tripped>>
        BY <2>4, <2>7
      <3>2. /\ Held' = Held /\ Working("BUY")' \subseteq Working("BUY")
            /\ Critical' \subseteq Critical
        BY <1>2, <2>2, <3>1 DEF Held, Working, Critical
      <3>3. ExposureLimits' /\ realized = ledger[ledger_day]
        BY <1>1, <3>2, LessExposed DEF IInv, Sound, RealizedMatchesLedger
      <3> QED
        BY <1>3, <2>1, <2>2, <2>3, <3>1, <3>2, <3>3 DEF IInv, TypeOK, pnl
    <2>8. CASE count # 0 /\ pending[cur].side = "BUY"
      <3>1. count \in 1 .. pending[cur].contracts /\ Bought(count, FillPrice(pending[cur]))
        BY <2>4, <2>5, <2>6, <2>8
      <3> HIDE DEF count
      <3>2. /\ positions' \in [Tickers -> Position \cup {None}]
            /\ \A t \in Tickers \ {cur} : positions'[t] = positions[t]
            /\ realized' \in Int /\ ledger_day' \in Days /\ ledger' = ledger
            /\ realized' = ledger[ledger_day'] /\ tripped' = tripped
            /\ Critical' = Critical /\ ExposureLimits'
        BY <1>1, <1>5, <2>1, <2>8, <3>1, BoughtKeeps
      <3> QED
        BY <1>3, <2>1, <2>2, <2>3, <3>2 DEF IInv, TypeOK
    <2>9. CASE count # 0 /\ pending[cur].side = "SELL"
      <3>1. count \in 1 .. pending[cur].contracts /\ Sold(count, FillPrice(pending[cur]))
        BY <2>4, <2>5, <2>6, <2>9
      <3> HIDE DEF count
      <3>2. /\ positions' \in [Tickers -> Position \cup {None}]
            /\ \A t \in Tickers \ {cur} : positions'[t] = positions[t]
            /\ realized' \in Int /\ ledger_day' \in Days /\ ledger' \in [Days -> Int]
            /\ realized' = ledger'[ledger_day'] \/ tripped'
            /\ tripped' \in BOOLEAN
            /\ Critical' \subseteq Critical /\ ExposureLimits'
        BY <1>1, <1>5, <2>1, <2>9, <3>1, SoldKeeps
      <3> QED
        BY <1>3, <2>1, <2>2, <2>3, <3>2
    <2> QED
      BY <2>6, <2>7, <2>8, <2>9
  <1> QED
    BY <1>4, <1>5

-----------------------------------------------------------------------------
(* Decisions. *)

\* What is left undecided is not urgent.
LEMMA ReasonTells ==
    ASSUME NEW p, NEW bid \in Int, NEW ts \in Int, p.entry \in Int, p.opened \in Int
    PROVE  /\ ExitReason(p, bid, ts) \in {"stop", "time", "profit", "none"}
           /\ bid - p.entry <= -StopLoss => ExitReason(p, bid, ts) = "stop"
           /\ ts - p.opened >= MaxHold => ExitReason(p, bid, ts) \in {"stop", "time"}
  BY PaperEngineAssumption DEF ExitReason

LEMMA Priorities ==
    /\ Priority("stop") = 2 /\ Priority("time") = 1 /\ Priority("profit") = 0
    /\ \A reason : Priority(reason) \in 0 .. 2
  BY DEF Priority

\* A new exit covers what is held, a new entry fits the settings.
LEMMA SubmittedIsOrder ==
    ASSUME IInv, pc = "decide", pending[cur] = None,
           NEW side \in {"BUY", "SELL"}, NEW count \in 1 .. Contracts,
           NEW reason \in {"dip", "stop", "time", "profit"},
           pending' = Submitted(cur, side, count, reason)
    PROVE  /\ pending' \in [Tickers -> Order \cup {None}]
           /\ pending'[cur] \in Order /\ pending'[cur].side = side
           /\ pending'[cur].contracts = count /\ pending'[cur].reason = reason
           /\ \A t \in Tickers \ {cur} : pending'[t] = pending[t]
  <1> DEFINE order == [side |-> side, contracts |-> count, reason |-> reason,
                       due |-> decision_at + Latency,
                       limit |-> IF reason \in {"stop", "time"} THEN -1
                                 ELSE IF side = "BUY" THEN book[cur].ask ELSE book[cur].bid]
  <1>1. cur \in Tickers /\ book[cur].ask \in Nat /\ book[cur].bid \in Nat
    BY InTick DEF Marked
  <1>2. decision_at + Latency \in Nat
    BY PaperEngineAssumption, SettingsTypes DEF IInv, TypeOK
  <1>3. order \in Order /\ order.side = side /\ order.contracts = count
        /\ order.reason = reason
    BY <1>1, <1>2 DEF Order
  <1>4. pending' = [pending EXCEPT ![cur] = order]
    BY DEF Submitted
  <1> HIDE DEF order
  <1> QED
    BY <1>1, <1>3, <1>4 DEF IInv, TypeOK

LEMMA DecidedKeeps ==
    ASSUME IInv, UNCHANGED settings, Decide,
           positions' \in [Tickers -> Position \cup {None}],
           pending' \in [Tickers -> Order \cup {None}],
           \A t \in Tickers \ {cur} : positions'[t] = positions[t] /\ pending'[t] = pending[t],
           \A t \in Tickers : t = cur => OrderFitsPosition(t)' /\ UrgentExitWorks(t)',
           Critical' \subseteq Critical \cup {cur}, ExposureLimits'
    PROVE  IInv'
  <1>1. /\ pc = "decide" /\ pc' = "sweep" /\ seen' = [seen EXCEPT ![cur] = decision_at]
        /\ cur' = None /\ quote_ts' = 0 /\ decision_at' = 0
        /\ UNCHANGED <<now, feed, marks, pnl, safety, starts>>
    BY DEF Decide, EndPackage
  <1>2. cur \in Tickers /\ cur \notin quarantined
    BY <1>1, InTick DEF Marked
  <1>3. seen' \in [Tickers -> -1 .. MaxTime]
    BY <1>1, <1>2, SettingsTypes DEF IInv, TypeOK
  <1> USE DEF IInv, Sound
  <1>4. TypeOK'
    BY <1>1, <1>3, SameSettings, SettingsTypes DEF TypeOK, feed, marks, pnl, safety
  <1>5. ExposedIsObserved'
    BY <1>1, <1>2 DEF ExposedIsObserved, safety
  <1>6. Fitting'
    <2>1. ASSUME NEW t \in Tickers, t # cur PROVE OrderFitsPosition(t)'
      BY <2>1 DEF Fitting, OrderFitsPosition, Held
    <2> QED
      BY <2>1 DEF Fitting
  <1>7. Exiting'
    <2>1. ~tripped
      BY <1>1 DEF Tripping
    <2>2. ASSUME NEW t \in Tickers, t # cur PROVE UrgentExitWorks(t)'
      <3>1. UrgentExitWorks(t)
        BY <2>1, <2>2 DEF Exiting
      <3>2. seen'[t] = seen[t] /\ latest_bid'[t] = latest_bid[t]
        BY <1>1, <2>2 DEF TypeOK, marks
      <3> QED
        BY <2>2, <3>1, <3>2, SameUrgency
    <2> QED
      BY <2>2 DEF Exiting
  <1>8. Ticking' /\ Tripping' /\ Allowed' /\ RealizedMatchesLedger'
    BY <1>1 DEF Ticking, Tripping, Allowed, RealizedMatchesLedger, Idle, Marked, safety, pnl
  <1> QED
    BY <1>4, <1>5, <1>6, <1>7, <1>8

\* An exit at least as urgent as the judgement of its tick satisfies it.
LEMMA UrgentWorks ==
    ASSUME IInv, Decide, positions[cur] \in Position,
           NEW reason, reason = ExitReason(positions[cur], Quote.bid, decision_at),
           positions'[cur].entry = positions[cur].entry,
           positions'[cur].opened = positions[cur].opened,
           \/ reason = "none"
           \/ /\ pending'[cur] # None /\ pending'[cur].side = "SELL"
              /\ Priority(pending'[cur].reason) >= Priority(reason)
    PROVE  \A t \in Tickers : t = cur => UrgentExitWorks(t)'
  <1>1. /\ pc = "decide" /\ seen' = [seen EXCEPT ![cur] = decision_at]
        /\ latest_bid' = latest_bid
    BY DEF Decide, marks
  <1>2. cur \in Tickers /\ Quote.bid \in Int /\ latest_bid[cur] = Quote.bid
    BY <1>1, InTick DEF Marked, Quote, IInv, Sound, Ticking
  <1>3. /\ decision_at \in Int /\ positions[cur].entry \in Int /\ positions[cur].opened \in Int
    BY SettingsTypes DEF IInv, TypeOK, Position
  <1>4. /\ Quote.bid - positions[cur].entry <= -StopLoss => reason = "stop"
        /\ decision_at - positions[cur].opened >= MaxHold => reason \in {"stop", "time"}
    BY <1>2, <1>3, ReasonTells
  <1>5. seen'[cur] = decision_at
    BY <1>1, <1>2 DEF IInv, TypeOK
  <1> SUFFICES ASSUME NEW t \in Tickers, t = cur PROVE UrgentExitWorks(t)'
    OBVIOUS
  <1>6. CASE reason = "none"
    BY <1>1, <1>2, <1>4, <1>5, <1>6 DEF UrgentExitWorks
  <1>7. CASE /\ pending'[cur] # None /\ pending'[cur].side = "SELL"
             /\ Priority(pending'[cur].reason) >= Priority(reason)
    <2>1. t \in Working("SELL")'
      BY <1>7 DEF Working
    <2>2. /\ reason = "stop" => Priority(pending'[t].reason) = 2
          /\ reason = "time" => Priority(pending'[t].reason) >= 1
          /\ reason = "stop" => Priority(pending'[t].reason) >= 1
      BY <1>7, Priorities
    <2> QED
      BY <1>1, <1>2, <1>4, <1>5, <2>1, <2>2 DEF UrgentExitWorks
  <1> QED
    BY <1>6, <1>7

LEMMA DecideEntryKeeps ==
    ASSUME IInv, UNCHANGED settings, Decide, positions[cur] = None, pending[cur] = None,
           DecideEntry
    PROVE  IInv'
  <1>1. pc = "decide"
    BY DEF Decide
  <1>2. cur \in Tickers /\ Quote.askQty \in Nat \ {0}
    BY <1>1, InTick DEF Marked, Quote
  <1>3. Least(Contracts, Quote.askQty) \in 1 .. Contracts
    BY <1>2, SettingsTypes DEF Least, IInv
  <1>4. /\ positions' = positions /\ pending' \in [Tickers -> Order \cup {None}]
        /\ pending'[cur] \in Order /\ pending'[cur].side = "BUY"
        /\ \A t \in Tickers \ {cur} : pending'[t] = pending[t]
    BY <1>1, <1>3, SubmittedIsOrder DEF DecideEntry
  <1>5. /\ Held' = Held /\ cur \notin Held /\ Working("BUY")' = Working("BUY") \cup {cur}
        /\ cur \notin Working("BUY") /\ Critical' = Critical \cup {cur}
    BY <1>2, <1>4, NotNone DEF Held, Working, Critical
  <1>6. ExposureLimits'
    <2>1. IsFiniteSet(Held) /\ IsFiniteSet(Working("BUY"))
      BY PaperEngineAssumption, FS_Subset DEF Held, Working
    <2>2. /\ Cardinality(Working("BUY")') = Cardinality(Working("BUY")) + 1
          /\ Cardinality(Held) \in Nat /\ Cardinality(Working("BUY")) \in Nat
          /\ settings.max_open \in Nat
      BY <1>5, <2>1, FS_AddElement, FS_CardinalityType, SettingsTypes DEF IInv
    <2>3. Cardinality(Held) + Cardinality(Working("BUY")) < settings.max_open
      BY DEF DecideEntry, EntryFits
    <2>4. Cardinality(Held)' + Cardinality(Working("BUY"))' <= settings.max_open
      BY <1>5, <2>2, <2>3
    <2>5. \A u \in Critical : u # cur => settings.event[u] # settings.event[cur]
      BY DEF DecideEntry, EventBusy
    <2>6. \A t, u \in Critical : settings.event[t] = settings.event[u] => t = u
      BY DEF IInv, Sound, ExposureLimits
    <2>7. \A t, u \in Critical \cup {cur} : settings.event[t] = settings.event[u] => t = u
      BY <2>5, <2>6
    <2> QED
      BY <1>5, <2>4, <2>7 DEF ExposureLimits
  <1>7. \A t \in Tickers : t = cur => OrderFitsPosition(t)' /\ UrgentExitWorks(t)'
    BY <1>4, <1>5 DEF OrderFitsPosition, UrgentExitWorks
  <1> QED
    BY <1>4, <1>5, <1>6, <1>7, DecidedKeeps DEF IInv, TypeOK

LEMMA DecideExitKeeps ==
    ASSUME IInv, UNCHANGED settings, Decide, cur \notin Working("BUY"),
           NEW reason \in {"stop", "time", "profit"}, positions[cur] # None,
           reason = ExitReason(positions[cur], Quote.bid, decision_at),
           DecideExit(reason)
    PROVE  IInv'
  <1>1. pc = "decide"
    BY DEF Decide
  <1>2. /\ cur \in Tickers /\ Quote.bid \in Nat /\ positions[cur] \in Position
        /\ pending[cur] \in Order \cup {None} /\ cur \in Held
    BY <1>1, InTick DEF Marked, Quote, IInv, TypeOK, Held
  <1>3. PICK peak \in Int : positions' = [positions EXCEPT ![cur].peak = peak]
    <2>1. Peak(positions[cur], Quote.bid) \in Int
      BY <1>2 DEF Peak, Most, Position
    <2>2. positions' = [positions EXCEPT ![cur].peak = Peak(positions[cur], Quote.bid)]
      BY DEF DecideExit
    <2> QED
      BY <2>1, <2>2
  <1>4. CASE pending[cur] = None
    <2>1. positions[cur].contracts \in 1 .. Contracts
      BY <1>2 DEF Position
    <2>2. /\ pending' \in [Tickers -> Order \cup {None}]
          /\ pending'[cur] \in Order /\ pending'[cur].side = "SELL"
          /\ pending'[cur].contracts = positions[cur].contracts
          /\ pending'[cur].reason = reason
          /\ \A t \in Tickers \ {cur} : pending'[t] = pending[t]
      BY <1>1, <1>4, <2>1, SubmittedIsOrder DEF DecideExit
    <2>3. /\ positions' \in [Tickers -> Position \cup {None}]
          /\ \A t \in Tickers \ {cur} : positions'[t] = positions[t]
          /\ positions'[cur] \in Position
          /\ positions'[cur].entry = positions[cur].entry
          /\ positions'[cur].opened = positions[cur].opened
          /\ positions'[cur].contracts = positions[cur].contracts
      <3>1. positions'[cur] = [positions[cur] EXCEPT !.peak = peak]
        BY <1>2, <1>3 DEF IInv, TypeOK
      <3> QED
        BY <1>2, <1>3, <3>1, PeakSet DEF IInv, TypeOK
    <2>4. /\ Held' = Held /\ Working("BUY")' = Working("BUY") /\ Critical' = Critical
      BY <1>2, <1>4, <2>2, <2>3, NotNone DEF Held, Working, Critical
    <2>5. ExposureLimits'
      BY <2>4 DEF IInv, Sound, ExposureLimits
    <2>6. \A t \in Tickers : t = cur => UrgentExitWorks(t)'
      BY <1>2, <2>2, <2>3, UrgentWorks, Priorities, NotNone
    <2>7. \A t \in Tickers : t = cur => OrderFitsPosition(t)'
      BY <1>2, <2>2, <2>3, <2>4 DEF OrderFitsPosition
    <2> QED
      BY <2>2, <2>3, <2>4, <2>5, <2>6, <2>7, DecidedKeeps
  <1>5. CASE pending[cur] # None
    <2>1. cur \in Working("SELL") /\ pending[cur] \in Order
      BY <1>2, <1>5 DEF Working, Order
    <2>2. \/ /\ pending' = pending /\ Priority(pending[cur].reason) >= Priority(reason)
          \/ pending' = [pending EXCEPT ![cur] = Upgrade(@, reason)]
      BY <1>5, Priorities DEF DecideExit
    <2>3. /\ positions' \in [Tickers -> Position \cup {None}]
          /\ pending' \in [Tickers -> Order \cup {None}]
          /\ Critical' = Critical /\ Fitting' /\ ExposureLimits'
          /\ \A t \in Tickers \ {cur} :
                 positions'[t] = positions[t] /\ pending'[t] = pending[t]
          /\ positions'[cur].entry = positions[cur].entry
          /\ positions'[cur].opened = positions[cur].opened
          /\ pending'[cur].side = pending[cur].side
      BY <1>2, <1>3, <1>5, <2>1, <2>2, Judged, SameSettings
    <2>4. /\ pending'[cur] # None /\ pending'[cur].side = "SELL"
          /\ Priority(pending'[cur].reason) >= Priority(reason)
      <3>1. CASE pending' = pending /\ Priority(pending[cur].reason) >= Priority(reason)
        BY <1>5, <2>1, <3>1 DEF Working
      <3>2. CASE pending' = [pending EXCEPT ![cur] = Upgrade(@, reason)]
        <4>1. pending'[cur] = Upgrade(pending[cur], reason)
          BY <1>2, <3>2 DEF IInv, TypeOK
        <4> QED
          BY <2>1, <4>1, Upgraded, NotNone, Priorities DEF Working
      <3> QED
        BY <2>2, <3>1, <3>2
    <2>5. \A t \in Tickers : t = cur => OrderFitsPosition(t)' /\ UrgentExitWorks(t)'
      BY <1>2, <2>3, <2>4, UrgentWorks DEF Fitting
    <2> QED
      BY <2>3, <2>5, DecidedKeeps
  <1> QED
    BY <1>4, <1>5

LEMMA DecideKeeps == IInv /\ UNCHANGED settings /\ Decide => IInv'
  <1> SUFFICES ASSUME IInv, UNCHANGED settings, Decide PROVE IInv'
    OBVIOUS
  <1>1. pc = "decide"
    BY DEF Decide
  <1>2. /\ cur \in Tickers /\ Quote.bid \in Nat
        /\ positions[cur] \in Position \cup {None} /\ pending[cur] \in Order \cup {None}
    BY <1>1, InTick DEF Marked, Quote, IInv, TypeOK
  <1> DEFINE reason == IF positions[cur] = None THEN "none"
                       ELSE ExitReason(positions[cur], Quote.bid, decision_at)
  <1>3. CASE UNCHANGED trading /\ (cur \in Working("BUY") \/ positions[cur] = None)
    <2>1. UNCHANGED <<positions, pending>> /\ Held' = Held /\ Critical' = Critical
          /\ ExposureLimits'
      BY <1>3, SameTrading DEF trading, IInv, Sound
    <2>2. cur \notin Held
      BY <1>2, <1>3 DEF IInv, Sound, Fitting, OrderFitsPosition, Working, Held
    <2>3. \A t \in Tickers : t = cur => OrderFitsPosition(t)' /\ UrgentExitWorks(t)'
      BY <1>2, <2>1, <2>2
         DEF IInv, Sound, Fitting, OrderFitsPosition, UrgentExitWorks
    <2> QED
      BY <2>1, <2>3, DecidedKeeps DEF IInv, TypeOK
  <1>4. CASE cur \notin Working("BUY") /\ reason # "none" /\ DecideExit(reason)
    <2>1. positions[cur] # None /\ reason = ExitReason(positions[cur], Quote.bid, decision_at)
          /\ reason \in {"stop", "time", "profit"}
      BY <1>4 DEF ExitReason
    <2> HIDE DEF reason
    <2> QED
      BY <1>4, <2>1, DecideExitKeeps
  <1>5. CASE /\ cur \notin Working("BUY") /\ positions[cur] # None /\ reason = "none"
             /\ positions' = [positions EXCEPT ![cur].peak = Peak(positions[cur], Quote.bid)]
             /\ pending' = pending
    <2>1. positions[cur] \in Position
      BY <1>2, <1>5
    <2>2. Peak(positions[cur], Quote.bid) \in Int
      BY <1>2, <2>1 DEF Peak, Most, Position
    <2>3. /\ positions' \in [Tickers -> Position \cup {None}]
          /\ Critical' = Critical /\ Fitting' /\ ExposureLimits'
          /\ \A t \in Tickers \ {cur} : positions'[t] = positions[t]
          /\ positions'[cur].entry = positions[cur].entry
          /\ positions'[cur].opened = positions[cur].opened
      BY <1>2, <1>5, <2>1, <2>2, Judged, SameSettings
    <2>4. \A t \in Tickers : t = cur => UrgentExitWorks(t)'
      BY <1>5, <2>1, <2>3, UrgentWorks
    <2>5. \A t \in Tickers : t = cur => OrderFitsPosition(t)'
      BY <2>3 DEF Fitting
    <2> QED
      BY <1>5, <2>3, <2>4, <2>5, DecidedKeeps DEF IInv, TypeOK
  <1>6. CASE positions[cur] = None /\ pending[cur] = None /\ DecideEntry
    BY <1>6, DecideEntryKeeps
  <1> QED
    BY <1>3, <1>4, <1>5, <1>6 DEF Decide

-----------------------------------------------------------------------------
(* The invariant. *)

LEMMA Initial == Init => IInv
  <1> SUFFICES ASSUME Init PROVE IInv
    OBVIOUS
  <1>1. settings \in Settings /\ tripped = FALSE
    BY DEF Init
  <1>2. tripped \in BOOLEAN /\ ~tripped
    BY <1>1, Zenon
  <1>3. Held = {} /\ Working("BUY") = {} /\ Critical = {}
    BY DEF Init, Held, Working, Critical
  <1>4. 0 \in 0 .. MaxTime /\ 0 \in Days /\ 1 \in 1 .. MaxStarts /\ 0 \in 0 .. MaxErrors
    BY <1>1, SettingsTypes, PaperEngineAssumption DEF Days
  <1>5. TypeOK
    BY <1>2, <1>4, SettingsTypes DEF Init, TypeOK
  <1>6. ExposureLimits
    BY <1>1, <1>3, FS_EmptySet, SettingsTypes DEF ExposureLimits
  <1>7. ExposedIsObserved /\ Fitting /\ Exiting
    BY <1>3 DEF Init, ExposedIsObserved, Fitting, Exiting, OrderFitsPosition, UrgentExitWorks
  <1>8. Ticking /\ Tripping /\ Allowed /\ RealizedMatchesLedger
    BY <1>2, <1>4 DEF Init, Ticking, Tripping, Allowed, RealizedMatchesLedger, Idle, Marked
  <1> QED
    BY <1>1, <1>5, <1>6, <1>7, <1>8 DEF IInv, Sound

LEMMA Inductive == IInv /\ [Next]_vars => IInv'
  <1> SUFFICES ASSUME IInv, [Next]_vars PROVE IInv'
    OBVIOUS
  <1>1. CASE UNCHANGED vars
    <2>1. UNCHANGED settings /\ UNCHANGED <<positions, pending>> /\ Held' = Held
          /\ Critical' = Critical /\ \A side : Working(side)' = Working(side)
      BY <1>1, SameTrading DEF vars
    <2>2. TypeOK'
      BY <1>1, <2>1, SameSettings DEF vars, IInv, TypeOK
    <2>3. Due' = Due /\ LossLimitHit' = LossLimitHit
      BY <1>1, <2>1
         DEF vars, Due, LossLimitHit, Unvalued, TotalPnl, RealizedAt, OpenPnl, StaleAfter,
             MaxLoss
    <2>4. Ticking' /\ Tripping' /\ Allowed' /\ RealizedMatchesLedger'
      BY <1>1, <2>1, <2>3, SameSettings
         DEF vars, IInv, Sound, Ticking, Tripping, Allowed, RealizedMatchesLedger
    <2>5. Fitting' /\ ExposureLimits' /\ ExposedIsObserved'
      BY <1>1, <2>1, SameTrading DEF vars, IInv, Sound, Fitting, ExposedIsObserved
    <2>6. Exiting'
      BY <1>1, <2>1, SameUrgency DEF vars, IInv, Sound, Exiting
    <2> QED
      BY <1>1, <2>2, <2>4, <2>5, <2>6 DEF vars, IInv, Sound
  <1>2. CASE Next
    BY <1>2, EvidenceKeeps, ObserveFailsKeeps, RelationFailsKeeps, RequoteKeeps,
       EndSweepKeeps, MarkKeeps, DueSellKeeps, DueBuyKeeps, IocKeeps, RevalueKeeps,
       DecideKeeps, InterruptKeeps, SafeShutdownKeeps, RestartKeeps
       DEF Next, Step
  <1> QED
    BY <1>1, <1>2

LEMMA Invariance == Spec => []IInv
  BY Initial, Inductive, PTL DEF Spec

-----------------------------------------------------------------------------
(* Theorems. *)

\* A working exit covers exactly what is held, and between ticks a position at
\* its stop or past its maximum hold has the exit that closes it: no order in
\* which quotes, fills, upgrades and halts come leaves it without.
THEOREM ExitsCover == Spec => []ExitsCoverPositions
  <1>1. IInv => ExitsCoverPositions
    BY DEF IInv, Sound, Fitting, Exiting, ExitsCoverPositions, Marked
  <1> QED
    BY <1>1, Invariance, PTL

\* Positions and entries under way never exceed max_open_positions, and no two
\* exposed markets share an event, although fills come after the checks.
THEOREM ExposureIsLimited == Spec => []ExposureLimits
  <1>1. IInv => ExposureLimits
    BY DEF IInv, Sound
  <1> QED
    BY <1>1, Invariance, PTL

\* check_staleness never quarantines an exposed or pending market: it trips.
THEOREM ExposureIsObserved == Spec => []ExposedIsObserved
  <1>1. IInv => ExposedIsObserved
    BY DEF IInv, Sound
  <1> QED
    BY <1>1, Invariance, PTL

\* The realized P&L the loss limit reads is what the ledger file holds for its
\* UTC day, whatever days the quote, the decision and the restart fall on.
THEOREM RealizedIsLedger == Spec => []RealizedMatchesLedger
  <1>1. IInv => RealizedMatchesLedger
    BY DEF IInv, Sound
  <1> QED
    BY <1>1, Invariance, PTL

-----------------------------------------------------------------------------
(* What a step may not do. *)

\* The steps in which orders or positions change are those of a tick, the
\* shutdown and the restart.
LEMMA OthersLeaveTrading ==
    ASSUME [Next]_vars, ~DueSell, ~DueBuy, ~Ioc, ~Decide, ~SafeShutdown, ~Restart
    PROVE  UNCHANGED <<positions, pending>>
  BY DEF Next, Step, Evidence, ObserveFails, RelationFails, Requote, EndSweep, Mark, Revalue,
         Interrupt, trading, vars

\* A tick touches the order and the position of its ticker.
LEMMA TickTouchesCur ==
    ASSUME IInv, DueSell \/ DueBuy \/ Ioc \/ Decide
    PROVE  \A t \in Tickers \ {cur} : positions'[t] = positions[t] /\ pending'[t] = pending[t]
  <1>1. positions \in [Tickers -> Position \cup {None}]
        /\ pending \in [Tickers -> Order \cup {None}]
    BY DEF IInv, TypeOK
  <1>2. CASE DueSell \/ DueBuy
    BY <1>1, <1>2 DEF DueSell, DueBuy, trading
  <1>3. CASE Ioc
    BY <1>1, <1>3 DEF Ioc, Bought, Sold, trading
  <1>4. CASE Decide
    BY <1>1, <1>4 DEF Decide, DecideExit, DecideEntry, Submitted, trading
  <1> QED
    BY <1>2, <1>3, <1>4

\* An exit that is judged again keeps its due time and loses no urgency.
Kept(t) ==
    IF pending'[t] = None
    THEN pc = "halt" \/ pending[t].due <= quote_ts
    ELSE /\ pending'[t].due = pending[t].due
         /\ Priority(pending'[t].reason) >= Priority(pending[t].reason)

LEMMA SameIsKept ==
    ASSUME NEW t, pending[t] # None, pending'[t] = pending[t]
    PROVE  Kept(t)
  <1>1. Priority(pending[t].reason) \in 0 .. 2
    BY Priorities
  <1> QED
    BY <1>1 DEF Kept

LEMMA UpgradedIsKept ==
    ASSUME IInv, cur \in Working("SELL"), NEW reason \in {"stop", "time", "profit"},
           Priority(reason) > Priority(pending[cur].reason),
           pending' = [pending EXCEPT ![cur] = Upgrade(@, reason)]
    PROVE  Kept(cur)
  <1>1. cur \in Tickers /\ pending[cur] \in Order
    BY DEF Working, IInv, TypeOK
  <1>2. pending'[cur] = Upgrade(pending[cur], reason)
    BY <1>1 DEF IInv, TypeOK
  <1>3. Priority(reason) \in 0 .. 2 /\ Priority(pending[cur].reason) \in 0 .. 2
    BY Priorities
  <1>4. pending'[cur] # None /\ pending'[cur].due = pending[cur].due
        /\ pending'[cur].reason = reason
    BY <1>1, <1>2, Upgraded, NotNone
  <1> QED
    BY <1>3, <1>4 DEF Kept

LEMMA ExitsAreKept == IInv /\ [Next]_vars => \A t \in Working("SELL") : Kept(t)
  <1> SUFFICES ASSUME IInv, [Next]_vars, NEW t \in Working("SELL") PROVE Kept(t)
    OBVIOUS
  <1>1. t \in Tickers /\ pending[t] # None /\ pending[t].side = "SELL"
    BY DEF Working
  <1>2. CASE DueSell \/ DueBuy \/ Ioc \/ Decide
    <2>1. CASE t # cur
      BY <1>1, <1>2, <2>1, TickTouchesCur, SameIsKept
    <2>2. CASE t = cur /\ DueSell
      <3>1. CASE pending' = pending
        BY <1>1, <3>1, SameIsKept
      <3>2. CASE pending' # pending
        <4> DEFINE reason == ExitReason(positions[cur], Quote.bid, quote_ts)
        <4>1. /\ pending' = [pending EXCEPT ![cur] = Upgrade(@, reason)]
              /\ Priority(reason) > Priority(pending[cur].reason) /\ reason # "none"
          BY <2>2, <3>2 DEF DueSell, trading
        <4>2. reason \in {"stop", "time", "profit"}
          BY <4>1 DEF ExitReason
        <4> HIDE DEF reason
        <4> QED
          BY <2>2, <4>1, <4>2, UpgradedIsKept
      <3> QED
        BY <3>1, <3>2
    <2>3. CASE t = cur /\ DueBuy
      BY <1>1, <2>3 DEF DueBuy, IInv, Sound, Ticking
    <2>4. CASE t = cur /\ Ioc
      <3>1. CASE ~Due
        BY <1>1, <2>4, <3>1, SameIsKept DEF Ioc, trading
      <3>2. CASE Due
        <4>1. pending' = [pending EXCEPT ![cur] = None] /\ pending[cur].due <= quote_ts
          BY <2>4, <3>2 DEF Ioc, Due
        <4> QED
          BY <1>1, <2>4, <4>1 DEF IInv, TypeOK, Kept
      <3> QED
        BY <3>1, <3>2
    <2>5. CASE t = cur /\ Decide
      <3>1. cur \notin Working("BUY") /\ pending[cur] # None
        BY <1>1, <2>5 DEF Working
      <3>2. CASE pending' = pending
        BY <1>1, <3>2, SameIsKept
      <3>3. CASE pending' # pending
        <4> DEFINE reason == ExitReason(positions[cur], Quote.bid, decision_at)
        <4>1. /\ pending' = [pending EXCEPT ![cur] = Upgrade(@, reason)]
              /\ Priority(reason) > Priority(pending[cur].reason) /\ reason # "none"
          BY <2>5, <3>1, <3>3 DEF Decide, DecideExit, trading
        <4>2. reason \in {"stop", "time", "profit"}
          BY <4>1 DEF ExitReason
        <4> HIDE DEF reason
        <4> QED
          BY <2>5, <4>1, <4>2, UpgradedIsKept
      <3> QED
        BY <3>2, <3>3
    <2> QED
      BY <1>2, <2>1, <2>2, <2>3, <2>4, <2>5
  <1>3. CASE SafeShutdown
    BY <1>1, <1>3 DEF SafeShutdown, Kept
  <1>4. CASE Restart
    BY <1>1, <1>4 DEF Restart, IInv, Sound, Ticking
  <1>5. CASE ~(DueSell \/ DueBuy \/ Ioc \/ Decide \/ SafeShutdown \/ Restart)
    BY <1>1, <1>5, OthersLeaveTrading, SameIsKept
  <1> QED
    BY <1>2, <1>3, <1>4, <1>5

\* upgrade_pending_paper_exit never pays the latency again and never downgrades;
\* a working exit ends at its one attempt or at the shutdown.
THEOREM ExitsAreNotDelayed == Spec => ExitNeverDelayed
  <1>1. IInv /\ [Next]_vars => [\A t \in Working("SELL") :
          IF pending'[t] = None
          THEN pc = "halt" \/ pending[t].due <= quote_ts
          ELSE /\ pending'[t].due = pending[t].due
               /\ Priority(pending'[t].reason) >= Priority(pending[t].reason)]_vars
    BY ExitsAreKept DEF Kept
  <1> QED
    BY <1>1, Invariance, PTL DEF Spec, ExitNeverDelayed

Entered(t) ==
    \/ positions[t] = None /\ positions'[t] # None
    \/ t \notin Working("BUY") /\ t \in Working("BUY")'

LEMMA EntriesAreAllowed ==
    ASSUME IInv, [Next]_vars, NEW t \in Tickers, Entered(t)
    PROVE  ~LossLimitHit
  <1>1. positions \in [Tickers -> Position \cup {None}]
        /\ pending \in [Tickers -> Order \cup {None}]
    BY DEF IInv, TypeOK
  <1>2. CASE Decide
    BY <1>2 DEF Decide, IInv, Sound, Allowed
  <1>3. CASE Ioc
    <2>1. Due
      BY <1>3 DEF Entered, Working, Ioc, trading
    <2>2. pending' = [pending EXCEPT ![cur] = None] /\ cur \in Tickers /\ pc = "ioc"
      BY <1>3, <2>1, DueOrder DEF Ioc
    <2>3. t \notin Working("BUY")' \/ t \in Working("BUY")
      BY <1>1, <2>2 DEF Working
    <2>4. positions[t] = None /\ positions'[t] # None
      BY <2>3 DEF Entered
    <2>5. t = cur
      BY <1>3, <2>4, TickTouchesCur
    <2>6. pending[cur] \in Order /\ (pending[cur].side = "SELL" => positions[cur] \in Position)
      BY <2>1, <2>2, DueOrder
    <2>7. pending[cur].side = "BUY"
      BY <2>4, <2>5, <2>6, NotNone DEF Order
    <2> QED
      BY <2>1, <2>2, <2>6, <2>7, NotNone DEF IInv, Sound, Allowed, Working
  <1>4. CASE DueSell
    <2>1. t = cur
      BY <1>4, TickTouchesCur DEF Entered, Working
    <2>2. pending'[cur] = pending[cur] \/ pending'[cur].side = "SELL"
      <3>1. cur \in Working("SELL") /\ pending[cur] \in Order /\ cur \in Tickers
        BY <1>1, <1>4, <2>1, NotNone DEF DueSell, IInv, Sound, Ticking, Due, Working
      <3>2. CASE pending' # pending
        <4> DEFINE reason == ExitReason(positions[cur], Quote.bid, quote_ts)
        <4>1. pending' = [pending EXCEPT ![cur] = Upgrade(@, reason)] /\ reason # "none"
          BY <1>4, <3>2 DEF DueSell, trading
        <4>2. reason \in {"stop", "time", "profit"}
          BY <4>1 DEF ExitReason
        <4> HIDE DEF reason
        <4>3. pending'[cur] = Upgrade(pending[cur], reason)
          BY <1>1, <3>1, <4>1
        <4> QED
          BY <3>1, <4>2, <4>3, Upgraded DEF Working
      <3> QED
        BY <3>2
    <2>3. positions[cur] = None => positions' = positions
      BY <1>4 DEF DueSell, trading
    <2> QED
      BY <2>1, <2>2, <2>3 DEF Entered, Working
  <1>5. CASE DueBuy
    BY <1>1, <1>5 DEF DueBuy, Entered, Working
  <1>6. CASE SafeShutdown \/ Restart
    BY <1>6 DEF SafeShutdown, Restart, Entered, Working
  <1>7. CASE ~(DueSell \/ DueBuy \/ Ioc \/ Decide \/ SafeShutdown \/ Restart)
    BY <1>7, OthersLeaveTrading DEF Entered, Working
  <1> QED
    BY <1>2, <1>3, <1>4, <1>5, <1>6, <1>7

\* check_loss_limit stands between every quote and every entry: none is sent or
\* filled while the limit is breached or an open position cannot be valued.
THEOREM EntriesRespectLimit == Spec => EntriesRespectLossLimit
  <1>1. IInv /\ [Next]_vars => [\A t \in Tickers :
          \/ positions[t] = None /\ positions'[t] # None
          \/ t \notin Working("BUY") /\ t \in Working("BUY")'
          => ~LossLimitHit]_vars
    BY EntriesAreAllowed DEF Entered
  <1> QED
    BY <1>1, Invariance, PTL DEF Spec, EntriesRespectLossLimit

=============================================================================
