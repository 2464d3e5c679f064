---------------------------- MODULE PaperEngine ----------------------------
(***************************************************************************)
(* Paper trading of the v6 bot: the sweep of bot.run_loop, process_tick    *)
(* with the delayed immediate-or-cancel orders of Executor, the exits of   *)
(* ScalpStrategy, its UTC-day P&L ledger, and Safety.                      *)
(*                                                                         *)
(* The program is one thread.  Steps are the places where the clock moves  *)
(* or a signal may end the tick: the evidence quote, the execution quote,  *)
(* and the stages of process_tick.  Tickers of a sweep come in any order.  *)
(* Score gate, sibling spike, close horizon and dip are inputs: what they  *)
(* allow is chosen anew at every tick.  Prices are cents; fees are a fixed *)
(* amount per contract and side.                                           *)
(***************************************************************************)
EXTENDS Integers, FiniteSets, Functions

CONSTANTS Tickers,
          Settings,         \* bound: the configurations and quotes tried
          MinPrice, MaxPrice, MaxSpread,
          StopLoss, TakeProfit, Trail, MaxHold,
          Latency,          \* sim_latency_s
          FillTimeout,      \* fill_timeout_s
          Slippage, Fee,
          DayLength

ASSUME PaperEngineAssumption ==
    /\ IsFiniteSet(Tickers)
    /\ {StopLoss, TakeProfit, MaxHold, DayLength} \subseteq Nat \ {0}
    /\ {Latency, FillTimeout, Trail, Fee, Slippage} \subseteq Nat

(* A quote shows both sides, with a size (get_quote).                      *)
Books == [bid : Nat, bidQty : Nat \ {0}, ask : Nat, askQty : Nat \ {0}]

ASSUME SettingsAssumption ==
    \A s \in Settings :
        /\ s.markets \subseteq Tickers /\ s.books \subseteq Books
        /\ {s.max_open, s.max_loss, s.stale_data, s.until} \subseteq Nat
        /\ {s.contracts, s.max_errors, s.starts} \subseteq Nat \ {0}

VARIABLES
    now,            \* the clock
    book,           \* feed.last_book
    last_good,      \* feed.last_good
    latest_bid,     \* ctx.latest_bid
    bid_ts,         \* ctx.bid_ts
    positions,      \* strategy.positions
    pending,        \* executor.pending_paper, by ticker
    realized,       \* strategy.realized_pnl
    ledger_day,     \* strategy._ledger_day
    ledger,         \* the ledger file: the sum of every UTC day
    quarantined, per_ticker, tripped,       \* Safety
    pc, cur,        \* where the loop is, and with which ticker
    quote_ts, decision_at,                  \* of the tick being processed
    seen,           \* history: decision time of each ticker's last tick
    starts,
    settings        \* input: the markets discovered, the event of every
                    \* ticker (group_by_event), the quotes the exchange may
                    \* show, the limits of the configuration, and bounds on
                    \* the clock (until) and on the process starts

clock  == <<now, quote_ts, decision_at>>
feed   == <<book, last_good>>
marks  == <<latest_bid, bid_ts>>
trading == <<positions, pending>>
pnl    == <<realized, ledger_day, ledger>>
safety == <<quarantined, per_ticker, tripped>>
vars == <<now, book, last_good, latest_bid, bid_ts, positions, pending, realized,
          ledger_day, ledger, quarantined, per_ticker, tripped, pc, cur,
          quote_ts, decision_at, seen, starts, settings>>

None == [none |-> TRUE]
Markets == settings.markets
MaxLoss == settings.max_loss
Contracts == settings.contracts
StaleAfter == settings.stale_data
MaxErrors == settings.max_errors
MaxTime == settings.until
MaxStarts == settings.starts
Days == 0 .. (MaxTime \div DayLength)
Day(ts) == ts \div DayLength
NoBook == [bid |-> 0, bidQty |-> 0, ask |-> 0, askQty |-> 0]
Least(a, b) == IF a < b THEN a ELSE b
Most(a, b) == IF a < b THEN b ELSE a

Held == {t \in Tickers : positions[t] # None}
Working(side) == {t \in Tickers : pending[t] # None /\ pending[t].side = side}
Critical == Held \cup {t \in Tickers : pending[t] # None}

(* _exit_priority *)
Priority(reason) == CASE reason = "stop" -> 2 [] reason = "time" -> 1 [] OTHER -> 0

Init ==
    /\ settings \in Settings
    /\ now = 0 /\ quote_ts = 0 /\ decision_at = 0
    /\ book = [t \in Tickers |-> NoBook]
    /\ last_good = [t \in Tickers |-> 0]
    /\ latest_bid = [t \in Tickers |-> 0] /\ bid_ts = [t \in Tickers |-> -1]
    /\ positions = [t \in Tickers |-> None]
    /\ pending = [t \in Tickers |-> None]
    /\ realized = 0 /\ ledger_day = 0 /\ ledger = [d \in Days |-> 0]
    /\ quarantined = {} /\ per_ticker = [t \in Tickers |-> 0] /\ tripped = FALSE
    /\ pc = "sweep" /\ cur = None
    /\ seen = [t \in Tickers |-> -1]
    /\ starts = 1

-----------------------------------------------------------------------------
(* Safety. *)

(* check_staleness, at time ts: an exposed or pending market that is       *)
(* quarantined or stale trips the halt; other stale markets are            *)
(* quarantined; with none left the halt trips.                             *)
CheckStalenessNonCritical(ts, good, excluded) ==      \* mutant: no one is critical
    LET stale == {t \in Markets \ excluded : ts - good[t] > StaleAfter}
    IN  /\ quarantined' = excluded \cup stale
        /\ tripped' = (tripped \/ Markets \subseteq quarantined')
CheckStaleness(ts, good, excluded) ==
    LET stale == {t \in Markets \ excluded : ts - good[t] > StaleAfter}
    IN  IF Critical \cap (excluded \cup stale) # {}
        THEN tripped' = TRUE /\ quarantined' = excluded
        ELSE /\ quarantined' = excluded \cup stale
             /\ tripped' = (tripped \/ Markets \subseteq quarantined')

(* observe succeeded: a quote at time ts. *)
Quoted(t, b, ts) ==
    /\ book' = [book EXCEPT ![t] = b]
    /\ last_good' = [last_good EXCEPT ![t] = ts]
    /\ per_ticker' = [per_ticker EXCEPT ![t] = 0]
    /\ CheckStaleness(ts, last_good', quarantined)

(* observe failed.  An exposed or pending market trips the halt; an        *)
(* unavailable one is quarantined; authentication, rate-limit and schema   *)
(* errors trip; other errors quarantine once they persist.                 *)
QuoteFailed(t, error, ts) ==
    LET count == IF error = "transient" /\ t \notin Critical
                 THEN per_ticker[t] + 1 ELSE per_ticker[t]
        gone  == t \notin Critical
                 /\ \/ error = "unavailable"
                    \/ error = "transient" /\ count >= MaxErrors
    IN  /\ per_ticker' = [per_ticker EXCEPT ![t] = Least(count, MaxErrors)]
        /\ IF t \in Critical \/ error = "fatal"
           THEN tripped' = TRUE /\ quarantined' = quarantined
           ELSE CheckStaleness(ts, last_good,
                               IF gone THEN quarantined \cup {t} ELSE quarantined)

After(next) == pc' = IF tripped' THEN "halt" ELSE next
EndPackage == cur' = None /\ quote_ts' = 0 /\ decision_at' = 0

-----------------------------------------------------------------------------
(* run_loop. *)

Evidence(t) ==
    /\ pc = "sweep" /\ t \notin quarantined
    /\ cur' = t
    /\ \E b \in settings.books, d \in 0 .. 1 :
          /\ now + d <= MaxTime
          /\ now' = now + d
          /\ Quoted(t, b, now')
    /\ After("requote")
    /\ UNCHANGED <<quote_ts, decision_at, marks, trading, pnl, seen, starts>>

(* The execution quote, and the decision time, which may be later. *)
Requote ==
    /\ pc = "requote"
    /\ \E b \in settings.books, d \in 0 .. 1 :
          /\ now + d <= MaxTime
          /\ quote_ts' = now /\ decision_at' = now + d /\ now' = now + d
          /\ Quoted(cur, b, now)
    /\ After("due")
    /\ UNCHANGED <<cur, marks, trading, pnl, seen, starts>>

(* Either quote fails: the package is incomplete and decides nothing. *)
ObserveFails(t) ==
    /\ \/ pc = "sweep" /\ t \notin quarantined
       \/ pc = "requote" /\ t = cur
    /\ \E error \in {"transient", "unavailable", "fatal"} : QuoteFailed(t, error, now)
    /\ After("sweep") /\ EndPackage
    /\ UNCHANGED <<now, feed, marks, trading, pnl, seen, starts>>

(* Sibling provenance is missing: counted, unless the market is critical. *)
RelationFails(t) ==
    /\ pc = "sweep" /\ t \notin quarantined /\ t \notin Critical
    /\ per_ticker' = [per_ticker EXCEPT ![t] = Least(@ + 1, MaxErrors)]
    /\ quarantined' = IF per_ticker[t] + 1 >= MaxErrors
                      THEN quarantined \cup {t} ELSE quarantined
    /\ UNCHANGED <<clock, cur, feed, marks, trading, pnl, tripped, pc, seen, starts>>

(* The end of a sweep, and the sleep until the next. *)
EndSweep ==
    /\ pc = "sweep" /\ now < MaxTime
    /\ CheckStaleness(now, last_good, quarantined)
    /\ After("sweep")
    /\ now' = now + 1
    /\ UNCHANGED <<quote_ts, decision_at, cur, feed, marks, trading, pnl,
                   per_ticker, seen, starts>>

-----------------------------------------------------------------------------
(* P&L and the loss limit. *)

(* refresh_daily_pnl *)
RealizedAt(ts) == IF Day(ts) = ledger_day THEN realized ELSE ledger[Day(ts)]

(* open_pnl_usd: what is executable at the last bid, less the cost. *)
OpenPnl(t) ==
    LET p == positions[t]
        executable == Least(p.contracts, book[t].bidQty)
    IN  (Most(0, latest_bid[t] - Slippage) - Fee) * executable
        - (p.entry + Fee) * p.contracts
TotalPnl(ts) == RealizedAt(ts) + SumFunction([t \in Held |-> OpenPnl(t)])

Unvalued == {t \in Held : bid_ts[t] < 0 \/ now - bid_ts[t] > StaleAfter}
LossLimitHit == Unvalued # {} \/ TotalPnl(now) <= -MaxLoss

(* check_loss_limit *)
CheckLossLimit ==
    /\ realized' = RealizedAt(now) /\ ledger_day' = Day(now)
    /\ tripped' = (tripped \/ LossLimitHit)

-----------------------------------------------------------------------------
(* check_exit: the stop first, then the maximum hold, then the trailing    *)
(* take-profit; the peak bid is remembered.                                *)

Peak(p, bid) == Most(p.peak, bid)
ExitReasonProfitFirst(p, bid, ts) ==     \* mutant: an armed take-profit wins
    LET move == bid - p.entry
        armed == Peak(p, bid) - p.entry >= TakeProfit
    IN  IF move <= -StopLoss THEN "stop"
        ELSE IF armed /\ move >= TakeProfit THEN "profit"
        ELSE IF ts - p.opened >= MaxHold THEN "time"
        ELSE "none"
ExitReason(p, bid, ts) ==
    LET move == bid - p.entry
        armed == Peak(p, bid) - p.entry >= TakeProfit
        given == Peak(p, bid) - bid
    IN  IF move <= -StopLoss THEN "stop"
        ELSE IF ts - p.opened >= MaxHold THEN "time"
        ELSE IF armed /\ move >= TakeProfit /\ (Trail = 0 \/ given >= Trail)
             THEN "profit"
        ELSE "none"

(* upgrade_pending_paper_exit: retagged, with its due time kept. *)
UpgradeRestartsClock(order, reason) ==   \* mutant: latency is paid again
    [order EXCEPT !.reason = reason, !.limit = -1, !.due = @ + Latency]
Upgrade(order, reason) == [order EXCEPT !.reason = reason, !.limit = -1]

(* submit_paper: one order per ticker; a stop or time exit has no limit. *)
Submitted(t, side, count, reason) ==
    IF pending[t] # None THEN pending
    ELSE [pending EXCEPT ![t] =
            [side |-> side, contracts |-> count, reason |-> reason,
             due |-> decision_at + Latency,
             limit |-> IF reason \in {"stop", "time"} THEN -1
                       ELSE IF side = "BUY" THEN book[t].ask ELSE book[t].bid]]

-----------------------------------------------------------------------------
(* process_tick on ticker cur. *)

Quote == book[cur]
Due == pending[cur] # None /\ pending[cur].due <= quote_ts

MarkBid ==
    /\ latest_bid' = [latest_bid EXCEPT ![cur] = Quote.bid]
    /\ bid_ts' = [bid_ts EXCEPT ![cur] = quote_ts]

Mark ==
    /\ pc = "due"
    /\ MarkBid
    /\ pc' = IF ~Due THEN "ioc"
             ELSE IF pending[cur].side = "SELL" THEN "due_sell" ELSE "due_buy"
    /\ UNCHANGED <<clock, cur, feed, trading, pnl, safety, seen, starts>>

(* A due exit is judged again at the quote's own time before it may fill. *)
DueSell ==
    /\ pc = "due_sell" /\ pc' = "ioc"
    /\ LET p == positions[cur]
           reason == ExitReason(p, Quote.bid, quote_ts)
       IN  IF p = None THEN UNCHANGED trading
           ELSE /\ positions' = [positions EXCEPT ![cur].peak = Peak(p, Quote.bid)]
                /\ pending' = IF reason # "none"
                                 /\ Priority(reason) > Priority(pending[cur].reason)
                              THEN [pending EXCEPT ![cur] = Upgrade(@, reason)]
                              ELSE pending
    /\ UNCHANGED <<clock, cur, feed, marks, pnl, safety, seen, starts>>

(* _same_event_exposure *)
EventBusyHeldOnly(t) == \E u \in Held \ {t} : settings.event[u] = settings.event[t]   \* mutant
EventBusy(t) == \E u \in Critical \ {t} : settings.event[u] = settings.event[t]

PriceOk(b) == b.ask \in MinPrice .. MaxPrice /\ b.ask - b.bid <= MaxSpread

(* A due entry is judged again, the loss limit first; a block cancels it.  *)
(* clear: close horizon, score gate and siblings allow it.                 *)
DueBuyUnvalued ==               \* mutant: the loss limit is not consulted
    /\ pc = "due_buy" /\ pc' = "ioc"
    /\ \E clear \in BOOLEAN :
          pending' = IF ~PriceOk(Quote) \/ EventBusy(cur) \/ ~clear
                     THEN [pending EXCEPT ![cur] = None] ELSE pending
    /\ UNCHANGED <<clock, cur, feed, marks, positions, pnl, safety, seen, starts>>
DueBuy ==
    /\ pc = "due_buy" /\ pc' = "ioc"
    /\ CheckLossLimit
    /\ \E clear \in BOOLEAN :
          pending' = IF tripped' \/ ~PriceOk(Quote) \/ EventBusy(cur) \/ ~clear
                     THEN [pending EXCEPT ![cur] = None] ELSE pending
    /\ UNCHANGED <<clock, cur, feed, marks, positions, ledger, quarantined,
                   per_ticker, seen, starts>>

(* _paper_fill: contracts and price of the one attempt; 0 if none.  The    *)
(* edge of a BUY depends on fees and size and is an input.                 *)
FillPrice(order) ==
    IF order.side = "BUY" THEN Quote.ask
    ELSE IF order.reason = "stop" THEN Most(0, Quote.bid - Slippage) ELSE Quote.bid
FillCount(order, edge) ==
    LET depth == IF order.side = "BUY" THEN Quote.askQty ELSE Quote.bidQty
        filled == Least(order.contracts, depth)
    IN  CASE quote_ts > order.due + FillTimeout -> 0
          [] order.side = "BUY" ->
                IF Quote.ask <= order.limit /\ edge THEN filled ELSE 0
          [] order.reason \in {"stop", "time"} -> filled
          [] OTHER ->
                IF Quote.bid >= order.limit
                   /\ Quote.bid - positions[cur].entry > 2 * Fee
                THEN filled ELSE 0

(* record_fill at the decision time; a SELL is added to the realized P&L   *)
(* and to the ledger of its day.                                           *)
Bought(count, price) ==
    /\ positions' = [positions EXCEPT ![cur] =
          [entry |-> price, contracts |-> count, opened |-> decision_at,
           peak |-> -1]]
    /\ realized' = RealizedAt(decision_at) /\ ledger_day' = Day(decision_at)
    /\ UNCHANGED <<ledger, tripped>>

Gain(count, price) == (price - positions[cur].entry - 2 * Fee) * count

Remaining(p, count) == IF p.contracts = count THEN None
                       ELSE [p EXCEPT !.contracts = @ - count]

SoldAtQuoteTime(count, price) ==     \* mutant: booked on the quote's day
    /\ realized' = RealizedAt(decision_at) + Gain(count, price)
    /\ ledger_day' = Day(decision_at)
    /\ ledger' = [ledger EXCEPT ![Day(quote_ts)] = @ + Gain(count, price)]
    /\ positions' = [positions EXCEPT ![cur] = Remaining(@, count)]
    /\ UNCHANGED tripped
Sold(count, price) ==
    /\ realized' = RealizedAt(decision_at) + Gain(count, price)
    /\ ledger_day' = Day(decision_at)
    /\ \/ /\ ledger' = [ledger EXCEPT ![Day(decision_at)] = @ + Gain(count, price)]
          /\ positions' = [positions EXCEPT ![cur] = Remaining(@, count)]
          /\ UNCHANGED tripped
       \/ tripped' = TRUE /\ UNCHANGED <<ledger, positions>>    \* the write raised

(* process_due_paper_orders: filled or canceled, never kept. *)
Ioc ==
    /\ pc = "ioc"
    /\ IF ~Due THEN UNCHANGED <<trading, pnl, tripped>>
       ELSE /\ pending' = [pending EXCEPT ![cur] = None]
            /\ \E edge \in BOOLEAN :
                  LET order == pending[cur]
                      count == FillCount(order, edge)
                  IN  IF count = 0 THEN UNCHANGED <<positions, pnl, tripped>>
                      ELSE IF order.side = "BUY"
                      THEN Bought(count, FillPrice(order))
                      ELSE Sold(count, FillPrice(order))
    /\ pc' = IF tripped' /\ ~tripped THEN "halt" ELSE "revalue"
    /\ UNCHANGED <<clock, cur, feed, marks, quarantined, per_ticker, seen, starts>>

Revalue ==
    /\ pc = "revalue"
    /\ CheckLossLimit
    /\ After("decide")
    /\ UNCHANGED <<clock, cur, feed, marks, trading, ledger, quarantined,
                   per_ticker, seen, starts>>

(* The rest of the tick: nothing while a BUY is pending; an exit signal    *)
(* upgrades the working SELL or submits one; otherwise an entry.           *)
EntryFits == Cardinality(Held) + Cardinality(Working("BUY")) < settings.max_open

DecideExit(reason) ==
    LET order == pending[cur]
        p == positions[cur]
    IN  /\ positions' = [positions EXCEPT ![cur].peak = Peak(p, Quote.bid)]
        /\ pending' =
              IF order = None
              THEN Submitted(cur, "SELL", p.contracts, reason)
              ELSE IF Priority(reason) > Priority(order.reason)
              THEN [pending EXCEPT ![cur] = Upgrade(@, reason)]
              ELSE pending

DecideEntry ==
    /\ EntryFits /\ PriceOk(Quote)
    /\ realized > -MaxLoss
    /\ ~EventBusy(cur)
    /\ pending' = Submitted(cur, "BUY", Least(Contracts, Quote.askQty), "dip")
    /\ positions' = positions

Decide ==
    LET p == positions[cur]
        reason == IF p = None THEN "none" ELSE ExitReason(p, Quote.bid, decision_at)
    IN  /\ pc = "decide" /\ pc' = "sweep"
        /\ seen' = [seen EXCEPT ![cur] = decision_at]
        /\ \/ cur \in Working("BUY") /\ UNCHANGED trading
           \/ cur \notin Working("BUY") /\ reason # "none" /\ DecideExit(reason)
           \/ /\ cur \notin Working("BUY") /\ p # None /\ reason = "none"
              /\ positions' = [positions EXCEPT ![cur].peak = Peak(p, Quote.bid)]
              /\ pending' = pending
           \/ p = None /\ pending[cur] = None /\ (DecideEntry \/ UNCHANGED trading)
        /\ EndPackage
        /\ UNCHANGED <<now, feed, marks, pnl, safety, starts>>

-----------------------------------------------------------------------------
(* A signal, or an exception, at any step. *)
Interrupt ==
    /\ pc \notin {"halt", "stopped"}
    /\ tripped' = TRUE /\ pc' = "halt" /\ EndPackage
    /\ UNCHANGED <<now, feed, marks, trading, pnl, quarantined,
                   per_ticker, seen, starts>>

(* safe_shutdown: pending paper orders are canceled, positions retained. *)
SafeShutdown ==
    /\ pc = "halt" /\ pc' = "stopped" /\ EndPackage
    /\ pending' = [t \in Tickers |-> None]
    /\ UNCHANGED <<now, feed, marks, positions, pnl, safety, seen, starts>>

(* A new session: the day's realized P&L is read back from the ledger. *)
Restart ==
    /\ pc = "stopped" /\ starts < MaxStarts
    /\ starts' = starts + 1
    /\ pc' = "sweep" /\ EndPackage
    /\ book' = [t \in Tickers |-> NoBook]
    /\ last_good' = [t \in Tickers |-> now]
    /\ latest_bid' = [t \in Tickers |-> 0] /\ bid_ts' = [t \in Tickers |-> -1]
    /\ positions' = [t \in Tickers |-> None]
    /\ pending' = [t \in Tickers |-> None]
    /\ realized' = ledger[Day(now)] /\ ledger_day' = Day(now)
    /\ quarantined' = {} /\ per_ticker' = [t \in Tickers |-> 0]
    /\ tripped' = FALSE
    /\ seen' = [t \in Tickers |-> -1]
    /\ UNCHANGED <<now, ledger>>

Step ==
    \/ \E t \in Markets : Evidence(t) \/ ObserveFails(t) \/ RelationFails(t)
    \/ Requote \/ EndSweep
    \/ Mark \/ DueSell \/ DueBuy \/ Ioc \/ Revalue \/ Decide
    \/ Interrupt \/ SafeShutdown \/ Restart

Next == Step /\ UNCHANGED settings

Spec == Init /\ [][Next]_vars

-----------------------------------------------------------------------------
(* Every variable has its type. *)
Order ==
    [side : {"BUY", "SELL"}, contracts : 1 .. Contracts,
     reason : {"dip", "stop", "time", "profit"}, due : Nat, limit : Int]
Position ==
    [entry : Nat, contracts : 1 .. Contracts, opened : 0 .. MaxTime, peak : Int]
TypeOK ==
    /\ now \in 0 .. MaxTime /\ quote_ts \in 0 .. MaxTime /\ decision_at \in 0 .. MaxTime
    /\ book \in [Tickers -> settings.books \cup {NoBook}]
    /\ last_good \in [Tickers -> 0 .. MaxTime]
    /\ latest_bid \in [Tickers -> Nat] /\ bid_ts \in [Tickers -> -1 .. MaxTime]
    /\ positions \in [Tickers -> Position \cup {None}]
    /\ pending \in [Tickers -> Order \cup {None}]
    /\ realized \in Int /\ ledger_day \in Days /\ ledger \in [Days -> Int]
    /\ quarantined \subseteq Tickers /\ per_ticker \in [Tickers -> 0 .. MaxErrors]
    /\ tripped \in BOOLEAN
    /\ pc \in {"sweep", "requote", "due", "due_sell", "due_buy", "ioc", "revalue",
               "decide", "halt", "stopped"}
    /\ cur \in Tickers \cup {None}
    /\ seen \in [Tickers -> -1 .. MaxTime]
    /\ starts \in 1 .. MaxStarts

(* Positions and delayed entries together never exceed                     *)
(* max_open_positions, and never are two markets of one event              *)
(* (one_contract_per_event), although fills come later than the checks.    *)
ExposureLimits ==
    /\ Cardinality(Held) + Cardinality(Working("BUY")) <= settings.max_open
    /\ \A t, u \in Critical : settings.event[t] = settings.event[u] => t = u

(* An exposed or pending market is never hidden by quarantine while the    *)
(* bot runs (critical_tickers, check_staleness).                           *)
ExposedIsObserved == tripped \/ Critical \cap quarantined = {}

(* A working exit covers exactly what is held, through partial fills and   *)
(* upgrades, and no entry works on a market that is held: an order cannot  *)
(* oversell or average in (submit_paper, record_fill).  And after a tick a *)
(* position past its maximum hold has a marketable exit working, and one   *)
(* at its stop a stop exit: an armed take-profit never stands in the way   *)
(* (check_exit, upgrade_pending_paper_exit).                               *)
OrderFitsPosition(t) ==
    pending[t] # None =>
        IF pending[t].side = "SELL"
        THEN t \in Held /\ pending[t].contracts = positions[t].contracts
        ELSE t \notin Held

UrgentExitWorks(t) ==
    t \in Held /\ seen[t] >= positions[t].opened =>
        LET priority == IF t \in Working("SELL")
                        THEN Priority(pending[t].reason) ELSE -1
        IN  /\ seen[t] - positions[t].opened >= MaxHold => priority >= 1
            /\ latest_bid[t] - positions[t].entry <= -StopLoss => priority = 2

ExitsCoverPositions ==
    /\ TypeOK
    /\ \A t \in Tickers : OrderFitsPosition(t)
    /\ pc = "sweep" /\ ~tripped => \A t \in Tickers : UrgentExitWorks(t)

(* The realized P&L is the ledger's sum for its day, across midnight,      *)
(* restarts and quotes older than their decision.                          *)
RealizedMatchesLedger ==
    pc \notin {"halt", "stopped"} => realized = ledger[ledger_day]

(* A working exit is never postponed or downgraded; it ends only when its  *)
(* time came, or at shutdown.                                              *)
ExitNeverDelayed ==
    [][\A t \in Working("SELL") :
          IF pending'[t] = None
          THEN pc = "halt" \/ pending[t].due <= quote_ts
          ELSE /\ pending'[t].due = pending[t].due
               /\ Priority(pending'[t].reason) >= Priority(pending[t].reason)]_vars

(* No entry is sent or filled at a moment when the loss limit is breached  *)
(* or an open position cannot be valued (check_loss_limit).                *)
EntriesRespectLossLimit ==
    [][\A t \in Tickers :
          \/ positions[t] = None /\ positions'[t] # None
          \/ t \notin Working("BUY") /\ t \in Working("BUY")'
          => ~LossLimitHit]_vars

=============================================================================
