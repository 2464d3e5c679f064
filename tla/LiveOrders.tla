----------------------------- MODULE LiveOrders -----------------------------
(***************************************************************************)
(* Real-order path of the v6 bot: Executor._live, OrderJournal,            *)
(* OrderResolver, Reconciler, flatten_all and safe_shutdown, with crashes, *)
(* signals and restarts.  Shipped configurations keep it locked; its code  *)
(* is complete and is what a reviewed unlock would run.                    *)
(*                                                                         *)
(* The exchange is external.  A create request is answered, lost, or       *)
(* accepted after its caller gave up, even after the process died; fills   *)
(* reach the fills and position endpoints late and independently.  Inci is *)
(* the account's only trader.  The reduce_only flag of a SELL is not       *)
(* relied upon: the modelled exchange does not enforce it.                 *)
(*                                                                         *)
(* A step is one durable write or one exchange observation; a crash fits   *)
(* between any two.  An order's id stands for both of its identifiers      *)
(* (client_order_id and order_id).  Prices are left out, so an entry of    *)
(* the P&L ledger is reduced to the contracts it closes.                   *)
(***************************************************************************)
EXTENDS Integers, Sequences, FiniteSets

CONSTANTS Tickers,
          MaxContracts,     \* contracts_per_trade
          FlattenRetries,   \* flatten_retries
          MaxOrders,        \* bound: orders ever submitted
          MaxStarts         \* bound: process starts

ASSUME LiveOrdersAssumption ==
    /\ IsFiniteSet(Tickers)
    /\ MaxContracts \in Nat \ {0} /\ FlattenRetries \in Nat \ {0}
    /\ MaxOrders \in Nat /\ MaxStarts \in Nat

Ids == 1 .. MaxOrders

VARIABLES
    \* the exchange
    xorder,     \* every order: status, counts, and the counts of its ACK
    wire,       \* create requests under way
    position,   \* the account's positions
    shown,      \* positions as get_positions reports them
    rows,       \* contracts get_fills reports for every order
    \* files
    intent,     \* the submitted lines: what each order asks for
    lines,      \* events journaled for every order
    ackline,    \* counts in the acked line of every order
    outcome,    \* filled in the outcome line of every order
    torn,       \* a file ends in a partial line: its readers raise
    ledger,     \* DailyPnlLedger: <<event_id, contracts closed>>
    \* the process
    mode,       \* which routine runs
    step,       \* where it is
    cur,        \* the order being executed or resolved
    todo,       \* orders _drain_orders still has to look at
    left,       \* tickers of this round of flatten_all
    round,      \* rounds of flatten_all begun
    errors,     \* _drain_orders has collected an error
    prior,      \* the resolver's prior snapshot
    stable,     \* identical coherent snapshots in a row
    positions,  \* strategy.positions; 0 where there is none
    starts

exchange == <<xorder, wire, position, shown, rows>>
journal  == <<intent, lines, ackline, outcome, torn>>
files    == <<intent, lines, ackline, outcome, torn, ledger>>
resolver == <<prior, stable>>
draining == <<todo, errors>>
flatten  == <<left, round>>
control  == <<mode, step, cur>>
vars == <<xorder, wire, position, shown, rows, intent, lines, ackline, outcome,
          torn, ledger, mode, step, cur, todo, left, round, errors, prior,
          stable, positions, starts>>

Stopped == {"crashed", "failed", "flat"}
TERMINAL_ORDER_STATUSES == {"executed", "canceled"}
NoSnapshot == <<>>
Flat == [t \in Tickers |-> 0]

Init ==
    /\ xorder = [o \in Ids |-> [status |-> "none", fill |-> 0, remaining |-> 0,
                                ackFill |-> 0, ackRemaining |-> 0]]
    /\ wire = {} /\ position = Flat /\ shown = Flat
    /\ rows = [o \in Ids |-> 0]
    /\ intent = << >>
    /\ lines = [o \in Ids |-> {}]
    /\ ackline = [o \in Ids |-> [fill |-> 0, remaining |-> 0]]
    /\ outcome = [o \in Ids |-> 0]
    /\ torn = FALSE /\ ledger = {}
    /\ mode = "failed" /\ step = "none" /\ cur = 0
    /\ todo = {} /\ left = {} /\ round = 0 /\ errors = FALSE
    /\ prior = NoSnapshot /\ stable = 0
    /\ positions = Flat /\ starts = 0

-----------------------------------------------------------------------------
(* The exchange. *)

Open == {o \in Ids : xorder[o].status = "resting"}       \* get_open_orders
Signed(o, n) == IF intent[o].side = "BUY" THEN n ELSE -n

(* n more contracts of o trade. *)
Trade(o, n) ==
    position' = [position EXCEPT ![intent[o].ticker] = @ + Signed(o, n)]

(* A create request arrives: n contracts trade at once, and the rest rests *)
(* or, the order being immediate-or-cancel, is gone.                       *)
Accept(o) ==
    /\ o \in wire
    /\ wire' = wire \ {o}
    /\ \E n \in 0 .. intent[o].count, rests \in BOOLEAN :
          LET rest == intent[o].count - n
              remaining == IF rests THEN rest ELSE 0
          IN  /\ rests => rest > 0
              /\ xorder' = [xorder EXCEPT ![o] =
                    [status |-> IF rests THEN "resting"
                                ELSE IF rest = 0 THEN "executed" ELSE "canceled",
                     fill |-> n, remaining |-> remaining,
                     ackFill |-> n, ackRemaining |-> remaining]]
              /\ Trade(o, n)
    /\ UNCHANGED <<shown, rows>>

Lose(o) ==
    /\ o \in wire
    /\ wire' = wire \ {o}
    /\ UNCHANGED <<xorder, position, shown, rows>>

FillResting(o) ==
    /\ o \in Open
    /\ xorder' = [xorder EXCEPT ![o].fill = @ + 1, ![o].remaining = @ - 1,
                    ![o].status = IF xorder[o].remaining = 1
                                  THEN "executed" ELSE "resting"]
    /\ Trade(o, 1)
    /\ UNCHANGED <<wire, shown, rows>>

(* Canceled on request or by its time in force; the remaining count of a   *)
(* canceled order may be kept or cleared.                                  *)
EndResting(o) ==
    /\ o \in Open
    /\ \E r \in {0, xorder[o].remaining} :
          xorder' = [xorder EXCEPT ![o].status = "canceled", ![o].remaining = r]
    /\ UNCHANGED <<wire, position, shown, rows>>

PublishPosition(t) ==
    /\ shown[t] # position[t]
    /\ shown' = [shown EXCEPT ![t] = position[t]]
    /\ UNCHANGED <<xorder, wire, position, rows>>

PublishFills(o) ==
    /\ rows[o] # xorder[o].fill
    /\ rows' = [rows EXCEPT ![o] = xorder[o].fill]
    /\ UNCHANGED <<xorder, wire, position, shown>>

Exchange ==
    /\ \/ \E o \in Ids : Accept(o) \/ Lose(o) \/ FillResting(o) \/ EndResting(o)
                         \/ PublishFills(o)
       \/ \E t \in Tickers : PublishPosition(t)
    /\ UNCHANGED <<files, control, resolver, draining, flatten, positions, starts>>

-----------------------------------------------------------------------------
(* The journal. *)

(* Submitted with no outcome. *)
UnresolvedForgetsUnacked ==     \* mutant: only acknowledged orders count
    {o \in Ids : "acked" \in lines[o] /\ "outcome" \notin lines[o]}
Unresolved == {o \in Ids : "submitted" \in lines[o] /\ "outcome" \notin lines[o]}

(* Filled outcomes that were not applied to local state and P&L. *)
UnappliedIgnored == {}          \* mutant: an outcome counts as applied
Unapplied ==
    {o \in Ids : "outcome" \in lines[o] /\ outcome[o] # 0
                 /\ "applied" \notin lines[o]}

(* record returned: the line is durable. *)
Recorded(o, event) ==
    /\ lines' = [lines EXCEPT ![o] = @ \cup {event}]
    /\ torn' = torn

(* record raised, or a signal interrupted it: the line is durable, absent  *)
(* or partial.                                                             *)
RecordRaised(o, event) ==
    \/ Recorded(o, event)
    \/ lines' = lines /\ torn' \in {torn, TRUE}

-----------------------------------------------------------------------------
(* Leaving a routine. *)

Goto(m, s) == mode' = m /\ step' = s

(* HaltError or another exception: while trading it trips the safety halt, *)
(* which leads to safe_shutdown; inside safe_shutdown it ends the process  *)
(* unverified; at startup it refuses to start.                             *)
Fail ==
    /\ IF mode \in {"trade", "periodic"}
       THEN Goto("shutdown", "begin") ELSE Goto("failed", "none")
    /\ cur' = 0

(* execute returns to its caller, process_tick or flatten_all. *)
Return ==
    /\ step' = IF mode = "trade" THEN "idle" ELSE "next"
    /\ mode' = mode
    /\ cur' = 0

Draining == mode \in {"startup", "periodic", "shutdown"}

(* One entry of _drain_orders is done with. *)
NextEntry(failed) ==
    /\ step' = "entry" /\ mode' = mode /\ cur' = 0
    /\ todo' = todo \ {cur}
    /\ errors' = (errors \/ failed)

(* ResolutionError: execute raises HaltError, _drain_orders collects it. *)
ResolutionError ==
    IF Draining THEN NextEntry(TRUE) ELSE Fail /\ UNCHANGED draining

-----------------------------------------------------------------------------
(* Executor._live. *)

(* The guards before the order is journaled: fresh quote, price cap, close *)
(* horizon, edge.  They may refuse (HaltError) or find no price (None).    *)
Refuse == Fail
NoPrice == Return

(* Position read and checked against what the caller expects. *)
MaySubmit(t, side, count, expected) ==
    /\ shown[t] = expected
    /\ side = "SELL" => shown[t] > 0 /\ count <= shown[t]

Submit(t, side, count, expected) ==
    LET o == Len(intent) + 1 IN
    /\ o \in Ids
    /\ MaySubmit(t, side, count, expected)
    /\ intent' = Append(intent, [ticker |-> t, side |-> side, count |-> count,
                                 pre |-> shown[t]])
    /\ \/ /\ Recorded(o, "submitted")
          /\ wire' = wire \cup {o}
          /\ cur' = o /\ step' = "create" /\ mode' = mode
       \/ /\ RecordRaised(o, "submitted")
          /\ wire' = wire
          /\ Fail
    /\ UNCHANGED <<xorder, position, shown, rows, ackline, outcome, ledger,
                   draining, resolver, positions, starts>>

Execute(t, side, count, expected) ==
    \/ Submit(t, side, count, expected)
    \/ /\ Refuse \/ NoPrice
       /\ UNCHANGED <<exchange, files, draining, resolver, positions, starts>>

(* create_order returns the ACK, journaled before anything looks at it. *)
Acknowledge ==
    /\ step = "create" /\ xorder[cur].status # "none"
    /\ ackline' = [ackline EXCEPT ![cur] = [fill |-> xorder[cur].ackFill,
                                            remaining |-> xorder[cur].ackRemaining]]
    /\ \/ /\ Recorded(cur, "acked")
          /\ step' = "poll" /\ UNCHANGED <<mode, cur>>
       \/ RecordRaised(cur, "acked") /\ Fail
    /\ UNCHANGED <<exchange, intent, outcome, ledger, draining, resolver,
                   flatten, positions, starts>>

(* create_order raised: whether the request arrived, or will, is unknown. *)
CreateRaises ==
    /\ step = "create"
    /\ Fail
    /\ UNCHANGED <<exchange, files, draining, resolver, flatten, positions, starts>>

-----------------------------------------------------------------------------
(* OrderResolver. *)

Terminal(o) == xorder[o].status \in TERMINAL_ORDER_STATUSES

(* poll_terminal and cancel_to_terminal: until the order is terminal; a    *)
(* poll that times out is followed by a cancel request and a second poll.  *)
PollTerminal ==
    /\ step \in {"poll", "cancel"}
    /\ IF Terminal(cur)
       THEN step' = "resolve" /\ prior' = NoSnapshot /\ stable' = 0
       ELSE step = "poll" /\ step' = "cancel" /\ UNCHANGED resolver
    /\ UNCHANGED <<exchange, files, mode, cur, draining, flatten, positions, starts>>

(* The snapshot agrees with the ACK, the fills and the account. *)
CoherentOrderOnly(o) ==         \* mutant: a terminal order is taken at its word
    /\ Terminal(o)
    /\ xorder[o].fill + xorder[o].remaining <= intent[o].count
Coherent(o) ==
    /\ Terminal(o)
    /\ xorder[o].fill + xorder[o].remaining <= intent[o].count
    /\ xorder[o].fill = ackline[o].fill
    /\ xorder[o].remaining = ackline[o].remaining
    /\ xorder[o].fill = rows[o]
    /\ shown[intent[o].ticker] = intent[o].pre + Signed(o, rows[o])

(* One iteration of resolve: two identical coherent snapshots settle it. *)
Resolve ==
    LET snapshot == <<xorder[cur].status, xorder[cur].fill,
                      xorder[cur].remaining, rows[cur],
                      shown[intent[cur].ticker]>>
    IN  /\ step = "resolve"
        /\ prior' = snapshot
        /\ stable' = IF ~Coherent(cur) THEN 0
                     ELSE IF snapshot = prior THEN stable + 1 ELSE 1
        /\ step' = IF stable' >= 2 THEN "outcome" ELSE "resolve"
        /\ UNCHANGED <<exchange, files, mode, cur, draining, flatten,
                       positions, starts>>

(* A deadline passed, a read failed, or the ACK contradicted the request. *)
ResolutionFails ==
    /\ step \in {"poll", "cancel", "resolve"}
    /\ ResolutionError
    /\ UNCHANGED <<exchange, files, resolver, flatten, positions, starts>>

(* The outcome line.  An order found filled by _drain_orders is an error:  *)
(* it filled while nobody was there to apply it.                           *)
RecordOutcome ==
    /\ step = "outcome"
    /\ outcome' = [outcome EXCEPT ![cur] = rows[cur]]
    /\ \/ /\ Recorded(cur, "outcome")
          /\ \/ /\ Draining /\ NextEntry(rows[cur] # 0)
             \/ /\ ~Draining /\ rows[cur] = 0 /\ Return /\ UNCHANGED draining
             \/ /\ ~Draining /\ rows[cur] # 0
                /\ step' = "apply" /\ UNCHANGED <<mode, cur, draining>>
       \/ /\ RecordRaised(cur, "outcome")
          /\ Fail /\ UNCHANGED draining
    /\ UNCHANGED <<exchange, intent, ackline, ledger, resolver, flatten,
                   positions, starts>>

-----------------------------------------------------------------------------
(* record_fill and the applied line. *)

Closing == LET held == positions[intent[cur].ticker]
           IN  IF outcome[cur] < held THEN outcome[cur] ELSE held

(* A SELL is booked in the ledger before the position shrinks; event ids   *)
(* already booked are not booked again.                                    *)
RecordFill ==
    LET t == intent[cur].ticker
        booked == IF intent[cur].side = "SELL" /\ positions[t] > 0
                     /\ \A e \in ledger : e[1] # cur
                  THEN ledger \cup {<<cur, Closing>>} ELSE ledger
    IN  /\ step = "apply"
        /\ \/ /\ ledger' = booked /\ torn' = torn
              /\ positions' = [positions EXCEPT ![t] =
                    IF intent[cur].side = "BUY" THEN @ + outcome[cur]
                    ELSE @ - Closing]
              /\ step' = "applied" /\ UNCHANGED <<mode, cur>>
           \/ /\ \/ ledger' = booked /\ torn' = torn
                 \/ ledger' = ledger /\ torn' \in {torn, TRUE}
              /\ positions' = positions
              /\ Fail
        /\ UNCHANGED <<exchange, intent, lines, ackline, outcome, draining,
                       resolver, flatten, starts>>

RecordApplied ==
    /\ step = "applied"
    /\ \/ Recorded(cur, "applied") /\ Return
       \/ RecordRaised(cur, "applied") /\ Fail
    /\ UNCHANGED <<exchange, intent, ackline, outcome, ledger, draining,
                   resolver, flatten, positions, starts>>

-----------------------------------------------------------------------------
(* Reconciler._drain_orders. *)

BeginDrain ==
    /\ step = "begin"
    /\ IF torn
       THEN Fail /\ UNCHANGED draining
       ELSE /\ todo' = Unresolved /\ errors' = FALSE
            /\ step' = "entry" /\ UNCHANGED <<mode, cur>>
    /\ UNCHANGED <<exchange, files, resolver, flatten, positions, starts>>

(* An entry without its ACK lacks restart evidence; the others go through  *)
(* cancel_to_terminal and resolve.                                         *)
DrainEntry(o) ==
    /\ step = "entry" /\ o \in todo
    /\ IF "acked" \in lines[o]
       THEN step' = "cancel" /\ cur' = o /\ UNCHANGED <<mode, draining>>
       ELSE /\ todo' = todo \ {o} /\ errors' = TRUE
            /\ UNCHANGED control
    /\ UNCHANGED <<exchange, files, resolver, flatten, positions, starts>>

(* Open orders that are left are strays; a listing that fails is an error. *)
ListStrays ==
    /\ step = "entry" /\ todo = {}
    /\ \/ todo' = Open /\ errors' = errors
       \/ todo' = {} /\ errors' = TRUE
    /\ step' = "stray"
    /\ UNCHANGED <<exchange, files, mode, cur, resolver, flatten, positions, starts>>

(* A stray must become terminal with no fill. *)
CancelStray(o) ==
    /\ step = "stray" /\ o \in todo
    /\ todo' = todo \ {o}
    /\ \/ Terminal(o) /\ errors' = (errors \/ xorder[o].fill # 0 \/ rows[o] # 0)
       \/ errors' = TRUE
    /\ UNCHANGED <<exchange, files, control, resolver, flatten, positions, starts>>

(* No error, nothing open, nothing unresolved, nothing unapplied. *)
DrainedErrorsIgnored == ~torn /\ Open = {}      \* mutant: only the listing counts
Drained ==
    ~torn /\ ~errors /\ Open = {} /\ Unresolved = {} /\ Unapplied = {}

(* startup goes on to the flatness check, periodic compares the positions, *)
(* shutdown goes on to flatten_all; with errors, a final listing that      *)
(* fails among them, each of them fails.                                   *)
EndDrain ==
    /\ step = "stray" /\ todo = {}
    /\ \/ /\ Drained
          /\ \/ mode = "startup" /\ step' = "flat1" /\ UNCHANGED <<mode, cur>>
             \/ /\ mode = "periodic" /\ shown = positions
                /\ Goto("trade", "idle") /\ cur' = 0
             \/ mode = "shutdown" /\ Goto("flatten", "guard") /\ cur' = 0
       \/ Fail
    /\ UNCHANGED <<exchange, files, draining, resolver, flatten, positions, starts>>

(* _require_flat_stable, at startup and in verify_flat: two reads. *)
ReadFlat ==
    /\ step \in {"flat1", "flat2"}
    /\ \/ /\ shown = Flat
          /\ IF step = "flat1" THEN step' = "flat2" /\ UNCHANGED <<mode, cur>>
             ELSE IF mode = "startup" THEN Goto("trade", "idle") /\ cur' = 0
             ELSE Goto("flat", "none") /\ cur' = 0
       \/ Fail
    /\ UNCHANGED <<exchange, files, draining, resolver, flatten, positions, starts>>

-----------------------------------------------------------------------------
(* flatten_all and verify_flat, the rest of safe_shutdown. *)

FlattenGuard ==
    /\ step = "guard"
    /\ round' = 0 /\ left' = {}
    /\ IF torn \/ Unresolved # {} \/ Unapplied # {}
       THEN Fail ELSE step' = "round" /\ UNCHANGED <<mode, cur>>
    /\ UNCHANGED <<exchange, files, draining, resolver, positions, starts>>

(* A round starts from positions both sides agree on. *)
FlattenRoundForever ==          \* mutant: the rounds are not bounded
    /\ step = "round"
    /\ \/ /\ shown = Flat /\ positions = Flat
          /\ Goto("verify", "verify") /\ cur' = 0
          /\ UNCHANGED flatten
       \/ /\ shown # Flat /\ shown = positions
          /\ round' = round
          /\ left' = {t \in Tickers : shown[t] > 0}
          /\ step' = "next" /\ UNCHANGED <<mode, cur>>
       \/ shown # positions /\ Fail /\ UNCHANGED flatten
    /\ UNCHANGED <<exchange, files, draining, resolver, positions, starts>>

FlattenRound ==
    /\ step = "round"
    /\ \/ /\ shown = Flat /\ positions = Flat
          /\ Goto("verify", "verify") /\ cur' = 0
          /\ UNCHANGED flatten
       \/ /\ round < FlattenRetries /\ shown # Flat
          /\ shown = positions /\ \A t \in Tickers : shown[t] >= 0
          /\ round' = round + 1
          /\ left' = {t \in Tickers : shown[t] > 0}
          /\ step' = "next" /\ UNCHANGED <<mode, cur>>
       \/ Fail /\ UNCHANGED flatten
    /\ UNCHANGED <<exchange, files, draining, resolver, positions, starts>>

FlattenNext(t) ==
    /\ step = "next" /\ t \in left
    /\ left' = left \ {t} /\ round' = round
    /\ Execute(t, "SELL", positions[t], positions[t])

FlattenRoundEnds ==
    /\ step = "next" /\ left = {}
    /\ step' = "round"
    /\ UNCHANGED <<exchange, files, mode, cur, draining, resolver, flatten,
                   positions, starts>>

VerifyFlat ==
    /\ step = "verify"
    /\ \/ /\ ~torn /\ Unresolved = {} /\ Unapplied = {} /\ Open = {}
          /\ step' = "flat1" /\ UNCHANGED <<mode, cur>>
       \/ Fail
    /\ UNCHANGED <<exchange, files, draining, resolver, flatten, positions, starts>>

-----------------------------------------------------------------------------
(* process_tick: what it may ask of the executor. *)

Exit(t) ==
    /\ step = "idle" /\ positions[t] > 0
    /\ Execute(t, "SELL", positions[t], positions[t])
    /\ UNCHANGED flatten

Entry(t) ==
    /\ step = "idle" /\ positions[t] = 0
    /\ \E count \in 1 .. MaxContracts : Execute(t, "BUY", count, 0)
    /\ UNCHANGED flatten

Periodic ==
    /\ step = "idle"
    /\ Goto("periodic", "begin") /\ cur' = 0
    /\ UNCHANGED <<exchange, files, draining, resolver, flatten, positions, starts>>

(* The bot loop ends: a trip of any kind, or a signal, which may interrupt *)
(* the code at any step and reaches safe_shutdown.                         *)
Interrupt ==
    /\ mode \in {"trade", "periodic"}
    /\ Fail
    /\ UNCHANGED <<exchange, files, draining, resolver, flatten, positions, starts>>

(* The process dies.  Dying inside a write leaves what RecordRaised leaves. *)
Crash ==
    /\ mode \notin Stopped
    /\ Goto("crashed", "none") /\ cur' = 0
    /\ UNCHANGED <<exchange, files, draining, resolver, flatten, positions, starts>>

(* run_session: local state starts empty; an unreadable ledger or journal  *)
(* refuses to start.                                                       *)
Restart ==
    /\ mode \in Stopped /\ starts < MaxStarts
    /\ starts' = starts + 1
    /\ positions' = Flat
    /\ cur' = 0 /\ todo' = {} /\ left' = {} /\ round' = 0 /\ errors' = FALSE
    /\ prior' = NoSnapshot /\ stable' = 0
    /\ IF torn THEN Goto("failed", "none") ELSE Goto("startup", "begin")
    /\ UNCHANGED <<exchange, files>>

Process ==
    \/ \E t \in Tickers : FlattenNext(t)
    \/ \E o \in Ids : DrainEntry(o) \/ CancelStray(o)
    \/ Acknowledge \/ CreateRaises
    \/ PollTerminal \/ Resolve \/ ResolutionFails \/ RecordOutcome
    \/ RecordFill \/ RecordApplied
    \/ BeginDrain \/ ListStrays \/ EndDrain \/ ReadFlat
    \/ FlattenGuard \/ FlattenRound \/ FlattenRoundEnds \/ VerifyFlat

Decide == \/ \E t \in Tickers : Exit(t) \/ Entry(t)
          \/ Periodic

Next == Exchange \/ Process \/ Decide \/ Interrupt \/ Crash \/ Restart

Spec == Init /\ [][Next]_vars

(* Every wait of the process has a deadline, so a routine that began goes  *)
(* on; nothing is assumed of the exchange.                                 *)
FairSpec == Spec /\ WF_vars(Process)

-----------------------------------------------------------------------------
(* The files, the exchange and the process have their types. *)
TypeOK ==
    /\ xorder \in [Ids -> [status : {"none", "resting", "executed", "canceled"},
                           fill : 0 .. MaxContracts, remaining : 0 .. MaxContracts,
                           ackFill : 0 .. MaxContracts,
                           ackRemaining : 0 .. MaxContracts]]
    /\ wire \subseteq Ids
    /\ position \in [Tickers -> Int] /\ shown \in [Tickers -> Int]
    /\ rows \in [Ids -> 0 .. MaxContracts]
    /\ intent \in Seq([ticker : Tickers, side : {"BUY", "SELL"},
                       count : 1 .. MaxContracts, pre : Int])
    /\ Len(intent) <= MaxOrders
    /\ lines \in [Ids -> SUBSET {"submitted", "acked", "outcome", "applied"}]
    /\ ackline \in [Ids -> [fill : 0 .. MaxContracts, remaining : 0 .. MaxContracts]]
    /\ outcome \in [Ids -> 0 .. MaxContracts]
    /\ torn \in BOOLEAN
    /\ ledger \subseteq Ids \X (0 .. MaxContracts)
    /\ mode \in Stopped \cup {"startup", "trade", "periodic", "shutdown",
                              "flatten", "verify"}
    /\ step \in {"none", "begin", "entry", "cancel", "resolve", "outcome",
                 "stray", "flat1", "flat2", "idle", "create", "poll", "apply",
                 "applied", "guard", "round", "next", "verify"}
    /\ cur \in 0 .. MaxOrders
    /\ todo \subseteq Ids /\ left \subseteq Tickers
    /\ round \in 0 .. FlattenRetries /\ errors \in BOOLEAN
    /\ stable \in 0 .. 2
    /\ positions \in [Tickers -> 0 .. MaxContracts]
    /\ starts \in 0 .. MaxStarts

Sold(o) == intent[o].side = "SELL" /\ xorder[o].fill > 0

(* Whenever the bot is about to decide, in this session or after any       *)
(* number of crashes and restarts, its position book is the account, no    *)
(* order of its own can still trade, and the P&L ledger holds every SELL   *)
(* fill the exchange ever executed for it, once (startup, _live,           *)
(* record_fill, applied).                                                  *)
TradesOnExactBooks ==
    /\ TypeOK
    /\ mode = "trade" /\ step = "idle" =>
        /\ positions = position
        /\ wire = {} /\ Open = {}
        /\ ledger = {<<o, xorder[o].fill>> :
                        o \in {i \in 1 .. Len(intent) : Sold(i)}}

(* An order whose fate or effect is open blocks every later one, so at most *)
(* one is ever unsettled (unresolved, unapplied_outcomes); and no SELL      *)
(* takes the account below zero, whichever request arrives late and whoever *)
(* sends the next one (_live's position check, the refusal of flatten_all). *)
OneUnsettledOrder ==
    /\ Cardinality(Unresolved \cup Unapplied) <= 1
    /\ \A t \in Tickers : position[t] >= 0

(* A shutdown that reports success left nothing behind, not even a request *)
(* that could still arrive (safe_shutdown: "verified: no ambiguous orders  *)
(* or exposure").                                                          *)
VerifiedMeansFlat ==
    mode = "flat" => position = Flat /\ wire = {} /\ Open = {}

(* The journal's outcome, once written, is the truth about the order, and  *)
(* an order with an outcome never trades again.                            *)
OutcomeIsFinal ==
    [][\A o \in Ids : "outcome" \in lines[o] =>
          /\ xorder'[o] = xorder[o]
          /\ outcome[o] = xorder[o].fill]_vars

(* safe_shutdown ends: every poll has a deadline and flatten_all bounded   *)
(* rounds.                                                                 *)
ShutdownEnds == mode = "shutdown" ~> mode \in Stopped

=============================================================================
