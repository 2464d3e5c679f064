-------------------------- MODULE LiveOrdersProofs --------------------------
(***************************************************************************)
(* The order path of LiveOrders, proved for any tickers, order size,       *)
(* number of orders and number of starts.                                  *)
(*                                                                         *)
(* The argument.  Only the latest order may be pending: _live submits with *)
(* everything before it settled, and both the drain and the guard of       *)
(* flatten_all refuse otherwise.  So the account is the position that      *)
(* order was checked against plus what it has traded, its other tickers    *)
(* are as shown, and the session's book lags by at most that order.  An    *)
(* outcome is written from a terminal order whose fills and position have  *)
(* both come in, and after it the exchange has nothing left to change.     *)
(***************************************************************************)
EXTENDS LiveOrders, FiniteSetTheorems, TLAPS

Session == {"trade", "periodic", "shutdown", "flatten", "verify"}
Drain == {"begin", "entry", "cancel", "resolve", "outcome", "stray"}
Executing == {"create", "poll", "cancel", "resolve", "outcome", "apply", "applied"}
Unsettled == {"create", "poll", "cancel", "resolve", "outcome"}
Quiet == {"idle", "flat1", "flat2", "guard", "round", "next", "verify"}

Pending == Unresolved \cup Unapplied

\* What each routine does, and that nothing is trusted after a partial line.
Placed ==
    /\ mode \in Stopped <=> step = "none"
    /\ mode = "startup" => step \in Drain \cup {"flat1", "flat2"}
    /\ mode = "trade" => step \in Executing \cup {"idle"}
    /\ mode \in {"periodic", "shutdown"} => step \in Drain
    /\ mode = "flatten" => step \in Executing \cup {"guard", "round", "next"}
    /\ mode = "verify" => step \in {"verify", "flat1", "flat2"}
    /\ torn => mode \in Stopped \/ (mode = "shutdown" /\ step = "begin")
    /\ step = "resolve" => stable <= 1

\* The life of one order: on the wire, at the exchange, in the journal.
Lives(o) ==
    /\ o \in wire => o = Len(intent) /\ xorder[o].status = "none" /\ lines[o] = {"submitted"}
    /\ xorder[o].status = "none" => xorder[o].fill = 0 /\ xorder[o].remaining = 0
    /\ xorder[o].status = "resting" => xorder[o].remaining >= 1
    /\ rows[o] <= xorder[o].fill
    /\ "submitted" \notin lines[o] => lines[o] = {} /\ xorder[o].status = "none"
    /\ "submitted" \in lines[o] => o <= Len(intent)
    /\ "acked" \in lines[o] => xorder[o].status # "none"
    /\ "applied" \in lines[o] => "outcome" \in lines[o]
    /\ "outcome" \in lines[o] => Terminal(o) /\ outcome[o] = xorder[o].fill
    /\ o <= Len(intent) => xorder[o].fill + xorder[o].remaining <= intent[o].count
Lived == \A o \in Ids : Lives(o)

\* Only the latest order is pending, and the quiet steps know of none.
Latest ==
    /\ \A o \in Pending : o = Len(intent)
    /\ mode = "flat" \/ step \in Quiet => Pending = {}

\* The account is what the pending order was checked against and its fills,
\* and shows everything else.
Account ==
    /\ \A t \in Tickers : position[t] >= 0
    /\ \A o \in Pending :
          /\ position[intent[o].ticker] = intent[o].pre + Signed(o, xorder[o].fill)
          /\ intent[o].side = "BUY" => intent[o].pre = 0
          /\ intent[o].side = "SELL" => intent[o].count <= intent[o].pre
    /\ \A t \in Tickers : shown[t] # position[t] => \E o \in Unresolved : intent[o].ticker = t
    /\ mode = "flat" => position = Flat

\* The session's book is the account but for the pending order.
Book ==
    /\ mode = "startup" => positions = Flat
    /\ mode \in Session =>
        /\ \A t \in Tickers : positions[t] # position[t] => \E o \in Pending : intent[o].ticker = t
        /\ \A o \in Unresolved : positions[intent[o].ticker] = intent[o].pre
        /\ step = "apply" => positions[intent[cur].ticker] = intent[cur].pre
        /\ step = "applied" => positions = position

\* The order at work is the pending one.
Working ==
    /\ step \in Unsettled => cur \in Unresolved
    /\ step \in Unsettled \ {"create"} => "acked" \in lines[cur]
    /\ step = "outcome" =>
        /\ Terminal(cur) /\ rows[cur] = xorder[cur].fill
        /\ shown[intent[cur].ticker] = position[intent[cur].ticker]
    /\ step \in {"apply", "applied"} => cur \in Unapplied
    /\ step \in {"entry", "cancel", "resolve", "outcome"} /\ Draining => todo \subseteq Unresolved

\* The P&L ledger holds the SELL fills of the orders that are not pending.
Booked ==
    /\ \A e \in ledger : Sold(e[1]) /\ e[1] <= Len(intent) /\ e[2] = xorder[e[1]].fill
                         /\ "outcome" \in lines[e[1]]
    /\ \A o \in 1 .. Len(intent) :
          Sold(o) /\ (o \notin Pending \/ (step = "applied" /\ o = cur)) =>
              <<o, xorder[o].fill>> \in ledger

IInv == TypeOK /\ Placed /\ Lived /\ Latest /\ Account /\ Book /\ Working /\ Booked

\* The parts of TypeOK.
Modes == Stopped \cup {"startup", "trade", "periodic", "shutdown", "flatten", "verify"}
Steps == {"none", "begin", "entry", "cancel", "resolve", "outcome",
          "stray", "flat1", "flat2", "idle", "create", "poll", "apply",
          "applied", "guard", "round", "next", "verify"}
ExchangeTyped ==
    /\ xorder \in [Ids -> [status : {"none", "resting", "executed", "canceled"},
                           fill : 0 .. MaxContracts, remaining : 0 .. MaxContracts,
                           ackFill : 0 .. MaxContracts,
                           ackRemaining : 0 .. MaxContracts]]
    /\ wire \subseteq Ids
    /\ position \in [Tickers -> Int] /\ shown \in [Tickers -> Int]
    /\ rows \in [Ids -> 0 .. MaxContracts]
FilesTyped ==
    /\ intent \in Seq([ticker : Tickers, side : {"BUY", "SELL"},
                       count : 1 .. MaxContracts, pre : Int])
    /\ Len(intent) <= MaxOrders
    /\ lines \in [Ids -> SUBSET {"submitted", "acked", "outcome", "applied"}]
    /\ ackline \in [Ids -> [fill : 0 .. MaxContracts, remaining : 0 .. MaxContracts]]
    /\ outcome \in [Ids -> 0 .. MaxContracts]
    /\ torn \in BOOLEAN
    /\ ledger \subseteq Ids \X (0 .. MaxContracts)
ProcessTyped ==
    /\ mode \in Modes /\ step \in Steps /\ cur \in 0 .. MaxOrders
    /\ todo \subseteq Ids /\ left \subseteq Tickers
    /\ round \in 0 .. FlattenRetries /\ errors \in BOOLEAN
    /\ stable \in 0 .. 2
    /\ positions \in [Tickers -> 0 .. MaxContracts]
    /\ starts \in 0 .. MaxStarts

LEMMA Types == TypeOK <=> ExchangeTyped /\ FilesTyped /\ ProcessTyped
  BY DEF TypeOK, ExchangeTyped, FilesTyped, ProcessTyped, Modes, Steps, Stopped

-----------------------------------------------------------------------------
(* What the types say of one order. *)

LEMMA OrderTyped ==
    ASSUME TypeOK, NEW o \in Ids
    PROVE  /\ xorder[o].status \in {"none", "resting", "executed", "canceled"}
           /\ xorder[o].fill \in Nat /\ xorder[o].fill <= MaxContracts
           /\ xorder[o].remaining \in Nat /\ xorder[o].remaining <= MaxContracts
           /\ rows[o] \in Nat /\ rows[o] <= MaxContracts
           /\ outcome[o] \in Nat /\ outcome[o] <= MaxContracts
           /\ lines[o] \subseteq {"submitted", "acked", "outcome", "applied"}
           /\ o \in Nat /\ o >= 1
  BY LiveOrdersAssumption DEF TypeOK, Ids

LEMMA ItemTyped ==
    ASSUME NEW S, NEW s \in Seq(S), NEW i \in 1 .. Len(s)
    PROVE  s[i] \in S
  OBVIOUS

LEMMA IntentTyped ==
    ASSUME TypeOK, NEW o \in 1 .. Len(intent)
    PROVE  /\ o \in Ids
           /\ intent[o].ticker \in Tickers /\ intent[o].side \in {"BUY", "SELL"}
           /\ intent[o].count \in 1 .. MaxContracts /\ intent[o].pre \in Int
  <1>1. /\ intent \in Seq([ticker : Tickers, side : {"BUY", "SELL"},
                           count : 1 .. MaxContracts, pre : Int])
        /\ Len(intent) \in Nat /\ Len(intent) <= MaxOrders
    BY DEF TypeOK
  <1>2. intent[o] \in [ticker : Tickers, side : {"BUY", "SELL"},
                       count : 1 .. MaxContracts, pre : Int]
    BY <1>1, ItemTyped
  <1> QED
    BY <1>1, <1>2, LiveOrdersAssumption DEF Ids

\* A pending order is the latest and was submitted.
LEMMA PendingIs ==
    ASSUME IInv, NEW o \in Pending
    PROVE  /\ o \in 1 .. Len(intent) /\ o = Len(intent) /\ o \in Ids
           /\ "submitted" \in lines[o]
           /\ Len(intent) \in Nat /\ Len(intent) <= MaxOrders
  <1>1. o \in Ids /\ o = Len(intent)
    BY DEF Pending, Unresolved, Unapplied, IInv, Latest
  <1>2. "submitted" \in lines[o]
    BY <1>1 DEF Pending, Unresolved, Unapplied, IInv, Lived, Lives
  <1> QED
    BY <1>1, <1>2, LiveOrdersAssumption DEF Ids, IInv, TypeOK

-----------------------------------------------------------------------------
(* Steps that leave the exchange and the files alone. *)

LEMMA ControlStep ==
    ASSUME IInv, UNCHANGED <<exchange, files, positions>>,
           ProcessTyped', Placed', Working',
           mode' = "flat" \/ step' \in Quiet => Pending = {},
           mode' = "flat" => position = Flat,
           mode' = "startup" => mode = "startup",
           mode' \in Session => mode \in Session \/ (positions = position /\ Pending = {}),
           step' \notin {"apply", "applied"}
    PROVE  IInv'
  <1> USE DEF IInv
  <1>1. TypeOK'
    BY Types DEF TypeOK, ExchangeTyped, FilesTyped, ProcessTyped, exchange, files, Modes, Steps,
                 Stopped
  <1>2. Lived'
    BY DEF Lived, Lives, Terminal, exchange, files
  <1>3. Unresolved' = Unresolved /\ Unapplied' = Unapplied /\ Pending' = Pending
    BY DEF Unresolved, Unapplied, Pending, files
  <1>4. Latest'
    BY <1>3 DEF Latest, files
  <1>5. Account'
    BY <1>3 DEF Account, Signed, exchange, files
  <1>6. Book'
    <2>1. (mode = "startup" => positions = Flat)'
      BY DEF Book
    <2>2. ASSUME mode' \in Session
          PROVE  /\ \A t \in Tickers : positions'[t] # position'[t]
                       => \E o \in Pending' : intent'[o].ticker = t
                 /\ \A o \in Unresolved' : positions'[intent'[o].ticker] = intent'[o].pre
      <3>1. CASE mode \in Session
        BY <1>3, <3>1 DEF Book, exchange, files
      <3>2. CASE positions = position /\ Pending = {}
        BY <1>3, <3>2 DEF Pending, exchange, files
      <3> QED
        BY <2>2, <3>1, <3>2
    <2> QED
      BY <2>1, <2>2 DEF Book
  <1>7. Booked'
    BY <1>3 DEF Booked, Sold, exchange, files
  <1> QED
    BY <1>1, <1>2, <1>4, <1>5, <1>6, <1>7

LEMMA FailingProcess ==
    ASSUME IInv, mode \notin Stopped, Fail, UNCHANGED <<positions, starts>>,
           todo' \subseteq Ids, left' \subseteq Tickers, round' \in 0 .. FlattenRetries,
           errors' \in BOOLEAN, stable' \in 0 .. 2
    PROVE  /\ ProcessTyped' /\ Placed' /\ Working'
           /\ mode' \notin {"flat", "startup"} /\ (mode' \in Session => mode \in Session)
           /\ step' \in {"begin", "none"}
  <1>1. mode' \in {"shutdown", "failed"} /\ step' \in {"begin", "none"} /\ cur' = 0
        /\ (mode' = "shutdown" => mode \in {"trade", "periodic"} /\ step' = "begin")
        /\ (mode' = "failed" => step' = "none")
    BY DEF Fail, Goto
  <1>2. ProcessTyped'
    <2>1. positions' \in [Tickers -> 0 .. MaxContracts] /\ starts' \in 0 .. MaxStarts
      BY DEF IInv, TypeOK
    <2>2. mode' \in Modes /\ step' \in Steps
      BY <1>1 DEF Modes, Steps, Stopped
    <2> QED
      BY <1>1, <2>1, <2>2, LiveOrdersAssumption DEF ProcessTyped
  <1>3. Placed'
    BY <1>1 DEF Placed, Stopped, Drain
  <1>4. Working'
    BY <1>1 DEF Working, Unsettled
  <1> QED
    BY <1>1, <1>2, <1>3, <1>4 DEF Session

LEMMA Failing ==
    ASSUME IInv, mode \notin Stopped, Fail, UNCHANGED <<exchange, files, positions, starts>>,
           todo' \subseteq Ids, left' \subseteq Tickers, round' \in 0 .. FlattenRetries,
           errors' \in BOOLEAN, stable' \in 0 .. 2
    PROVE  IInv'
  BY FailingProcess, ControlStep DEF Quiet

\* A typed process that moves on without failing.
LEMMA ControlTyped ==
    ASSUME TypeOK, mode' \in Modes, step' \in Steps, cur' \in 0 .. MaxOrders,
           todo' \subseteq Ids, left' \subseteq Tickers, round' \in 0 .. FlattenRetries,
           errors' \in BOOLEAN, stable' \in 0 .. 2, UNCHANGED <<positions, starts>>
    PROVE  ProcessTyped'
  <1>1. positions' \in [Tickers -> 0 .. MaxContracts] /\ starts' \in 0 .. MaxStarts
    BY DEF TypeOK
  <1> QED
    BY <1>1 DEF ProcessTyped

LEMMA ProcessIsTyped ==
    ASSUME TypeOK
    PROVE  /\ mode \in Modes /\ step \in Steps /\ cur \in 0 .. MaxOrders
           /\ todo \subseteq Ids /\ left \subseteq Tickers /\ round \in 0 .. FlattenRetries
           /\ errors \in BOOLEAN /\ stable \in 0 .. 2
  BY Types DEF ProcessTyped

\* Two steps of which the second was allowed where the first was.
LEMMA PollSteps ==
    ASSUME IInv, PollTerminal
    PROVE  IInv'
  <1> USE DEF IInv
  <1>1. step \in {"poll", "cancel"} /\ step' \in {"resolve", "cancel"} /\ mode' = mode
        /\ cur' = cur /\ UNCHANGED <<exchange, files, positions, starts, todo, errors, left, round>>
        /\ (step' = "resolve" => stable' = 0) /\ (step' = "cancel" => stable' = stable /\ step = "poll")
    BY DEF PollTerminal, draining, flatten, resolver
  <1>2. ProcessTyped'
    BY <1>1, ProcessIsTyped, ControlTyped DEF Steps
  <1>3. Placed'
    BY <1>1 DEF Placed, files, Drain, Executing, Stopped
  <1>4. Working'
    <2>1. Unresolved' = Unresolved
      BY <1>1 DEF Unresolved, files
    <2>2. cur \in Unresolved /\ "acked" \in lines[cur]
      BY <1>1 DEF Working, Unsettled
    <2>3. Draining => step = "cancel" /\ todo \subseteq Unresolved
      BY <1>1 DEF Working, Draining, Placed, Drain
    <2> QED
      BY <1>1, <2>1, <2>2, <2>3 DEF Working, Draining, Unsettled, files
  <1> QED
    BY <1>1, <1>2, <1>3, <1>4, ControlStep DEF Quiet, Placed, Stopped

LEMMA ResolveSteps ==
    ASSUME IInv, Resolve
    PROVE  IInv'
  <1> USE DEF IInv
  <1>1. step = "resolve" /\ step' \in {"resolve", "outcome"} /\ mode' = mode
        /\ cur' = cur /\ UNCHANGED <<exchange, files, positions, starts, todo, errors, left, round>>
    BY DEF Resolve, draining, flatten
  <1>2. /\ step' = "outcome" => stable' = 2 /\ Coherent(cur)
        /\ step' = "resolve" => stable' \in 0 .. 1
    <2>1. stable \in 0 .. 1
      BY <1>1 DEF Placed, TypeOK
    <2>2. /\ stable' \in {0, 1, stable + 1} /\ (~Coherent(cur) => stable' = 0)
          /\ step' = IF stable' >= 2 THEN "outcome" ELSE "resolve"
      BY DEF Resolve
    <2> QED
      BY <2>1, <2>2
  <1>3. ProcessTyped'
    <2>1. stable' \in 0 .. 2
      BY <1>1, <1>2
    <2> QED
      BY <1>1, <2>1, ProcessIsTyped, ControlTyped DEF Steps
  <1>4. Placed'
    BY <1>1, <1>2 DEF Placed, files, Drain, Executing, Stopped
  <1>5. Working'
    <2>1. Unresolved' = Unresolved
      BY <1>1 DEF Unresolved, files
    <2>2. cur \in Unresolved /\ "acked" \in lines[cur]
      BY <1>1 DEF Working, Unsettled
    <2>3. Draining => todo \subseteq Unresolved
      BY <1>1 DEF Working
    <2>4. ASSUME step' = "outcome"
          PROVE  /\ Terminal(cur) /\ rows[cur] = xorder[cur].fill
                 /\ shown[intent[cur].ticker] = position[intent[cur].ticker]
      <3>1. /\ Terminal(cur) /\ xorder[cur].fill = rows[cur]
            /\ shown[intent[cur].ticker] = intent[cur].pre + Signed(cur, rows[cur])
        BY <1>2, <2>4 DEF Coherent
      <3>2. position[intent[cur].ticker] = intent[cur].pre + Signed(cur, xorder[cur].fill)
        BY <2>2 DEF Account, Pending
      <3> QED
        BY <3>1, <3>2
    <2> QED
      BY <1>1, <2>1, <2>2, <2>3, <2>4 DEF Working, Draining, Unsettled, files, exchange, Terminal
  <1> QED
    BY <1>1, <1>3, <1>4, <1>5, ControlStep DEF Quiet, Placed, Stopped

\* An entry that _drain_orders is done with, or an executor that fails.
LEMMA ResolutionFailsSteps ==
    ASSUME IInv, ResolutionFails
    PROVE  IInv'
  <1> USE DEF IInv
  <1>1. step \in {"poll", "cancel", "resolve"} /\ mode \notin Stopped
        /\ UNCHANGED <<exchange, files, positions, starts, left, round, stable>>
    BY DEF ResolutionFails, flatten, resolver, Placed
  <1>2. CASE Draining
    <2>1. step' = "entry" /\ mode' = mode /\ cur' = 0 /\ todo' = todo \ {cur}
      BY <1>1, <1>2 DEF ResolutionFails, ResolutionError, NextEntry
    <2>2. errors' \in BOOLEAN
      BY <1>1, <1>2 DEF ResolutionFails, ResolutionError, NextEntry
    <2>3. ProcessTyped'
      <3>1. cur' \in 0 .. MaxOrders /\ todo' \subseteq Ids
        BY <2>1, ProcessIsTyped, LiveOrdersAssumption
      <3> QED
        BY <1>1, <2>1, <2>2, <3>1, ProcessIsTyped, ControlTyped DEF Steps
    <2>4. Placed'
      BY <1>1, <1>2, <2>1 DEF Placed, files, Drain, Executing, Stopped, Draining
    <2>5. Working'
      <3>1. Unresolved' = Unresolved
        BY <1>1 DEF Unresolved, files
      <3>2. todo \subseteq Unresolved
        BY <1>1, <1>2 DEF Working, Placed, Drain, Draining
      <3> QED
        BY <2>1, <3>1, <3>2 DEF Working, Unsettled
    <2> QED
      BY <1>1, <1>2, <2>1, <2>3, <2>4, <2>5, ControlStep DEF Quiet, Draining, Session
  <1>3. CASE ~Draining
    <2>1. Fail /\ UNCHANGED <<todo, errors>>
      BY <1>3 DEF ResolutionFails, ResolutionError, draining
    <2> QED
      BY <1>1, <2>1, ProcessIsTyped, Failing
  <1> QED
    BY <1>2, <1>3

\* The drain up to its end.
LEMMA DrainSteps ==
    ASSUME IInv,
           \/ BeginDrain \/ ListStrays
           \/ \E o \in Ids : DrainEntry(o) \/ CancelStray(o)
    PROVE  IInv'
  <1> USE DEF IInv
  <1>1. CASE BeginDrain /\ torn
    <2>1. /\ Fail /\ mode \notin Stopped /\ UNCHANGED <<exchange, files, positions, starts>>
          /\ UNCHANGED <<todo, errors, left, round, stable>>
      BY <1>1 DEF BeginDrain, draining, flatten, resolver, Placed
    <2> QED
      BY <2>1, ProcessIsTyped, Failing
  <1>2. CASE BeginDrain /\ ~torn
    <2>1. /\ step = "begin" /\ step' = "entry" /\ mode' = mode /\ cur' = cur
          /\ todo' = Unresolved /\ errors' = FALSE
          /\ UNCHANGED <<exchange, files, positions, starts, left, round, stable>>
      BY <1>2 DEF BeginDrain, flatten, resolver
    <2>2. ProcessTyped'
      <3>1. todo' \subseteq Ids /\ errors' \in BOOLEAN
        BY <2>1 DEF Unresolved
      <3> QED
        BY <2>1, <3>1, ProcessIsTyped, ControlTyped DEF Steps
    <2>3. Placed'
      BY <1>2, <2>1 DEF Placed, files, Drain, Executing, Stopped
    <2>4. Working'
      <3>1. Unresolved' = Unresolved
        BY <2>1 DEF Unresolved, files
      <3> QED
        BY <2>1, <3>1 DEF Working, Unsettled
    <2> QED
      BY <2>1, <2>2, <2>3, <2>4, ControlStep DEF Quiet, Placed, Stopped
  <1>3. CASE ListStrays
    <2>1. /\ step = "entry" /\ step' = "stray" /\ mode' = mode /\ cur' = cur
          /\ todo' \in {Open, {}} /\ errors' \in {errors, TRUE}
          /\ UNCHANGED <<exchange, files, positions, starts, left, round, stable>>
      BY <1>3 DEF ListStrays, flatten, resolver
    <2>2. ProcessTyped'
      <3>1. todo' \subseteq Ids /\ errors' \in BOOLEAN
        BY <2>1, ProcessIsTyped DEF Open
      <3> QED
        BY <2>1, <3>1, ProcessIsTyped, ControlTyped DEF Steps
    <2>3. Placed'
      BY <2>1 DEF Placed, files, Drain, Executing, Stopped
    <2>4. Working'
      BY <2>1 DEF Working, Unsettled
    <2> QED
      BY <2>1, <2>2, <2>3, <2>4, ControlStep DEF Quiet, Placed, Stopped
  <1>4. ASSUME NEW o \in Ids, DrainEntry(o)
        PROVE  IInv'
    <2>1. /\ step = "entry" /\ o \in todo /\ mode' = mode
          /\ UNCHANGED <<exchange, files, positions, starts, left, round, stable>>
          /\ \/ "acked" \in lines[o] /\ step' = "cancel" /\ cur' = o /\ todo' = todo /\ errors' = errors
             \/ step' = step /\ cur' = cur /\ todo' = todo \ {o} /\ errors' = TRUE
      BY <1>4 DEF DrainEntry, flatten, resolver, draining, control
    <2>2. ProcessTyped'
      <3>1. todo' \subseteq Ids /\ cur' \in 0 .. MaxOrders /\ step' \in Steps
        <4>1. todo' \subseteq todo /\ cur' \in {o, cur} /\ step' \in {"cancel", step}
          BY <2>1
        <4> QED
          BY <4>1, ProcessIsTyped DEF Ids, Steps
      <3>2. errors' \in BOOLEAN
        <4>1. errors' = errors \/ errors' = TRUE
          BY <2>1
        <4> QED
          BY <4>1, ProcessIsTyped
      <3> QED
        BY <2>1, <3>1, <3>2, ProcessIsTyped, ControlTyped
    <2>3. Placed'
      BY <2>1 DEF Placed, files, Drain, Executing, Stopped
    <2>4. Working'
      <3>1. Unresolved' = Unresolved
        BY <2>1 DEF Unresolved, files
      <3>2. todo \subseteq Unresolved
        BY <2>1 DEF Working, Placed, Drain, Draining, Executing, Stopped, TypeOK
      <3> QED
        BY <2>1, <3>1, <3>2 DEF Working, Unsettled, files
    <2> QED
      BY <2>1, <2>2, <2>3, <2>4, ControlStep DEF Quiet, Placed, Stopped
  <1>5. ASSUME NEW o \in Ids, CancelStray(o)
        PROVE  IInv'
    <2>1. /\ step = "stray" /\ UNCHANGED <<mode, step, cur>> /\ todo' = todo \ {o}
          /\ UNCHANGED <<exchange, files, positions, starts, left, round, stable>>
      BY <1>5 DEF CancelStray, flatten, resolver, control
    <2>2. ProcessTyped'
      <3>1. errors' \in BOOLEAN
        BY <1>5 DEF CancelStray
      <3>2. todo' \subseteq Ids
        BY <2>1, ProcessIsTyped
      <3> QED
        BY <2>1, <3>1, <3>2, ProcessIsTyped, ControlTyped
    <2>3. Placed'
      BY <2>1 DEF Placed, files, Drain, Executing, Stopped
    <2>4. Working'
      BY <2>1 DEF Working, Unsettled
    <2> QED
      BY <2>1, <2>2, <2>3, <2>4, ControlStep DEF Quiet, Placed, Stopped
  <1> QED
    BY <1>1, <1>2, <1>3, <1>4, <1>5

\* The end of the drain and the reads of a flat account: each needs that no
\* order is pending.
LEMMA VerifySteps ==
    ASSUME IInv, EndDrain \/ ReadFlat \/ VerifyFlat \/ FlattenGuard
    PROVE  IInv'
  <1> USE DEF IInv
  <1>1. /\ UNCHANGED <<exchange, files, positions, starts, todo, errors, stable>>
        /\ step \in {"stray", "flat1", "flat2", "verify", "guard"} /\ mode \notin Stopped
    BY DEF EndDrain, ReadFlat, VerifyFlat, FlattenGuard, draining, flatten, resolver, Placed
  <1>2. left' \in {left, {}} /\ round' \in {round, 0}
    BY DEF EndDrain, ReadFlat, VerifyFlat, FlattenGuard, flatten
  <1>3. left' \subseteq Tickers /\ round' \in 0 .. FlattenRetries
    BY <1>2, ProcessIsTyped, LiveOrdersAssumption
  <1>4. CASE Fail
    BY <1>1, <1>3, <1>4, ProcessIsTyped, Failing
  <1>5. CASE ~Fail
    <2>1. Pending = {} /\ ~torn
      <3>1. CASE EndDrain \/ VerifyFlat \/ FlattenGuard
        BY <1>5, <3>1 DEF EndDrain, VerifyFlat, FlattenGuard, Drained, Pending
      <3>2. CASE ReadFlat
        BY <1>1, <3>2 DEF ReadFlat, Latest, Quiet, Placed, Stopped
      <3> QED
        BY <3>1, <3>2
    <2>2. /\ cur' \in {cur, 0}
          /\ \/ mode = "startup" /\ mode' = "startup" /\ step' \in {"flat1", "flat2"}
             \/ mode = "periodic" /\ mode' = "trade" /\ step' = "idle"
             \/ mode = "shutdown" /\ mode' = "flatten" /\ step' = "guard"
             \/ mode = "startup" /\ mode' = "trade" /\ step' = "idle" /\ step = "flat2" /\ shown = Flat
             \/ mode = "verify" /\ mode' = "verify" /\ step' \in {"flat1", "flat2"}
             \/ mode = "verify" /\ mode' = "flat" /\ step' = "none" /\ shown = Flat
             \/ mode = "flatten" /\ mode' = "flatten" /\ step' = "round"
      <3>1. CASE EndDrain
        BY <1>5, <3>1 DEF EndDrain, Goto
      <3>2. CASE ReadFlat
        <4>1. mode \in {"startup", "verify"}
          BY <3>2 DEF ReadFlat, Placed, Drain, Executing, Stopped, TypeOK
        <4> QED
          BY <1>5, <3>2, <4>1 DEF ReadFlat, Goto
      <3>3. CASE VerifyFlat
        <4>1. mode = "verify"
          BY <3>3 DEF VerifyFlat, Placed, Drain, Executing, Stopped, TypeOK
        <4> QED
          BY <1>5, <3>3, <4>1 DEF VerifyFlat
      <3>4. CASE FlattenGuard
        <4>1. mode = "flatten"
          BY <3>4 DEF FlattenGuard, Placed, Drain, Executing, Stopped, TypeOK
        <4> QED
          BY <1>5, <3>4, <4>1 DEF FlattenGuard
      <3> QED
        BY <3>1, <3>2, <3>3, <3>4
    <2>3. shown = position
      <3>1. \A t \in Tickers : shown[t] = position[t]
        BY <2>1 DEF Account, Pending
      <3> QED
        BY <3>1 DEF TypeOK
    <2>4. ProcessTyped'
      <3>1. cur' \in 0 .. MaxOrders
        BY <2>2, ProcessIsTyped, LiveOrdersAssumption
      <3>2. mode' \in Modes /\ step' \in Steps
        BY <2>2 DEF Modes, Steps, Stopped
      <3> QED
        BY <1>1, <1>3, <3>1, <3>2, ProcessIsTyped, ControlTyped
    <2>5. Placed'
      BY <1>1, <2>1, <2>2 DEF Placed, files, Drain, Executing, Stopped
    <2>6. Working'
      BY <2>2 DEF Working, Unsettled
    <2>7. mode = "startup" => positions = Flat
      BY DEF Book
    <2> QED
      BY <1>1, <2>1, <2>2, <2>3, <2>4, <2>5, <2>6, <2>7, ControlStep DEF Session
  <1> QED
    BY <1>4, <1>5

\* Interrupted, crashed, or given up before anything was written.
LEMMA GivingUp ==
    ASSUME IInv, CreateRaises \/ Interrupt \/ Crash
    PROVE  IInv'
  <1> USE DEF IInv
  <1>1. mode \notin Stopped /\ UNCHANGED <<exchange, files, positions, starts>>
        /\ UNCHANGED <<todo, errors, left, round, stable>>
    BY DEF CreateRaises, Interrupt, Crash, Placed, Stopped, draining, flatten, resolver
  <1>2. CASE Fail
    BY <1>1, <1>2, ProcessIsTyped, Failing
  <1>3. CASE Crash
    <2>1. mode' = "crashed" /\ step' = "none" /\ cur' = 0
      BY <1>3 DEF Crash, Goto
    <2>2. ProcessTyped'
      <3>1. cur' \in 0 .. MaxOrders /\ mode' \in Modes /\ step' \in Steps
        BY <2>1, LiveOrdersAssumption DEF Modes, Steps, Stopped
      <3> QED
        BY <1>1, <3>1, ProcessIsTyped, ControlTyped
    <2>3. Placed'
      BY <2>1 DEF Placed, Stopped
    <2>4. Working'
      BY <2>1 DEF Working, Unsettled
    <2> QED
      BY <1>1, <2>1, <2>2, <2>3, <2>4, ControlStep DEF Session, Quiet
  <1> QED
    BY <1>2, <1>3 DEF CreateRaises, Interrupt

\* The rounds of flatten_all, and the periodic reconciliation.
LEMMA RoundSteps ==
    ASSUME IInv, FlattenRound \/ FlattenRoundEnds \/ Periodic
    PROVE  IInv'
  <1> USE DEF IInv
  <1>1. /\ UNCHANGED <<exchange, files, positions, starts, todo, errors, stable>>
        /\ step \in {"round", "next", "idle"} /\ mode \notin Stopped
    BY DEF FlattenRound, FlattenRoundEnds, Periodic, draining, resolver, Placed
  <1>2. left' \subseteq Tickers /\ round' \in 0 .. FlattenRetries
    <2>1. \/ left' = left /\ round' = round
          \/ left' = {t \in Tickers : shown[t] > 0} /\ round < FlattenRetries /\ round' = round + 1
      BY DEF FlattenRound, FlattenRoundEnds, Periodic, flatten
    <2> QED
      BY <2>1, ProcessIsTyped, LiveOrdersAssumption
  <1>3. CASE Fail
    BY <1>1, <1>2, <1>3, ProcessIsTyped, Failing
  <1>4. CASE ~Fail
    <2>1. /\ cur' \in {cur, 0}
          /\ \/ mode = "flatten" /\ mode' = "verify" /\ step' = "verify"
             \/ mode = "flatten" /\ mode' = "flatten" /\ step' \in {"next", "round"}
             \/ mode = "trade" /\ mode' = "periodic" /\ step' = "begin"
      <3>1. CASE FlattenRound \/ FlattenRoundEnds
        <4>1. mode = "flatten"
          BY <3>1 DEF FlattenRound, FlattenRoundEnds, Placed, Drain, Executing, Stopped, TypeOK
        <4> QED
          BY <1>4, <3>1, <4>1 DEF FlattenRound, FlattenRoundEnds, Goto
      <3>2. CASE Periodic
        <4>1. mode = "trade"
          BY <3>2 DEF Periodic, Placed, Drain, Executing, Stopped, TypeOK
        <4> QED
          BY <3>2, <4>1 DEF Periodic, Goto
      <3> QED
        BY <3>1, <3>2
    <2>2. Pending = {}
      BY <1>1 DEF Latest, Quiet
    <2>3. ~torn
      BY <1>1, <2>1 DEF Placed, Stopped
    <2>4. ProcessTyped'
      <3>1. cur' \in 0 .. MaxOrders
        BY <2>1, ProcessIsTyped, LiveOrdersAssumption
      <3>2. mode' \in Modes /\ step' \in Steps
        BY <2>1 DEF Modes, Steps, Stopped
      <3> QED
        BY <1>1, <1>2, <3>1, <3>2, ProcessIsTyped, ControlTyped
    <2>5. Placed'
      BY <1>1, <2>1, <2>3 DEF Placed, files, Drain, Executing, Stopped
    <2>6. Working'
      BY <2>1 DEF Working, Unsettled
    <2> QED
      BY <1>1, <2>1, <2>2, <2>4, <2>5, <2>6, ControlStep DEF Session
  <1> QED
    BY <1>3, <1>4

\* execute that finds no price or refuses.
LEMMA NothingSubmitted ==
    ASSUME IInv, Refuse \/ NoPrice, step \in {"idle", "next"},
           UNCHANGED <<exchange, files, draining, resolver, positions, starts>>,
           left' \subseteq left, round' = round
    PROVE  IInv'
  <1> USE DEF IInv
  <1>1. UNCHANGED <<todo, errors, stable>> /\ mode \notin Stopped
    BY DEF draining, resolver, Placed
  <1>2. left' \subseteq Tickers /\ round' \in 0 .. FlattenRetries
    BY ProcessIsTyped
  <1>3. CASE Refuse
    BY <1>1, <1>2, <1>3, ProcessIsTyped, Failing DEF Refuse
  <1>4. CASE NoPrice
    <2>1. /\ mode' = mode /\ cur' = 0
          /\ \/ mode = "trade" /\ step' = "idle"
             \/ mode = "flatten" /\ step' = "next"
      BY <1>4 DEF NoPrice, Return, Placed, Drain, Executing, Stopped, TypeOK
    <2>2. Pending = {}
      BY DEF Latest, Quiet
    <2>3. ProcessTyped'
      <3>1. cur' \in 0 .. MaxOrders /\ step' \in Steps
        BY <2>1, LiveOrdersAssumption DEF Steps
      <3> QED
        BY <1>1, <1>2, <2>1, <3>1, ProcessIsTyped, ControlTyped
    <2>4. Placed'
      BY <2>1 DEF Placed, files, Drain, Executing, Stopped
    <2>5. Working'
      BY <2>1 DEF Working, Unsettled
    <2> QED
      BY <2>1, <2>2, <2>3, <2>4, <2>5, ControlStep DEF Session
  <1> QED
    BY <1>3, <1>4

\* A new process knows nothing and trusts only what it reads.
LEMMA RestartSteps ==
    ASSUME IInv, Restart
    PROVE  IInv'
  <1> USE DEF IInv
  <1>1. /\ UNCHANGED <<exchange, files>> /\ positions' = Flat /\ stable' = 0
        /\ \/ ~torn /\ mode' = "startup" /\ step' = "begin"
           \/ mode' = "failed" /\ step' = "none"
    BY DEF Restart, Goto
  <1>2. TypeOK'
    <2>1. mode' \in Modes /\ step' \in Steps
      BY <1>1 DEF Modes, Steps, Stopped
    <2>2. starts' \in 0 .. MaxStarts
      BY LiveOrdersAssumption DEF TypeOK, Restart
    <2>3. cur' = 0 /\ todo' = {} /\ left' = {} /\ round' = 0 /\ errors' = FALSE
      BY DEF Restart
    <2>4. errors' \in BOOLEAN
      BY <2>3
    <2>5. positions' \in [Tickers -> 0 .. MaxContracts]
      BY <1>1, LiveOrdersAssumption DEF Flat
    <2>6. ProcessTyped'
      BY <1>1, <2>1, <2>2, <2>3, <2>4, <2>5, LiveOrdersAssumption DEF ProcessTyped
    <2>7. ExchangeTyped' /\ FilesTyped'
      BY <1>1, Types DEF ExchangeTyped, FilesTyped, exchange, files
    <2> QED
      BY <2>6, <2>7 DEF TypeOK, ExchangeTyped, FilesTyped, ProcessTyped, Modes, Steps, Stopped
  <1>3. Placed'
    BY <1>1 DEF Placed, Stopped, Drain, files
  <1>4. Lived'
    BY <1>1 DEF Lived, Lives, Terminal, exchange, files
  <1>5. Unresolved' = Unresolved /\ Unapplied' = Unapplied /\ Pending' = Pending
    BY <1>1 DEF Unresolved, Unapplied, Pending, files
  <1>6. Latest'
    BY <1>1, <1>5 DEF Latest, files, Quiet
  <1>7. Account'
    BY <1>1, <1>5 DEF Account, Signed, exchange, files
  <1>8. Book'
    BY <1>1 DEF Book, Session, Flat
  <1>9. Working'
    BY <1>1 DEF Working, Unsettled
  <1>10. Booked'
    BY <1>1, <1>5 DEF Booked, Sold, exchange, files
  <1> QED
    BY <1>2, <1>3, <1>4, <1>6, <1>7, <1>8, <1>9, <1>10

-----------------------------------------------------------------------------
(* Steps of the exchange. *)

Resting == [status : {"none", "resting", "executed", "canceled"},
            fill : 0 .. MaxContracts, remaining : 0 .. MaxContracts,
            ackFill : 0 .. MaxContracts, ackRemaining : 0 .. MaxContracts]

\* What steps of the exchange cannot touch.
LEMMA Beside ==
    ASSUME IInv, UNCHANGED <<files, control, resolver, draining, flatten, positions, starts>>
    PROVE  /\ FilesTyped' /\ ProcessTyped' /\ Placed' /\ Latest'
           /\ Unresolved' = Unresolved /\ Unapplied' = Unapplied /\ Pending' = Pending
  <1> USE DEF IInv
  <1>1. Unresolved' = Unresolved /\ Unapplied' = Unapplied /\ Pending' = Pending
    BY DEF Unresolved, Unapplied, Pending, files
  <1>2. FilesTyped'
    BY Types DEF FilesTyped, files
  <1>3. ProcessTyped'
    BY Types DEF ProcessTyped, control, resolver, draining, flatten
  <1>4. Placed'
    BY DEF Placed, files, control, resolver, Stopped
  <1>5. Latest'
    BY <1>1 DEF Latest, files, control
  <1> QED
    BY <1>1, <1>2, <1>3, <1>4, <1>5

\* An order that was not terminal is accepted, trades, or ends.
LEMMA OrderMoves ==
    ASSUME IInv, UNCHANGED <<files, control, resolver, draining, flatten, positions, starts>>,
           NEW o \in Unresolved, NEW w \in Resting, ~Terminal(o),
           xorder' = [xorder EXCEPT ![o] = w], wire' = wire \ {o},
           w.status # "none", w.status = "resting" => w.remaining >= 1,
           w.fill >= xorder[o].fill, w.fill + w.remaining <= intent[o].count,
           position' = [position EXCEPT ![intent[o].ticker] =
                            @ + Signed(o, w.fill - xorder[o].fill)],
           UNCHANGED <<shown, rows>>
    PROVE  IInv'
  <1> USE DEF IInv
  <1>1. /\ o \in Pending /\ o \in 1 .. Len(intent) /\ o = Len(intent) /\ o \in Ids
        /\ \A p \in Pending : p = o
    <2>1. o \in Pending
      BY DEF Pending
    <2> QED
      BY <2>1, PendingIs DEF Latest
  <1>2. /\ "submitted" \in lines[o] /\ "outcome" \notin lines[o]
        /\ o \notin Unapplied
    BY DEF Unresolved, Unapplied
  <1>3. /\ xorder'[o] = w
        /\ \A p \in Ids : p # o => xorder'[p] = xorder[p]
        /\ xorder[o].fill \in Nat /\ w.fill \in Nat /\ w.remaining \in Nat /\ rows[o] \in Nat
    <2>1. DOMAIN xorder = Ids
      BY DEF TypeOK
    <2>2. xorder'[o] = w /\ \A p \in Ids : p # o => xorder'[p] = xorder[p]
      BY <1>1, <2>1
    <2>3. xorder[o].fill \in Nat /\ rows[o] \in Nat
      BY <1>1, OrderTyped
    <2>4. w.fill \in Nat /\ w.remaining \in Nat
      BY LiveOrdersAssumption DEF Resting
    <2> QED
      BY <2>2, <2>3, <2>4
  <1>4. /\ intent[o].ticker \in Tickers /\ intent[o].side \in {"BUY", "SELL"}
        /\ intent[o].count \in Nat /\ intent[o].pre \in Int
    BY <1>1, IntentTyped, LiveOrdersAssumption
  <1>5. /\ position'[intent[o].ticker] = intent[o].pre + Signed(o, w.fill)
        /\ \A t \in Tickers : t # intent[o].ticker => position'[t] = position[t]
        /\ position' \in [Tickers -> Int]
    <2>1. position[intent[o].ticker] = intent[o].pre + Signed(o, xorder[o].fill)
      BY <1>1 DEF Account
    <2>2. Signed(o, w.fill - xorder[o].fill) = Signed(o, w.fill) - Signed(o, xorder[o].fill)
          /\ Signed(o, w.fill) \in Int /\ Signed(o, xorder[o].fill) \in Int
          /\ Signed(o, w.fill - xorder[o].fill) \in Int
      BY <1>3 DEF Signed
    <2>3. position \in [Tickers -> Int]
      BY DEF TypeOK
    <2> QED
      BY <1>4, <2>1, <2>2, <2>3
  <1>6. ExchangeTyped'
    <2>1. xorder' \in [Ids -> Resting]
      BY <1>1 DEF TypeOK, Resting
    <2>2. wire' \subseteq Ids
      BY DEF TypeOK
    <2>3. shown' \in [Tickers -> Int] /\ rows' \in [Ids -> 0 .. MaxContracts]
      BY DEF TypeOK
    <2> QED
      BY <1>5, <2>1, <2>2, <2>3 DEF ExchangeTyped, Resting
  <1>7. TypeOK'
    BY <1>6, Beside DEF TypeOK, ExchangeTyped, FilesTyped, ProcessTyped, Modes, Steps, Stopped
  <1>8. Lived'
    <2>1. ASSUME NEW p \in Ids, p # o
          PROVE  Lives(p)'
      <3>1. Lives(p) /\ xorder'[p] = xorder[p]
        BY <1>3, <2>1 DEF Lived
      <3> QED
        BY <3>1, <2>1 DEF Lives, Terminal, files
    <2>2. Lives(o)'
      <3>1. Lives(o) /\ o \notin wire'
        BY <1>1 DEF Lived
      <3> QED
        <4>1. UNCHANGED <<intent, lines, outcome, rows>>
          BY DEF files
        <4>2. rows[o] <= xorder[o].fill /\ rows[o] <= w.fill
          BY <1>3, <3>1 DEF Lives
        <4>3. xorder'[o].status # "none" /\ (xorder'[o].status = "resting" => xorder'[o].remaining >= 1)
              /\ xorder'[o].fill = w.fill /\ xorder'[o].remaining = w.remaining
          BY <1>3
        <4> QED
          BY <1>1, <1>2, <3>1, <4>1, <4>2, <4>3 DEF Lives
    <2> QED
      BY <2>1, <2>2 DEF Lived
  <1>9. Account'
    <2>1. position'[intent[o].ticker] >= 0
      <3>1. CASE intent[o].side = "BUY"
        BY <1>1, <1>3, <1>5, <3>1 DEF Account, Signed
      <3>2. CASE intent[o].side = "SELL"
        <4>1. intent[o].count <= intent[o].pre
          BY <1>1, <3>2 DEF Account
        <4>2. Signed(o, w.fill) = 0 - w.fill
          BY <1>3, <3>2 DEF Signed
        <4> QED
          BY <1>3, <1>4, <1>5, <4>1, <4>2
      <3> QED
        BY <1>4, <3>1, <3>2
    <2>2. \A t \in Tickers : position'[t] >= 0
      BY <1>5, <2>1 DEF Account
    <2>3. \A p \in Pending' :
             /\ position'[intent'[p].ticker] = intent'[p].pre + Signed(p, xorder[p].fill)'
             /\ intent'[p].side = "BUY" => intent'[p].pre = 0
             /\ intent'[p].side = "SELL" => intent'[p].count <= intent'[p].pre
      <3>1. UNCHANGED intent /\ Pending' = {o} /\ xorder'[o].fill = w.fill
        BY <1>1, <1>3, Beside DEF files
      <3>2. /\ intent[o].side = "BUY" => intent[o].pre = 0
            /\ intent[o].side = "SELL" => intent[o].count <= intent[o].pre
        BY <1>1 DEF Account
      <3>3. Signed(o, xorder[o].fill)' = Signed(o, w.fill)
        BY <3>1 DEF Signed
      <3> QED
        BY <1>5, <3>1, <3>2, <3>3
    <2>4. \A t \in Tickers : shown'[t] # position'[t] => \E p \in Unresolved' : intent'[p].ticker = t
      BY <1>5, Beside DEF Account, files
    <2>5. mode' # "flat"
      BY <1>1 DEF Latest, control
    <2> QED
      BY <2>2, <2>3, <2>4, <2>5 DEF Account
  <1>10. Book'
    <2>1. step # "applied"
      BY <1>1, <1>2 DEF Working, Pending
    <2>2. mode \in Session => \A t \in Tickers : positions'[t] # position'[t]
             => \E p \in Pending' : intent'[p].ticker = t
      BY <1>1, <1>5, Beside DEF Book, files
    <2> QED
      BY <2>1, <2>2, Beside DEF Book, files, control
  <1>11. Working'
    <2>1. step # "outcome"
      BY <1>1 DEF Working, Unsettled, Pending
    <2> QED
      BY <2>1, Beside DEF Working, files, control, draining, Draining
  <1>12. Booked'
    <2>1. \A p \in Ids : "outcome" \in lines[p] \/ p \notin Pending => xorder'[p] = xorder[p]
      BY <1>1, <1>2, <1>3
    <2>2. ledger \subseteq Ids \X (0 .. MaxContracts)
      BY DEF TypeOK
    <2>3. \A e \in ledger : xorder'[e[1]] = xorder[e[1]]
      BY <2>1, <2>2 DEF Booked
    <2>4. \A p \in 1 .. Len(intent) : p \in Ids
      BY IntentTyped
    <2>5. step = "applied" => cur # o
      BY <1>2 DEF Working
    <2>6. \A p \in 1 .. Len(intent) :
             Sold(p)' /\ (p \notin Pending \/ (step = "applied" /\ p = cur)) => xorder'[p] = xorder[p]
      BY <1>3, <2>1, <2>4, <2>5
    <2>7. \A e \in ledger' : (Sold(e[1]) /\ e[1] <= Len(intent) /\ e[2] = xorder[e[1]].fill
                             /\ "outcome" \in lines[e[1]])'
      BY <2>3 DEF Booked, Sold, files
    <2>8. \A p \in 1 .. Len(intent') :
             Sold(p)' /\ (p \notin Pending' \/ (step' = "applied" /\ p = cur')) =>
                 <<p, xorder'[p].fill>> \in ledger'
      BY <2>6, Beside DEF Booked, Sold, files, control
    <2> QED
      BY <2>7, <2>8 DEF Booked
  <1> QED
    BY <1>7, <1>8, <1>9, <1>10, <1>11, <1>12, Beside

LEMMA ExchangeSteps ==
    ASSUME IInv, Exchange
    PROVE  IInv'
  <1> USE DEF IInv
  <1>1. UNCHANGED <<files, control, resolver, draining, flatten, positions, starts>>
    BY DEF Exchange
  <1>2. ASSUME NEW o \in Ids, Accept(o)
        PROVE  IInv'
    <2>1. o \in wire /\ o = Len(intent) /\ lines[o] = {"submitted"} /\ xorder[o].status = "none"
          /\ xorder[o].fill = 0
      BY <1>2 DEF Accept, Lived, Lives
    <2>2. o \in Unresolved /\ ~Terminal(o) /\ o \in Pending
      BY <2>1 DEF Unresolved, Pending, Terminal, TERMINAL_ORDER_STATUSES
    <2>3. o \in 1 .. Len(intent) /\ intent[o].count \in 1 .. MaxContracts
      BY <2>2, PendingIs, IntentTyped
    <2>4. PICK n \in 0 .. intent[o].count, rests \in BOOLEAN :
             /\ rests => intent[o].count - n > 0
             /\ xorder' = [xorder EXCEPT ![o] =
                  [status |-> IF rests THEN "resting"
                              ELSE IF intent[o].count - n = 0 THEN "executed" ELSE "canceled",
                   fill |-> n, remaining |-> IF rests THEN intent[o].count - n ELSE 0,
                   ackFill |-> n, ackRemaining |-> IF rests THEN intent[o].count - n ELSE 0]]
             /\ Trade(o, n)
      BY <1>2 DEF Accept
    <2> DEFINE status == IF rests THEN "resting"
                         ELSE IF intent[o].count - n = 0 THEN "executed" ELSE "canceled"
               remaining == IF rests THEN intent[o].count - n ELSE 0
               w == [status |-> status, fill |-> n, remaining |-> remaining,
                     ackFill |-> n, ackRemaining |-> remaining]
    <2>5. xorder' = [xorder EXCEPT ![o] = w]
      BY <2>4
    <2>6. /\ status \in {"resting", "executed", "canceled"}
          /\ status = "resting" => remaining >= 1
          /\ n \in 0 .. MaxContracts /\ remaining \in 0 .. MaxContracts
          /\ n + remaining <= intent[o].count /\ n \in Nat
      <3>1. CASE rests
        BY <2>3, <2>4, <3>1, LiveOrdersAssumption
      <3>2. CASE ~rests
        BY <2>3, <2>4, <3>2, LiveOrdersAssumption
      <3> QED
        BY <3>1, <3>2
    <2> HIDE DEF status, remaining
    <2>7. /\ w \in Resting /\ w.status # "none" /\ (w.status = "resting" => w.remaining >= 1)
          /\ w.fill = n /\ w.fill + w.remaining <= intent[o].count
      BY <2>6 DEF Resting
    <2> HIDE DEF w
    <2>8. w.fill >= xorder[o].fill
          /\ position' = [position EXCEPT ![intent[o].ticker] =
                              @ + Signed(o, w.fill - xorder[o].fill)]
      <3>1. w.fill - xorder[o].fill = n
        BY <2>1, <2>6, <2>7
      <3>2. w.fill >= xorder[o].fill
        BY <2>1, <2>6, <2>7
      <3> QED
        BY <2>4, <3>1, <3>2 DEF Trade
    <2>9. wire' = wire \ {o} /\ UNCHANGED <<shown, rows>>
      BY <1>2 DEF Accept
    <2> QED
      BY <1>1, <2>2, <2>5, <2>7, <2>8, <2>9, OrderMoves
  <1>3. ASSUME NEW o \in Ids, FillResting(o)
        PROVE  IInv'
    <2>1. /\ xorder[o].status = "resting" /\ Lives(o)
          /\ wire' = wire /\ Trade(o, 1) /\ UNCHANGED <<shown, rows>>
      BY <1>3 DEF FillResting, Open, Lived
    <2>2. /\ o \in Unresolved /\ ~Terminal(o) /\ o \in Pending /\ wire' = wire \ {o}
      BY <2>1 DEF Unresolved, Pending, Terminal, TERMINAL_ORDER_STATUSES, Lives
    <2>3. o \in 1 .. Len(intent) /\ intent[o].count \in 1 .. MaxContracts
      BY <2>2, PendingIs, IntentTyped
    <2>4. xorder[o] \in Resting /\ xorder \in [Ids -> Resting]
      BY DEF TypeOK, Resting
    <2> DEFINE fill == xorder[o].fill
               remaining == xorder[o].remaining
               status == IF remaining = 1 THEN "executed" ELSE "resting"
               w == [xorder[o] EXCEPT !.fill = fill + 1, !.remaining = remaining - 1,
                                      !.status = status]
    <2>5. xorder' = [xorder EXCEPT ![o] = w]
      BY <1>3, <2>4 DEF FillResting, Resting
    <2>6. /\ fill \in Nat /\ remaining \in Nat /\ remaining >= 1
          /\ fill + remaining <= intent[o].count /\ remaining <= MaxContracts
      BY <2>1, <2>3, OrderTyped, PendingIs, <2>2 DEF Lives
    <2>7. /\ status \in {"resting", "executed"} /\ (status = "resting" => remaining - 1 >= 1)
          /\ fill + 1 \in 0 .. MaxContracts /\ remaining - 1 \in 0 .. MaxContracts
          /\ (fill + 1) + (remaining - 1) <= intent[o].count /\ fill + 1 >= fill
          /\ (fill + 1) - fill = 1
      <3> HIDE DEF fill, remaining
      <3> QED
        BY <2>3, <2>6, LiveOrdersAssumption
    <2>8. /\ w \in Resting /\ w.status = status /\ w.fill = fill + 1 /\ w.remaining = remaining - 1
      <3> HIDE DEF fill, remaining, status
      <3> QED
        BY <2>4, <2>7 DEF Resting
    <2>9. position' = [position EXCEPT ![intent[o].ticker] =
                              @ + Signed(o, w.fill - xorder[o].fill)]
      BY <2>1, <2>7, <2>8 DEF Trade
    <2> HIDE DEF w, status
    <2> QED
      BY <1>1, <2>1, <2>2, <2>5, <2>7, <2>8, <2>9, OrderMoves
  <1>4. ASSUME NEW o \in Ids, EndResting(o)
        PROVE  IInv'
    <2>1. /\ xorder[o].status = "resting" /\ Lives(o)
          /\ wire' = wire /\ UNCHANGED <<position, shown, rows>>
      BY <1>4 DEF EndResting, Open, Lived
    <2>2. /\ o \in Unresolved /\ ~Terminal(o) /\ o \in Pending /\ wire' = wire \ {o}
      BY <2>1 DEF Unresolved, Pending, Terminal, TERMINAL_ORDER_STATUSES, Lives
    <2>3. o \in 1 .. Len(intent) /\ intent[o].ticker \in Tickers
      BY <2>2, PendingIs, IntentTyped
    <2>4. xorder[o] \in Resting /\ xorder \in [Ids -> Resting]
      BY DEF TypeOK, Resting
    <2>5. PICK r \in {0, xorder[o].remaining} :
             xorder' = [xorder EXCEPT ![o].status = "canceled", ![o].remaining = r]
      BY <1>4 DEF EndResting
    <2> DEFINE w == [xorder[o] EXCEPT !.status = "canceled", !.remaining = r]
    <2>6. xorder' = [xorder EXCEPT ![o] = w]
      BY <2>4, <2>5 DEF Resting
    <2>7. /\ xorder[o].fill \in Nat /\ xorder[o].remaining \in Nat
          /\ xorder[o].fill + xorder[o].remaining <= intent[o].count
          /\ xorder[o].remaining <= MaxContracts /\ intent[o].count \in Nat
      BY <2>1, <2>2, <2>3, OrderTyped, PendingIs, IntentTyped, LiveOrdersAssumption DEF Lives
    <2>8. r \in 0 .. MaxContracts /\ xorder[o].fill + r <= intent[o].count
      BY <2>5, <2>7, LiveOrdersAssumption
    <2>9. w \in Resting /\ w.status = "canceled" /\ w.fill = xorder[o].fill /\ w.remaining = r
      BY <2>4, <2>8 DEF Resting
    <2>10. position' = [position EXCEPT ![intent[o].ticker] =
                              @ + Signed(o, w.fill - xorder[o].fill)]
      <3>1. Signed(o, w.fill - xorder[o].fill) = 0
        BY <2>7, <2>9 DEF Signed
      <3>2. position \in [Tickers -> Int]
        BY DEF TypeOK
      <3>3. position[intent[o].ticker] + 0 = position[intent[o].ticker]
        BY <2>3, <3>2
      <3> QED
        BY <2>1, <3>1, <3>2, <3>3
    <2>11. /\ w.status # "none" /\ w.status # "resting" /\ w.fill >= xorder[o].fill
           /\ w.fill + w.remaining <= intent[o].count
      <3> HIDE DEF w
      <3> QED
        BY <2>7, <2>8, <2>9
    <2> HIDE DEF w
    <2> QED
      BY <1>1, <2>1, <2>2, <2>6, <2>9, <2>10, <2>11, OrderMoves
  <1>5. ASSUME NEW o \in Ids, Lose(o)
        PROVE  IInv'
    <2>1. wire' = wire \ {o} /\ UNCHANGED <<xorder, position, shown, rows>>
      BY <1>5 DEF Lose
    <2>2. TypeOK'
      BY <1>1, <2>1, Types, Beside DEF TypeOK, ExchangeTyped, FilesTyped, ProcessTyped, Modes,
                                       Steps, Stopped
    <2>3. Lived'
      BY <1>1, <2>1 DEF Lived, Lives, Terminal, files
    <2>4. Account' /\ Book' /\ Working' /\ Booked'
      BY <1>1, <2>1, Beside DEF Account, Book, Working, Booked, Signed, Sold, Terminal, Draining,
                                files, control, draining
    <2> QED
      BY <1>1, <2>2, <2>3, <2>4, Beside
  <1>6. ASSUME NEW o \in Ids, PublishFills(o)
        PROVE  IInv'
    <2>1. /\ rows' = [rows EXCEPT ![o] = xorder[o].fill] /\ rows[o] # xorder[o].fill
          /\ UNCHANGED <<xorder, wire, position, shown>>
      BY <1>6 DEF PublishFills
    <2>2. TypeOK'
      <3>1. xorder[o].fill \in 0 .. MaxContracts /\ rows \in [Ids -> 0 .. MaxContracts]
        BY DEF TypeOK
      <3>2. rows' \in [Ids -> 0 .. MaxContracts]
        BY <2>1, <3>1
      <3> QED
        BY <1>1, <2>1, <3>2, Types, Beside DEF TypeOK, ExchangeTyped, FilesTyped, ProcessTyped,
                                               Modes, Steps, Stopped
    <2>3. Lived'
      <3>1. ASSUME NEW p \in Ids
            PROVE  rows'[p] <= xorder[p].fill
        <4>1. rows[p] <= xorder[p].fill /\ xorder[p].fill \in Nat
          BY OrderTyped DEF Lived, Lives
        <4>2. rows'[p] = IF p = o THEN xorder[o].fill ELSE rows[p]
          BY <2>1 DEF TypeOK
        <4> QED
          BY <4>1, <4>2
      <3> QED
        BY <1>1, <2>1, <3>1 DEF Lived, Lives, Terminal, files
    <2>4. Working'
      <3>1. step = "outcome" => rows'[cur] = xorder[cur].fill
        <4>1. step = "outcome" => rows[cur] = xorder[cur].fill /\ cur \in Ids
          BY DEF Working, Unsettled, Unresolved
        <4> QED
          BY <2>1, <4>1 DEF TypeOK
      <3> QED
        BY <1>1, <2>1, <3>1, Beside DEF Working, Terminal, Draining, files, control, draining
    <2>5. Account' /\ Book' /\ Booked'
      BY <1>1, <2>1, Beside DEF Account, Book, Booked, Signed, Sold, files, control
    <2> QED
      BY <1>1, <2>2, <2>3, <2>4, <2>5, Beside
  <1>7. ASSUME NEW t \in Tickers, PublishPosition(t)
        PROVE  IInv'
    <2>1. /\ shown' = [shown EXCEPT ![t] = position[t]] /\ shown[t] # position[t]
          /\ UNCHANGED <<xorder, wire, position, rows>>
      BY <1>7 DEF PublishPosition
    <2>2. /\ shown' \in [Tickers -> Int]
          /\ \A u \in Tickers : shown'[u] \in {shown[u], position[u]}
          /\ \A u \in Tickers : shown[u] = position[u] => shown'[u] = position[u]
      BY <2>1 DEF TypeOK
    <2>3. TypeOK'
      BY <1>1, <2>1, <2>2, Types, Beside DEF TypeOK, ExchangeTyped, FilesTyped, ProcessTyped,
                                             Modes, Steps, Stopped
    <2>4. Lived'
      BY <1>1, <2>1 DEF Lived, Lives, Terminal, files
    <2>5. Account'
      BY <1>1, <2>1, <2>2, Beside DEF Account, Signed, files, control
    <2>6. Working'
      <3>1. step = "outcome" => shown'[intent[cur].ticker] = position[intent[cur].ticker]
        <4>1. ASSUME step = "outcome"
              PROVE  /\ shown[intent[cur].ticker] = position[intent[cur].ticker]
                     /\ cur \in Pending
          BY <4>1 DEF Working, Unsettled, Pending
        <4> QED
          BY <2>2, <4>1, PendingIs, IntentTyped
      <3> QED
        BY <1>1, <2>1, <3>1, Beside DEF Working, Terminal, Draining, files, control, draining
    <2>7. Book' /\ Booked'
      BY <1>1, <2>1, Beside DEF Book, Booked, Sold, files, control
    <2> QED
      BY <1>1, <2>3, <2>4, <2>5, <2>6, <2>7, Beside
  <1> QED
    BY <1>2, <1>3, <1>4, <1>5, <1>6, <1>7 DEF Exchange

-----------------------------------------------------------------------------
(* Steps that write a file. *)

\* The ACK settles nothing: what is pending stays pending.
LEMMA AcknowledgeSteps ==
    ASSUME IInv, Acknowledge
    PROVE  IInv'
  <1> USE DEF IInv
  <1>1. /\ step = "create" /\ xorder[cur].status # "none" /\ mode \notin Stopped
        /\ UNCHANGED <<exchange, intent, outcome, ledger, todo, errors, left, round, stable,
                       positions, starts>>
        /\ \/ Recorded(cur, "acked") /\ step' = "poll" /\ mode' = mode /\ cur' = cur
           \/ RecordRaised(cur, "acked") /\ Fail
    BY DEF Acknowledge, draining, flatten, resolver, Placed
  <1>2. cur \in Unresolved /\ cur \in Ids
    BY <1>1 DEF Working, Unsettled, Unresolved
  <1>3. /\ lines' \in [Ids -> SUBSET {"submitted", "acked", "outcome", "applied"}]
        /\ \A p \in Ids : p # cur => lines'[p] = lines[p]
        /\ lines'[cur] = lines[cur] \/ lines'[cur] = lines[cur] \cup {"acked"}
        /\ torn' \in BOOLEAN
    <2>1. lines' = lines \/ lines' = [lines EXCEPT ![cur] = @ \cup {"acked"}]
      BY <1>1 DEF RecordRaised, Recorded
    <2>2. torn' \in BOOLEAN
      BY <1>1 DEF RecordRaised, Recorded, TypeOK
    <2>3. lines \in [Ids -> SUBSET {"submitted", "acked", "outcome", "applied"}]
      BY DEF TypeOK
    <2> QED
      BY <1>2, <2>1, <2>2, <2>3
  <1>4. Unresolved' = Unresolved /\ Unapplied' = Unapplied /\ Pending' = Pending
    BY <1>1, <1>2, <1>3 DEF Unresolved, Unapplied, Pending
  <1>5. ExchangeTyped' /\ FilesTyped'
    <2>1. ackline' \in [Ids -> [fill : 0 .. MaxContracts, remaining : 0 .. MaxContracts]]
      <3>1. ackline \in [Ids -> [fill : 0 .. MaxContracts, remaining : 0 .. MaxContracts]]
            /\ xorder[cur].ackFill \in 0 .. MaxContracts
            /\ xorder[cur].ackRemaining \in 0 .. MaxContracts
        BY <1>2 DEF TypeOK
      <3> QED
        BY <3>1 DEF Acknowledge
    <2> QED
      BY <1>1, <1>3, <2>1, Types DEF ExchangeTyped, FilesTyped, exchange
  <1>6. Lived'
    <2>1. ASSUME NEW p \in Ids, p # cur
          PROVE  Lives(p)'
      BY <1>1, <1>3, <2>1 DEF Lived, Lives, Terminal, exchange
    <2>2. ASSUME NEW p \in Ids, p = cur
          PROVE  Lives(p)'
      <3>1. Lives(p) /\ "submitted" \in lines[p] /\ "outcome" \notin lines[p]
        BY <1>2, <2>2 DEF Lived, Unresolved
      <3>2. xorder[p].status # "none" /\ (lines'[p] = lines[p] \/ lines'[p] = lines[p] \cup {"acked"})
        BY <1>1, <1>3, <2>2
      <3> QED
        BY <1>1, <3>1, <3>2 DEF Lives, Terminal, exchange
    <2> QED
      BY <2>1, <2>2 DEF Lived
  <1>7. Account'
    BY <1>1, <1>4, FailingProcess, ProcessIsTyped DEF Account, Signed, exchange, Placed, Stopped
  <1>8. ProcessTyped' /\ Placed' /\ Working' /\ step' \notin Quiet /\ mode' # "flat"
        /\ step' \notin {"apply", "applied"} /\ mode' # "startup"
        /\ (mode' \in Session => mode \in Session)
    <2>1. CASE RecordRaised(cur, "acked") /\ Fail
      BY <1>1, <2>1, ProcessIsTyped, FailingProcess DEF Quiet
    <2>2. CASE Recorded(cur, "acked") /\ step' = "poll" /\ mode' = mode /\ cur' = cur
      <3>1. mode \in {"trade", "flatten"}
        BY <1>1 DEF Placed, Drain, Executing, Stopped, TypeOK
      <3>2. ProcessTyped'
        BY <1>1, <2>2, ProcessIsTyped, ControlTyped DEF Steps
      <3>3. Placed'
        BY <1>1, <2>2, <3>1 DEF Placed, Executing, Stopped, Recorded
      <3>4. Working'
        <4>1. "acked" \in lines'[cur]
          BY <1>2, <2>2 DEF Recorded, TypeOK
        <4> QED
          BY <1>2, <1>4, <2>2, <4>1 DEF Working, Unsettled
      <3> QED
        BY <2>2, <3>1, <3>2, <3>3, <3>4 DEF Quiet, Session
    <2> QED
      BY <1>1, <2>1, <2>2
  <1>9. Latest'
    BY <1>1, <1>4, <1>8 DEF Latest
  <1>10. Book'
    BY <1>1, <1>4, <1>8 DEF Book, exchange
  <1>11. Booked'
    <2>1. \A e \in ledger : "outcome" \in lines[e[1]] => "outcome" \in lines'[e[1]]
      BY <1>3 DEF TypeOK
    <2> QED
      BY <1>1, <1>4, <1>8, <2>1 DEF Booked, Sold, exchange
  <1> QED
    BY <1>5, <1>6, <1>7, <1>8, <1>9, <1>10, <1>11
       DEF TypeOK, ExchangeTyped, FilesTyped, ProcessTyped, Modes, Steps, Stopped

\* What the outcome line of the order at work does to the journal.
LEMMA OutcomeWritten ==
    ASSUME IInv, step = "outcome", NEW o, o = cur,
           outcome' = [outcome EXCEPT ![o] = rows[o]], RecordRaised(o, "outcome"),
           UNCHANGED <<exchange, intent, ackline, ledger>>
    PROVE  /\ ExchangeTyped' /\ FilesTyped' /\ Lived'
           /\ o \in Ids /\ o = Len(intent) /\ rows[o] = xorder[o].fill
           /\ Unresolved = {o} /\ Unapplied = {}
           /\ \/ Unresolved' = {o} /\ Unapplied' = {} /\ ~Recorded(o, "outcome")
              \/ Unresolved' = {} /\ Unapplied' = {} /\ rows[o] = 0
              \/ Unresolved' = {} /\ Unapplied' = {o} /\ rows[o] # 0
           /\ shown = position
           /\ \A p \in Ids : "outcome" \in lines[p] => "outcome" \in lines'[p]
  <1> USE DEF IInv
  <1>1. /\ o \in Unresolved /\ o \in Ids /\ Terminal(o) /\ rows[o] = xorder[o].fill
        /\ shown[intent[o].ticker] = position[intent[o].ticker] /\ "acked" \in lines[o]
    BY DEF Working, Unsettled, Unresolved
  <1>2. Unresolved = {o} /\ Unapplied = {} /\ o = Len(intent)
    <2>1. o \in Pending /\ o \notin Unapplied
      BY <1>1 DEF Pending, Unresolved, Unapplied
    <2>2. \A p \in Pending : p = o
      BY <2>1 DEF Latest
    <2> QED
      BY <1>1, <2>1, <2>2 DEF Pending, Latest
  <1>3. /\ lines' \in [Ids -> SUBSET {"submitted", "acked", "outcome", "applied"}]
        /\ \A p \in Ids : p # o => lines'[p] = lines[p] /\ outcome'[p] = outcome[p]
        /\ lines'[o] = lines[o] \/ lines'[o] = lines[o] \cup {"outcome"}
        /\ Recorded(o, "outcome") => lines'[o] = lines[o] \cup {"outcome"}
        /\ outcome'[o] = rows[o]
        /\ torn' \in BOOLEAN
        /\ outcome' \in [Ids -> 0 .. MaxContracts]
    <2>1. lines' = lines \/ lines' = [lines EXCEPT ![o] = @ \cup {"outcome"}]
      BY DEF RecordRaised, Recorded
    <2>2. torn' \in BOOLEAN
      BY DEF RecordRaised, Recorded, TypeOK
    <2>3. /\ lines \in [Ids -> SUBSET {"submitted", "acked", "outcome", "applied"}]
          /\ outcome \in [Ids -> 0 .. MaxContracts] /\ rows[o] \in 0 .. MaxContracts
      BY <1>1 DEF TypeOK
    <2>4. Recorded(o, "outcome") => lines' = [lines EXCEPT ![o] = @ \cup {"outcome"}]
      BY DEF Recorded
    <2> QED
      BY <1>1, <2>1, <2>2, <2>3, <2>4
  <1>4. ExchangeTyped' /\ FilesTyped'
    BY <1>3, Types DEF ExchangeTyped, FilesTyped, exchange
  <1>5. Lived'
    <2>1. ASSUME NEW p \in Ids, p # o
          PROVE  Lives(p)'
      BY <1>3, <2>1 DEF Lived, Lives, Terminal, exchange
    <2>2. Lives(o)'
      <3>1. Lives(o) /\ "submitted" \in lines[o] /\ "outcome" \notin lines[o]
        BY <1>1 DEF Lived, Unresolved
      <3>2. o \notin wire
        BY <1>1, <3>1 DEF Lives
      <3> QED
        BY <1>1, <1>3, <3>1, <3>2 DEF Lives, Terminal, exchange
    <2> QED
      BY <2>1, <2>2 DEF Lived
  <1>6. \/ Unresolved' = {o} /\ Unapplied' = {} /\ ~Recorded(o, "outcome")
        \/ Unresolved' = {} /\ Unapplied' = {} /\ rows[o] = 0
        \/ Unresolved' = {} /\ Unapplied' = {o} /\ rows[o] # 0
    <2>1. "submitted" \in lines[o] /\ "outcome" \notin lines[o] /\ "applied" \notin lines[o]
      BY <1>1 DEF Unresolved, Lived, Lives
    <2>2. \A p \in Ids : p # o => p \notin Unresolved' /\ p \notin Unapplied'
      BY <1>2, <1>3 DEF Unresolved, Unapplied
    <2>3. CASE "outcome" \notin lines'[o]
      BY <1>1, <1>3, <2>1, <2>2, <2>3 DEF Unresolved, Unapplied
    <2>4. CASE "outcome" \in lines'[o]
      <3>1. Unresolved' = {}
        BY <2>2, <2>4 DEF Unresolved
      <3>2. rows[o] = 0 => Unapplied' = {}
        BY <1>3, <2>2 DEF Unapplied
      <3>3. rows[o] # 0 => Unapplied' = {o}
        BY <1>1, <1>3, <2>1, <2>2, <2>4 DEF Unapplied
      <3> QED
        BY <3>1, <3>2, <3>3
    <2> QED
      BY <2>3, <2>4
  <1>7. shown = position
    <2>1. \A t \in Tickers : shown[t] = position[t]
      BY <1>1, <1>2 DEF Account
    <2> QED
      BY <2>1 DEF TypeOK
  <1>8. \A p \in Ids : "outcome" \in lines[p] => "outcome" \in lines'[p]
    BY <1>3
  <1> QED
    BY <1>1, <1>2, <1>4, <1>5, <1>6, <1>7, <1>8

LEMMA RecordOutcomeSteps ==
    ASSUME IInv, RecordOutcome
    PROVE  IInv'
  <1> USE DEF IInv
  <1> SUFFICES ASSUME NEW o, o = cur PROVE IInv'
    OBVIOUS
  <1>1. /\ step = "outcome" /\ mode \notin Stopped
        /\ outcome' = [outcome EXCEPT ![o] = rows[o]] /\ RecordRaised(o, "outcome")
        /\ UNCHANGED <<exchange, intent, ackline, ledger, left, round, stable, positions, starts>>
    BY DEF RecordOutcome, RecordRaised, flatten, resolver, Placed
  <1>2. /\ ExchangeTyped' /\ FilesTyped' /\ Lived'
        /\ o \in Ids /\ o = Len(intent) /\ rows[o] = xorder[o].fill
        /\ Unresolved = {o} /\ Unapplied = {}
        /\ \/ Unresolved' = {o} /\ Unapplied' = {} /\ ~Recorded(o, "outcome")
           \/ Unresolved' = {} /\ Unapplied' = {} /\ rows[o] = 0
           \/ Unresolved' = {} /\ Unapplied' = {o} /\ rows[o] # 0
        /\ shown = position
        /\ \A p \in Ids : "outcome" \in lines[p] => "outcome" \in lines'[p]
    BY <1>1, OutcomeWritten
  <1>3. /\ ProcessTyped' /\ Placed' /\ Working'
        /\ mode' \notin {"flat", "startup"} \/ (mode = "startup" /\ mode' = "startup")
        /\ (mode' \in Session => mode \in Session) /\ step' # "applied"
        /\ (step' = "apply" => cur' = o)
        /\ (step' \in Quiet => Pending' = {})
    <2>1. CASE RecordRaised(o, "outcome") /\ Fail /\ UNCHANGED draining
      BY <1>1, <2>1, ProcessIsTyped, FailingProcess DEF Quiet, draining
    <2>2. CASE Recorded(o, "outcome") /\ Draining /\ NextEntry(rows[o] # 0)
      <3>1. step' = "entry" /\ mode' = mode /\ cur' = 0 /\ todo' = todo \ {o} /\ torn' = torn
        BY <2>2 DEF NextEntry, Recorded
      <3>2. errors' \in BOOLEAN
        BY <2>2 DEF NextEntry
      <3>3. ProcessTyped'
        <4>1. cur' \in 0 .. MaxOrders /\ todo' \subseteq Ids
          BY <3>1, ProcessIsTyped, LiveOrdersAssumption
        <4> QED
          BY <1>1, <3>1, <3>2, <4>1, ProcessIsTyped, ControlTyped DEF Steps
      <3>4. Placed'
        BY <1>1, <2>2, <3>1 DEF Placed, Drain, Executing, Stopped, Draining
      <3>5. Working'
        <4>1. todo \subseteq Unresolved
          BY <1>1, <2>2 DEF Working
        <4>2. todo' = {}
          BY <1>2, <3>1, <4>1
        <4> QED
          BY <3>1, <4>2 DEF Working, Unsettled
      <3> QED
        BY <2>2, <3>1, <3>3, <3>4, <3>5 DEF Quiet, Draining, Session
    <2>3. CASE Recorded(o, "outcome") /\ ~Draining /\ rows[o] = 0 /\ Return /\ UNCHANGED draining
      <3>1. /\ mode' = mode /\ cur' = 0 /\ torn' = torn /\ todo' = todo /\ errors' = errors
            /\ \/ mode = "trade" /\ step' = "idle"
               \/ mode = "flatten" /\ step' = "next"
        BY <1>1, <2>3 DEF Return, Recorded, draining, Draining, Placed, Drain, Executing, Stopped, TypeOK
      <3>2. ProcessTyped'
        <4>1. cur' \in 0 .. MaxOrders /\ step' \in Steps
          BY <3>1, LiveOrdersAssumption DEF Steps
        <4> QED
          BY <1>1, <3>1, <4>1, ProcessIsTyped, ControlTyped
      <3>3. Placed'
        BY <1>1, <3>1 DEF Placed, Drain, Executing, Stopped
      <3>4. Working'
        BY <3>1 DEF Working, Unsettled
      <3>5. Pending' = {}
        BY <1>2, <2>3 DEF Pending
      <3> QED
        BY <3>1, <3>2, <3>3, <3>4, <3>5 DEF Session
    <2>4. CASE Recorded(o, "outcome") /\ ~Draining /\ rows[o] # 0 /\ step' = "apply"
               /\ UNCHANGED <<mode, cur, draining>>
      <3>1. mode \in {"trade", "flatten"} /\ torn' = torn /\ todo' = todo /\ errors' = errors
        BY <1>1, <2>4 DEF Recorded, draining, Draining, Placed, Drain, Executing, Stopped, TypeOK
      <3>2. ProcessTyped'
        BY <1>1, <2>4, <3>1, ProcessIsTyped, ControlTyped DEF Steps
      <3>3. Placed'
        BY <1>1, <2>4, <3>1 DEF Placed, Drain, Executing, Stopped
      <3>4. Working'
        BY <1>2, <2>4 DEF Working, Unsettled
      <3> QED
        BY <2>4, <3>1, <3>2, <3>3, <3>4 DEF Session, Quiet
    <2> QED
      BY <2>1, <2>2, <2>3, <2>4 DEF RecordOutcome
  <1>4. /\ o \in 1 .. Len(intent) /\ intent[o].ticker \in Tickers /\ xorder[o].fill \in Nat
        /\ intent[o].pre \in Int
        /\ Pending = {o} /\ position[intent[o].ticker] = intent[o].pre + Signed(o, xorder[o].fill)
    <2>1. o \in Pending
      BY <1>2 DEF Pending
    <2> QED
      BY <1>2, <2>1, PendingIs, IntentTyped, OrderTyped DEF Account, Pending
  <1>5. \/ Pending' = {o}
        \/ Pending' = {} /\ Unresolved' = {} /\ rows[o] = 0 /\ xorder[o].fill = 0
    BY <1>2 DEF Pending
  <1>6. Latest'
    BY <1>1, <1>2, <1>3, <1>5 DEF Latest, Quiet, Placed, Stopped
  <1>7. Account'
    <2>1. mode' # "flat"
      BY <1>3
    <2>2. \A p \in Pending' : p \in Pending
      BY <1>4, <1>5
    <2> QED
      BY <1>1, <1>2, <2>1, <2>2 DEF Account, Signed, exchange
  <1>8. Book'
    <2>1. ASSUME mode \in Session
          PROVE  \A t \in Tickers : positions[t] # position[t]
                    => \E p \in Pending' : intent[p].ticker = t
      <3>1. CASE Pending' = {o}
        BY <1>4, <2>1, <3>1 DEF Book
      <3>2. CASE xorder[o].fill = 0
        <4>1. position[intent[o].ticker] = intent[o].pre
          BY <1>4, <3>2 DEF Signed
        <4>2. positions[intent[o].ticker] = intent[o].pre
          BY <1>2, <2>1 DEF Book
        <4> QED
          BY <1>4, <2>1, <4>1, <4>2 DEF Book
      <3> QED
        BY <1>5, <3>1, <3>2
    <2>2. mode \in Session => positions[intent[o].ticker] = intent[o].pre
      BY <1>2 DEF Book
    <2>3. mode' = "startup" => positions = Flat
      BY <1>3 DEF Book
    <2>4. \A p \in Unresolved' : p = o
      BY <1>2
    <2> QED
      BY <1>1, <1>3, <2>1, <2>2, <2>3, <2>4 DEF Book, exchange
  <1>9. Booked'
    <2>1. \A e \in ledger : e[1] \in Ids
      BY DEF TypeOK
    <2>2. ASSUME NEW p \in 1 .. Len(intent), Sold(p), p \notin Pending'
          PROVE  p \notin Pending
      BY <1>4, <1>5, <2>2 DEF Sold
    <2> QED
      BY <1>1, <1>2, <1>3, <2>1, <2>2 DEF Booked, Sold, exchange
  <1> QED
    BY <1>2, <1>3, <1>6, <1>7, <1>8, <1>9
       DEF TypeOK, ExchangeTyped, FilesTyped, ProcessTyped, Modes, Steps, Stopped

\* The order being applied has traded its outcome, which closes no more than
\* is held.
LEMMA Applying ==
    ASSUME IInv, step \in {"apply", "applied"}, NEW o, o = cur
    PROVE  /\ o \in Ids /\ o \in 1 .. Len(intent) /\ o = Len(intent)
           /\ Unapplied = {o} /\ Unresolved = {} /\ Pending = {o}
           /\ mode \in {"trade", "flatten"}
           /\ outcome[o] = xorder[o].fill /\ outcome[o] \in 1 .. MaxContracts
           /\ intent[o].ticker \in Tickers /\ intent[o].side \in {"BUY", "SELL"}
           /\ intent[o].pre \in Int
           /\ outcome[o] <= intent[o].count /\ intent[o].count <= MaxContracts
           /\ position[intent[o].ticker] = intent[o].pre + Signed(o, outcome[o])
           /\ intent[o].side = "BUY" => intent[o].pre = 0
           /\ intent[o].side = "SELL" => outcome[o] <= intent[o].pre
           /\ shown = position
  <1> USE DEF IInv
  <1>1. o \in Unapplied /\ o \in Pending /\ o \notin Unresolved /\ o \in Ids
        /\ "outcome" \in lines[o] /\ outcome[o] # 0
    BY DEF Working, Unapplied, Unresolved, Pending
  <1>2. o \in 1 .. Len(intent) /\ o = Len(intent) /\ \A p \in Pending : p = o
    BY <1>1, PendingIs DEF Latest
  <1>3. Unapplied = {o} /\ Unresolved = {} /\ Pending = {o}
    BY <1>1, <1>2 DEF Pending
  <1>4. mode \in {"trade", "flatten"}
    BY DEF Placed, Drain, Executing, Stopped, TypeOK
  <1>5. /\ outcome[o] = xorder[o].fill
        /\ xorder[o].fill + xorder[o].remaining <= intent[o].count
    BY <1>1, <1>2 DEF Lived, Lives
  <1>6. /\ xorder[o].fill \in Nat /\ xorder[o].remaining \in Nat
        /\ xorder[o].fill <= MaxContracts
    BY <1>1, OrderTyped
  <1>7. /\ intent[o].ticker \in Tickers /\ intent[o].side \in {"BUY", "SELL"}
        /\ intent[o].pre \in Int /\ intent[o].count \in 1 .. MaxContracts
    BY <1>2, IntentTyped
  <1>8. outcome[o] \in 1 .. MaxContracts /\ outcome[o] <= intent[o].count
        /\ intent[o].count <= MaxContracts /\ intent[o].count \in Nat
    BY <1>1, <1>5, <1>6, <1>7, LiveOrdersAssumption
  <1>9. /\ position[intent[o].ticker] = intent[o].pre + Signed(o, outcome[o])
        /\ intent[o].side = "BUY" => intent[o].pre = 0
        /\ intent[o].side = "SELL" => intent[o].count <= intent[o].pre
    BY <1>1, <1>5 DEF Account
  <1>10. intent[o].side = "SELL" => outcome[o] <= intent[o].pre
    BY <1>7, <1>8, <1>9, LiveOrdersAssumption
  <1>11. shown = position
    <2>1. \A t \in Tickers : shown[t] = position[t]
      BY <1>3 DEF Account
    <2> QED
      BY <2>1 DEF TypeOK
  <1> QED
    BY <1>1, <1>2, <1>3, <1>4, <1>5, <1>7, <1>8, <1>9, <1>10, <1>11

LEMMA RecordFillSteps ==
    ASSUME IInv, RecordFill
    PROVE  IInv'
  <1> USE DEF IInv
  <1> SUFFICES ASSUME NEW o, o = cur PROVE IInv'
    OBVIOUS
  <1> DEFINE t == intent[o].ticker
             closing == IF outcome[o] < positions[t] THEN outcome[o] ELSE positions[t]
             booked == IF intent[o].side = "SELL" /\ positions[t] > 0
                          /\ \A e \in ledger : e[1] # o
                       THEN ledger \cup {<<o, closing>>} ELSE ledger
  <1>1. /\ step = "apply"
        /\ UNCHANGED <<exchange, intent, lines, ackline, outcome, todo, errors, left, round,
                       stable, starts>>
        /\ torn' \in {torn, TRUE} /\ ledger' \in {booked, ledger}
        /\ \/ /\ ledger' = booked /\ torn' = torn
              /\ positions' = [positions EXCEPT ![t] =
                    IF intent[o].side = "BUY" THEN @ + outcome[o] ELSE @ - closing]
              /\ step' = "applied" /\ mode' = mode /\ cur' = o
           \/ positions' = positions /\ Fail
    BY DEF RecordFill, Closing, draining, flatten, resolver
  <1>2. /\ o \in Ids /\ o \in 1 .. Len(intent)
        /\ Unapplied = {o} /\ Unresolved = {} /\ Pending = {o}
        /\ mode \in {"trade", "flatten"}
        /\ outcome[o] = xorder[o].fill /\ outcome[o] \in 1 .. MaxContracts
        /\ t \in Tickers /\ intent[o].side \in {"BUY", "SELL"}
        /\ intent[o].pre \in Int
        /\ position[t] = intent[o].pre + Signed(o, outcome[o])
        /\ intent[o].side = "BUY" => intent[o].pre = 0
        /\ intent[o].side = "SELL" => outcome[o] <= intent[o].pre
    BY <1>1, Applying
  <1>3. positions[t] = intent[o].pre /\ positions \in [Tickers -> 0 .. MaxContracts]
        /\ \A u \in Tickers : u # t => positions[u] = position[u]
    BY <1>1, <1>2, ZenonT(60) DEF Book, Session, TypeOK
  <1>4. intent[o].side = "SELL" => closing = outcome[o] /\ positions[t] > 0
    BY <1>2, <1>3, LiveOrdersAssumption
  <1>5. Unresolved' = Unresolved /\ Unapplied' = Unapplied /\ Pending' = Pending
    BY <1>1 DEF Unresolved, Unapplied, Pending
  <1>6. \A e \in ledger' : \/ e \in ledger
                           \/ e = <<o, outcome[o]>> /\ intent[o].side = "SELL"
    BY <1>1, <1>4
  <1>7. ledger \subseteq ledger' /\ ledger' \subseteq Ids \X (0 .. MaxContracts)
    <2>1. ledger \subseteq Ids \X (0 .. MaxContracts)
      BY DEF TypeOK
    <2>2. ledger \subseteq ledger'
      BY <1>1
    <2> QED
      BY <1>2, <1>6, <2>1, <2>2, LiveOrdersAssumption
  <1>8. ledger' = booked /\ Sold(o) => <<o, xorder[o].fill>> \in ledger'
    <2>1. SUFFICES ASSUME ledger' = booked, Sold(o)
                   PROVE  <<o, outcome[o]>> \in ledger'
      BY <1>2
    <2>2. intent[o].side = "SELL"
      BY <2>1 DEF Sold
    <2>3. CASE \A e \in ledger : e[1] # o
      BY <1>4, <2>1, <2>2, <2>3
    <2>4. CASE \E e \in ledger : e[1] = o
      <3>1. PICK e \in ledger : e[1] = o
        BY <2>4
      <3>2. e[2] = outcome[o] /\ e \in Ids \X (0 .. MaxContracts)
        BY <1>2, <3>1 DEF Booked, TypeOK
      <3>3. e = <<o, outcome[o]>>
        BY <3>1, <3>2
      <3> QED
        BY <1>7, <3>1, <3>3
    <2> QED
      BY <2>3, <2>4
  <1>9. /\ positions' \in [Tickers -> 0 .. MaxContracts]
        /\ step' = "applied" => positions' = position
        /\ \A u \in Tickers : u # t => positions'[u] = position[u]
    <2> HIDE DEF booked, t
    <2>1. CASE positions' = positions /\ Fail
      BY <1>3, <2>1 DEF Fail, Goto
    <2>2. CASE /\ step' = "applied"
               /\ positions' = [positions EXCEPT ![t] =
                    IF intent[o].side = "BUY" THEN @ + outcome[o] ELSE @ - closing]
      <3>1. (IF intent[o].side = "BUY" THEN positions[t] + outcome[o]
             ELSE positions[t] - closing) = position[t]
            /\ position[t] \in 0 .. MaxContracts
        <4> HIDE DEF closing
        <4>0. positions[t] \in 0 .. MaxContracts
          BY <1>2, <1>3
        <4>1. CASE intent[o].side = "BUY"
          <5>1. Signed(o, outcome[o]) = outcome[o]
            BY <4>1 DEF Signed
          <5> QED
            BY <1>2, <1>3, <4>1, <5>1, LiveOrdersAssumption
        <4>2. CASE intent[o].side = "SELL"
          <5>1. Signed(o, outcome[o]) = 0 - outcome[o]
            BY <1>2, <4>2, LiveOrdersAssumption DEF Signed
          <5> QED
            BY <1>2, <1>3, <1>4, <4>0, <4>2, <5>1, LiveOrdersAssumption
        <4> QED
          BY <1>2, <4>1, <4>2
      <3>2. positions' = [positions EXCEPT ![t] = position[t]]
        BY <2>2, <3>1
      <3>3. \A u \in Tickers : positions'[u] = position[u]
        BY <1>3, <3>2
      <3>4. position \in [Tickers -> Int] /\ positions' \in [Tickers -> 0 .. MaxContracts]
        BY <1>2, <1>3, <3>1, <3>2 DEF TypeOK
      <3> QED
        BY <3>3, <3>4
    <2> QED
      BY <1>1, <2>1, <2>2
  <1>10. ExchangeTyped' /\ FilesTyped'
    <2>1. torn' \in BOOLEAN
      BY <1>1 DEF TypeOK
    <2> QED
      BY <1>1, <1>7, <2>1, Types DEF ExchangeTyped, FilesTyped, exchange
  <1>11. Lived'
    BY <1>1 DEF Lived, Lives, Terminal, exchange
  <1>12. /\ ProcessTyped' /\ Placed' /\ Working' /\ step' \notin Quiet
         /\ mode' \notin {"flat", "startup"} /\ step' # "apply"
         /\ (step' = "applied" => cur' = o /\ ledger' = booked)
    <2> HIDE DEF booked, closing, t
    <2>1. CASE positions' = positions /\ Fail
      BY <1>1, <1>2, <2>1, ProcessIsTyped, FailingProcess DEF Quiet, Stopped
    <2>2. CASE step' = "applied" /\ mode' = mode /\ cur' = o /\ torn' = torn /\ ledger' = booked
      <3>1. ProcessTyped'
        <4>1. mode' \in Modes /\ step' \in Steps /\ cur' \in 0 .. MaxOrders
          BY <2>2, ProcessIsTyped DEF Steps
        <4>2. starts' \in 0 .. MaxStarts
          BY <1>1 DEF TypeOK
        <4>3. errors' \in BOOLEAN
          BY <1>1, ProcessIsTyped
        <4> QED
          BY <1>1, <1>9, <4>1, <4>2, <4>3, ProcessIsTyped DEF ProcessTyped
      <3>2. Placed'
        BY <1>1, <1>2, <2>2 DEF Placed, Executing, Stopped
      <3>3. Working'
        BY <1>2, <1>5, <2>2 DEF Working, Unsettled
      <3> QED
        BY <1>2, <2>2, <3>1, <3>2, <3>3 DEF Quiet
    <2> QED
      BY <1>1, <2>1, <2>2
  <1>13. Latest'
    BY <1>1, <1>5, <1>12 DEF Latest
  <1>14. Account'
    BY <1>1, <1>5, <1>12 DEF Account, Signed, exchange
  <1>15. Book'
    <2> HIDE DEF booked, closing
    <2>1. \A u \in Tickers : positions'[u] # position[u] => \E p \in Pending' : intent[p].ticker = u
      BY <1>2, <1>5, <1>9
    <2> QED
      BY <1>1, <1>2, <1>5, <1>9, <1>12, <2>1 DEF Book, exchange
  <1>16. Booked'
    <2> HIDE DEF booked, closing, t
    <2>1. ASSUME NEW e \in ledger'
          PROVE  Sold(e[1]) /\ e[1] <= Len(intent) /\ e[2] = xorder[e[1]].fill
                 /\ "outcome" \in lines[e[1]]
      <3>1. CASE e \in ledger
        BY <3>1 DEF Booked
      <3>2. CASE e = <<o, outcome[o]>> /\ intent[o].side = "SELL"
        <4>1. e[1] = o /\ e[2] = xorder[o].fill /\ xorder[o].fill > 0 /\ o <= Len(intent)
          BY <1>2, <3>2, LiveOrdersAssumption DEF TypeOK
        <4>2. "outcome" \in lines[o]
          BY <1>2 DEF Unapplied
        <4> QED
          BY <3>2, <4>1, <4>2 DEF Sold
      <3> QED
        BY <1>6, <3>1, <3>2
    <2>2. ASSUME NEW p \in 1 .. Len(intent), Sold(p),
                 p \notin Pending \/ (step' = "applied" /\ p = o)
          PROVE  <<p, xorder[p].fill>> \in ledger'
      <3>1. CASE p \notin Pending
        BY <1>7, <2>2, <3>1 DEF Booked
      <3>2. CASE step' = "applied" /\ p = o
        BY <1>8, <1>12, <2>2, <3>2
      <3> QED
        BY <2>2, <3>1, <3>2
    <2> QED
      BY <1>1, <1>5, <1>12, <2>1, <2>2 DEF Booked, Sold, exchange
  <1> QED
    BY <1>10, <1>11, <1>12, <1>13, <1>14, <1>15, <1>16
       DEF TypeOK, ExchangeTyped, FilesTyped, ProcessTyped, Modes, Steps, Stopped

LEMMA RecordAppliedSteps ==
    ASSUME IInv, RecordApplied
    PROVE  IInv'
  <1> USE DEF IInv
  <1> SUFFICES ASSUME NEW o, o = cur PROVE IInv'
    OBVIOUS
  <1>1. /\ step = "applied" /\ RecordRaised(o, "applied")
        /\ UNCHANGED <<exchange, intent, ackline, outcome, ledger, todo, errors, left, round,
                       stable, positions, starts>>
        /\ \/ Recorded(o, "applied") /\ Return
           \/ Fail
    BY DEF RecordApplied, RecordRaised, draining, flatten, resolver
  <1>2. /\ o \in Ids /\ o \in 1 .. Len(intent)
        /\ Unapplied = {o} /\ Unresolved = {} /\ Pending = {o}
        /\ mode \in {"trade", "flatten"}
        /\ shown = position /\ positions = position
    BY <1>1, Applying DEF Book, Session
  <1>3. /\ lines' \in [Ids -> SUBSET {"submitted", "acked", "outcome", "applied"}]
        /\ \A p \in Ids : p # o => lines'[p] = lines[p]
        /\ lines'[o] = lines[o] \/ lines'[o] = lines[o] \cup {"applied"}
        /\ Recorded(o, "applied") => lines'[o] = lines[o] \cup {"applied"} /\ torn' = torn
        /\ torn' \in BOOLEAN
    <2>1. lines' = lines \/ lines' = [lines EXCEPT ![o] = @ \cup {"applied"}]
      BY <1>1 DEF RecordRaised, Recorded
    <2>2. torn' \in BOOLEAN
      BY <1>1 DEF RecordRaised, Recorded, TypeOK
    <2>3. lines \in [Ids -> SUBSET {"submitted", "acked", "outcome", "applied"}]
      BY DEF TypeOK
    <2>4. Recorded(o, "applied") => lines' = [lines EXCEPT ![o] = @ \cup {"applied"}] /\ torn' = torn
      BY DEF Recorded
    <2> QED
      BY <1>2, <2>1, <2>2, <2>3, <2>4
  <1>4. /\ Unresolved' = {} /\ Pending' \subseteq {o}
        /\ Recorded(o, "applied") => Pending' = {}
    <2>1. "submitted" \in lines[o] /\ "outcome" \in lines[o]
      BY <1>2 DEF Unapplied, Lived, Lives
    <2>2. \A p \in Ids : p # o => p \notin Unresolved' /\ p \notin Unapplied'
      BY <1>1, <1>2, <1>3 DEF Unresolved, Unapplied
    <2>3. o \notin Unresolved'
      BY <1>3, <2>1 DEF Unresolved
    <2>4. Recorded(o, "applied") => o \notin Unapplied'
      BY <1>3 DEF Unapplied
    <2>5. Unresolved' \subseteq Ids /\ Unapplied' \subseteq Ids
      BY DEF Unresolved, Unapplied
    <2> QED
      BY <2>2, <2>3, <2>4, <2>5 DEF Pending
  <1>5. ExchangeTyped' /\ FilesTyped'
    BY <1>1, <1>3, Types DEF ExchangeTyped, FilesTyped, exchange
  <1>6. Lived'
    <2>1. ASSUME NEW p \in Ids, p # o
          PROVE  Lives(p)'
      BY <1>1, <1>3, <2>1 DEF Lived, Lives, Terminal, exchange
    <2>2. Lives(o)'
      <3>1. Lives(o) /\ "submitted" \in lines[o] /\ "outcome" \in lines[o]
        BY <1>2 DEF Unapplied, Lived, Lives
      <3> QED
        BY <1>1, <1>3, <3>1 DEF Lives, Terminal, exchange
    <2> QED
      BY <2>1, <2>2 DEF Lived
  <1>7. /\ ProcessTyped' /\ Placed' /\ Working'
        /\ mode' \notin {"flat", "startup"} /\ step' \notin {"apply", "applied"}
        /\ (step' \in Quiet => Pending' = {})
    <2>1. CASE Fail
      BY <1>1, <1>2, <2>1, ProcessIsTyped, FailingProcess DEF Quiet, Stopped
    <2>2. CASE Recorded(o, "applied") /\ Return
      <3>1. /\ mode' = mode /\ cur' = 0 /\ torn' = torn
            /\ \/ mode = "trade" /\ step' = "idle"
               \/ mode = "flatten" /\ step' = "next"
        BY <1>2, <1>3, <2>2 DEF Return
      <3>2. ProcessTyped'
        <4>1. cur' \in 0 .. MaxOrders /\ step' \in Steps
          BY <3>1, LiveOrdersAssumption DEF Steps
        <4> QED
          BY <1>1, <3>1, <4>1, ProcessIsTyped, ControlTyped
      <3>3. Placed'
        BY <1>1, <3>1 DEF Placed, Drain, Executing, Stopped
      <3>4. Working'
        BY <3>1 DEF Working, Unsettled
      <3> QED
        BY <1>4, <2>2, <3>1, <3>2, <3>3, <3>4
    <2> QED
      BY <1>1, <2>1, <2>2
  <1>8. Latest'
    BY <1>1, <1>2, <1>4, <1>7 DEF Latest
  <1>9. Account'
    BY <1>1, <1>2, <1>4, <1>7 DEF Account, Signed, exchange
  <1>10. Book'
    BY <1>1, <1>2, <1>4, <1>7 DEF Book, exchange
  <1>11. Booked'
    <2>1. \A e \in ledger : "outcome" \in lines[e[1]] => "outcome" \in lines'[e[1]]
      BY <1>3 DEF TypeOK
    <2>2. \A p \in 1 .. Len(intent) : Sold(p) => <<p, xorder[p].fill>> \in ledger
      BY <1>1, <1>2 DEF Booked
    <2> QED
      BY <1>1, <2>1, <2>2 DEF Booked, Sold, exchange
  <1> QED
    BY <1>5, <1>6, <1>7, <1>8, <1>9, <1>10, <1>11
       DEF TypeOK, ExchangeTyped, FilesTyped, ProcessTyped, Modes, Steps, Stopped

\* A new order: everything before it is settled, so what it is checked against
\* is the account.
LEMMA SubmitSteps ==
    ASSUME IInv, NEW t \in Tickers, NEW side \in {"BUY", "SELL"}, NEW count \in 1 .. MaxContracts,
           NEW expected, expected = positions[t],
           side = "BUY" => expected = 0, side = "SELL" => count = expected,
           step \in {"idle", "next"}, left' \subseteq left, round' = round,
           Submit(t, side, count, expected)
    PROVE  IInv'
  <1> USE DEF IInv
  <1> SUFFICES ASSUME NEW o, o = Len(intent) + 1 PROVE IInv'
    OBVIOUS
  <1> DEFINE line == [ticker |-> t, side |-> side, count |-> count, pre |-> shown[t]]
  <1>1. /\ o \in Ids /\ shown[t] = expected
        /\ intent' = Append(intent, line)
        /\ RecordRaised(o, "submitted")
        /\ \/ /\ Recorded(o, "submitted") /\ wire' = wire \cup {o}
              /\ cur' = o /\ step' = "create" /\ mode' = mode
           \/ wire' = wire /\ Fail
        /\ UNCHANGED <<xorder, position, shown, rows, ackline, outcome, ledger, todo, errors,
                       stable, positions, starts>>
    BY DEF Submit, MaySubmit, RecordRaised, draining, resolver
  <1>2. /\ mode \in {"trade", "flatten"} /\ Pending = {} /\ Unresolved = {} /\ Unapplied = {}
        /\ ~torn
    BY DEF Placed, Drain, Executing, Stopped, TypeOK, Latest, Quiet, Pending
  <1>3. shown = position /\ positions = position
    <2>1. \A u \in Tickers : shown[u] = position[u] /\ positions[u] = position[u]
      BY <1>2 DEF Account, Book, Session
    <2> QED
      BY <2>1 DEF TypeOK
  <1>4. /\ Len(intent) \in Nat /\ o \in Nat /\ Len(intent') = o /\ o <= MaxOrders
        /\ intent'[o] = line /\ \A p \in 1 .. Len(intent) : intent'[p] = intent[p]
        /\ intent' \in Seq([ticker : Tickers, side : {"BUY", "SELL"},
                            count : 1 .. MaxContracts, pre : Int])
    <2>1. /\ intent \in Seq([ticker : Tickers, side : {"BUY", "SELL"},
                           count : 1 .. MaxContracts, pre : Int])
          /\ shown[t] \in Int
      BY DEF TypeOK
    <2>2. line \in [ticker : Tickers, side : {"BUY", "SELL"},
                    count : 1 .. MaxContracts, pre : Int]
      BY <2>1
    <2>3. o \in Nat /\ o <= MaxOrders
      BY <1>1, LiveOrdersAssumption DEF Ids
    <2> HIDE DEF line
    <2> QED
      BY <1>1, <2>1, <2>2, <2>3
  <1>5. /\ lines[o] = {} /\ xorder[o].status = "none" /\ xorder[o].fill = 0 /\ o \notin wire
        /\ rows[o] = 0 /\ xorder[o].remaining = 0
    <2>1. Lives(o) /\ ~(o <= Len(intent))
      BY <1>1, <1>4 DEF Lived
    <2>2. "submitted" \notin lines[o] /\ o \notin wire
      BY <1>4, <2>1 DEF Lives
    <2>3. rows[o] \in Nat
      BY <1>1, OrderTyped
    <2> QED
      BY <2>1, <2>2, <2>3 DEF Lives
  <1>6. /\ lines' \in [Ids -> SUBSET {"submitted", "acked", "outcome", "applied"}]
        /\ \A p \in Ids : p # o => lines'[p] = lines[p]
        /\ lines'[o] = {} \/ lines'[o] = {"submitted"}
        /\ Recorded(o, "submitted") => lines'[o] = {"submitted"} /\ torn' = torn
        /\ torn' \in BOOLEAN
    <2>1. lines' = lines \/ lines' = [lines EXCEPT ![o] = @ \cup {"submitted"}]
      BY <1>1 DEF RecordRaised, Recorded
    <2>2. torn' \in BOOLEAN
      BY <1>1 DEF RecordRaised, Recorded, TypeOK
    <2>3. lines \in [Ids -> SUBSET {"submitted", "acked", "outcome", "applied"}]
      BY DEF TypeOK
    <2>4. Recorded(o, "submitted") => lines' = [lines EXCEPT ![o] = @ \cup {"submitted"}] /\ torn' = torn
      BY DEF Recorded
    <2> QED
      BY <1>1, <1>5, <2>1, <2>2, <2>3, <2>4
  <1>7. /\ Unapplied' = {} /\ Unresolved' \subseteq {o} /\ Pending' \subseteq {o}
        /\ Recorded(o, "submitted") => o \in Unresolved'
    <2>1. \A p \in Ids : p # o => p \notin Unresolved' /\ p \notin Unapplied'
      BY <1>1, <1>2, <1>6 DEF Unresolved, Unapplied
    <2>2. o \notin Unapplied' /\ (Recorded(o, "submitted") => o \in Unresolved')
      BY <1>1, <1>6 DEF Unresolved, Unapplied
    <2>3. Unresolved' \subseteq Ids /\ Unapplied' \subseteq Ids
      BY DEF Unresolved, Unapplied
    <2> QED
      BY <2>1, <2>2, <2>3 DEF Pending
  <1>8. wire = {} /\ wire' \subseteq {o} /\ (o \in wire' => lines'[o] = {"submitted"})
    <2>1. wire = {}
      BY <1>2, ZenonT(60) DEF Lived, Lives, Unresolved, TypeOK
    <2> QED
      BY <1>1, <1>6, <2>1
  <1>9. ExchangeTyped' /\ FilesTyped'
    <2>1. wire' \subseteq Ids /\ Len(intent') <= MaxOrders
      BY <1>1, <1>4, <1>8
    <2> HIDE DEF line
    <2> QED
      BY <1>1, <1>4, <1>6, <2>1, Types DEF ExchangeTyped, FilesTyped
  <1>10. Lived'
    <2> HIDE DEF line
    <2>1. ASSUME NEW p \in Ids, p # o
          PROVE  Lives(p)'
      <3>1. Lives(p) /\ p \notin wire /\ p \notin wire' /\ p \in Nat
        BY <1>8, <2>1, OrderTyped DEF Lived
      <3>2. p <= Len(intent') => p <= Len(intent) /\ intent'[p] = intent[p]
        BY <1>4, <2>1, <3>1, OrderTyped
      <3>3. p <= Len(intent) => p <= Len(intent')
        BY <1>4, <3>1
      <3> QED
        BY <1>1, <1>6, <2>1, <3>1, <3>2, <3>3 DEF Lives, Terminal
    <2>2. Lives(o)'
      <3>1. xorder[o].fill + xorder[o].remaining <= count
        BY <1>1, <1>5 DEF Lived, Lives
      <3>2. intent'[o].count = count
        BY <1>4 DEF line
      <3> QED
        <4>1. /\ xorder'[o].status = "none" /\ xorder'[o].fill = 0 /\ xorder'[o].remaining = 0
              /\ rows'[o] = 0 /\ Len(intent') = o
              /\ "submitted" \in lines'[o] \/ lines'[o] = {}
              /\ "acked" \notin lines'[o] /\ "outcome" \notin lines'[o]
              /\ "applied" \notin lines'[o]
          BY <1>1, <1>4, <1>5, <1>6
        <4>2. xorder'[o].fill + xorder'[o].remaining <= intent'[o].count
          BY <1>1, <3>1, <3>2
        <4> QED
          BY <1>4, <1>8, <4>1, <4>2 DEF Lives
    <2> QED
      BY <2>1, <2>2 DEF Lived
  <1> HIDE DEF line
  <1>11. /\ ProcessTyped' /\ Placed' /\ Working' /\ step' \notin Quiet
         /\ mode' \notin {"flat", "startup"} /\ step' \notin {"apply", "applied"}
    <2>1. left' \subseteq Tickers /\ round' \in 0 .. FlattenRetries
      BY ProcessIsTyped
    <2>2. CASE Fail
      BY <1>1, <1>2, <2>1, <2>2, ProcessIsTyped, FailingProcess DEF Quiet, Stopped
    <2>3. CASE Recorded(o, "submitted") /\ cur' = o /\ step' = "create" /\ mode' = mode
      <3>1. ProcessTyped'
        <4>1. cur' \in 0 .. MaxOrders /\ step' \in Steps
          BY <1>4, <2>3 DEF Steps
        <4> QED
          BY <1>1, <2>1, <2>3, <4>1, ProcessIsTyped, ControlTyped
      <3>2. Placed'
        BY <1>2, <1>6, <2>3 DEF Placed, Executing, Stopped
      <3>3. Working'
        BY <1>7, <2>3 DEF Working, Unsettled
      <3> QED
        BY <1>2, <2>3, <3>1, <3>2, <3>3 DEF Quiet
    <2> QED
      BY <1>1, <2>2, <2>3
  <1>12. Latest'
    BY <1>4, <1>7, <1>11 DEF Latest
  <1>13. Account'
    <2>1. ASSUME NEW p \in Pending'
          PROVE  /\ position[intent'[p].ticker] = intent'[p].pre + Signed(p, xorder[p].fill)'
                 /\ intent'[p].side = "BUY" => intent'[p].pre = 0
                 /\ intent'[p].side = "SELL" => intent'[p].count <= intent'[p].pre
      <3>1. p = o /\ intent'[p] = line /\ xorder'[p].fill = 0
        BY <1>1, <1>4, <1>5, <1>7
      <3>2. Signed(p, xorder[p].fill)' = 0
        <4>1. Signed(p, xorder[p].fill)' = xorder'[p].fill
              \/ Signed(p, xorder[p].fill)' = -(xorder'[p].fill)
          BY DEF Signed
        <4> QED
          BY <3>1, <4>1
      <3>3. line.ticker = t /\ line.side = side /\ line.count = count /\ line.pre = expected
        BY <1>1 DEF line
      <3>4. position[t] = expected /\ expected \in Int
        BY <1>1, <1>3 DEF TypeOK
      <3> QED
        BY <3>1, <3>2, <3>3, <3>4
    <2>2. \A u \in Tickers : shown'[u] = position'[u]
      BY <1>1, <1>3
    <2> QED
      BY <1>1, <1>11, <2>1, <2>2 DEF Account
  <1>14. Book'
    <2>1. ASSUME NEW p \in Unresolved'
          PROVE  positions'[intent'[p].ticker] = intent'[p].pre
      <3>1. p = o /\ intent'[p] = line
        BY <1>4, <1>7
      <3>2. line.ticker = t /\ line.pre = expected
        BY <1>1 DEF line
      <3> QED
        BY <1>1, <3>1, <3>2
    <2> QED
      BY <1>1, <1>3, <1>11, <2>1 DEF Book
  <1>15. Booked'
    <2>1. ASSUME NEW e \in ledger
          PROVE  (Sold(e[1]) /\ e[1] <= Len(intent) /\ e[2] = xorder[e[1]].fill
                  /\ "outcome" \in lines[e[1]])'
      <3>1. e[1] \in Ids /\ e[1] \in Nat /\ e[1] >= 1 /\ e[1] <= Len(intent)
            /\ Sold(e[1]) /\ e[2] = xorder[e[1]].fill /\ "outcome" \in lines[e[1]]
        <4>1. e[1] \in Ids
          BY DEF TypeOK
        <4> QED
          BY <4>1, OrderTyped DEF Booked
      <3>2. e[1] # o /\ e[1] \in 1 .. Len(intent)
        BY <1>4, <3>1
      <3>3. intent'[e[1]] = intent[e[1]] /\ lines'[e[1]] = lines[e[1]] /\ e[1] <= Len(intent')
        BY <1>4, <1>6, <3>1, <3>2
      <3> QED
        BY <1>1, <3>1, <3>3 DEF Sold
    <2>2. ASSUME NEW p \in 1 .. Len(intent'), Sold(p)'
          PROVE  <<p, xorder[p].fill>> \in ledger
      <3>1. p # o
        BY <1>1, <1>5, <2>2 DEF Sold
      <3>2. p \in 1 .. Len(intent) /\ intent'[p] = intent[p]
        BY <1>4, <2>2, <3>1
      <3> QED
        BY <1>1, <1>2, <2>2, <3>2 DEF Booked, Sold
    <2> QED
      BY <1>1, <2>1, <2>2 DEF Booked
  <1> QED
    BY <1>9, <1>10, <1>11, <1>12, <1>13, <1>14, <1>15
       DEF TypeOK, ExchangeTyped, FilesTyped, ProcessTyped, Modes, Steps, Stopped

\* Exit, entry and flatten_all, through execute.
LEMMA ExecuteSteps ==
    ASSUME IInv, NEW t \in Tickers, Exit(t) \/ Entry(t) \/ FlattenNext(t)
    PROVE  IInv'
  <1> USE DEF IInv
  <1>1. positions[t] \in 0 .. MaxContracts
    BY DEF TypeOK
  <1>2. step \in {"idle", "next"} /\ left' \subseteq left /\ round' = round
    BY DEF Exit, Entry, FlattenNext, flatten
  <1>3. ASSUME Execute(t, "SELL", positions[t], positions[t])
        PROVE  IInv'
    <2>1. CASE Submit(t, "SELL", positions[t], positions[t])
      <3>1. positions[t] \in 1 .. MaxContracts
        BY <1>1, <2>1, LiveOrdersAssumption DEF Submit, MaySubmit
      <3> QED
        BY <1>2, <2>1, <3>1, SubmitSteps
    <2>2. CASE /\ Refuse \/ NoPrice
               /\ UNCHANGED <<exchange, files, draining, resolver, positions, starts>>
      BY <1>2, <2>2, NothingSubmitted
    <2> QED
      BY <1>3, <2>1, <2>2 DEF Execute
  <1>4. ASSUME NEW count \in 1 .. MaxContracts, Execute(t, "BUY", count, 0), positions[t] = 0
        PROVE  IInv'
    <2>1. CASE Submit(t, "BUY", count, 0)
      BY <1>2, <1>4, <2>1, SubmitSteps
    <2>2. CASE /\ Refuse \/ NoPrice
               /\ UNCHANGED <<exchange, files, draining, resolver, positions, starts>>
      BY <1>2, <2>2, NothingSubmitted
    <2> QED
      BY <1>4, <2>1, <2>2 DEF Execute
  <1> QED
    BY <1>3, <1>4 DEF Exit, Entry, FlattenNext

-----------------------------------------------------------------------------
(* The invariant and what it gives. *)

LEMMA InitIInv == Init => IInv
  <1> SUFFICES ASSUME Init PROVE IInv
    OBVIOUS
  <1>1. TypeOK
    <2>1. ExchangeTyped
      BY LiveOrdersAssumption DEF Init, ExchangeTyped, Flat
    <2>2. FilesTyped
      <3>1. intent = << >> /\ torn \in BOOLEAN
        BY DEF Init
      <3>2. /\ lines = [o \in Ids |-> {}] /\ outcome = [o \in Ids |-> 0] /\ ledger = {}
            /\ ackline = [o \in Ids |-> [fill |-> 0, remaining |-> 0]]
        BY DEF Init
      <3>3. /\ lines \in [Ids -> SUBSET {"submitted", "acked", "outcome", "applied"}]
            /\ outcome \in [Ids -> 0 .. MaxContracts]
            /\ ackline \in [Ids -> [fill : 0 .. MaxContracts, remaining : 0 .. MaxContracts]]
        BY <3>2, LiveOrdersAssumption
      <3> QED
        BY <3>1, <3>2, <3>3, LiveOrdersAssumption DEF FilesTyped
    <2>3. ProcessTyped
      <3>1. errors \in BOOLEAN /\ mode = "failed" /\ step = "none"
        BY DEF Init
      <3>2. cur = 0 /\ todo = {} /\ left = {} /\ round = 0 /\ stable = 0 /\ starts = 0
            /\ positions = [t \in Tickers |-> 0]
        BY DEF Init, Flat
      <3> QED
        BY <3>1, <3>2, LiveOrdersAssumption DEF ProcessTyped, Modes, Steps, Stopped
    <2> QED
      BY <2>1, <2>2, <2>3, Types
  <1>2. Unresolved = {} /\ Unapplied = {} /\ Pending = {}
    BY DEF Init, Unresolved, Unapplied, Pending
  <1>3. mode = "failed" /\ step = "none" /\ torn = FALSE
    BY DEF Init
  <1>4. Placed /\ Latest /\ Working
    BY <1>2, <1>3 DEF Placed, Latest, Working, Stopped, Unsettled, Quiet
  <1>5. Lived
    <2>1. ASSUME NEW o \in Ids
          PROVE  /\ xorder[o].status = "none" /\ xorder[o].fill = 0 /\ xorder[o].remaining = 0
                 /\ lines[o] = {} /\ rows[o] = 0 /\ wire = {} /\ Len(intent) = 0
                 /\ o \in Nat /\ o >= 1
      BY LiveOrdersAssumption DEF Init, Ids
    <2> QED
      BY <2>1 DEF Lived, Lives
  <1>6. Account
    BY <1>2, <1>3 DEF Account, Init, Flat
  <1>7. Book
    BY <1>3 DEF Book, Session
  <1>8. Booked
    BY DEF Init, Booked
  <1> QED
    BY <1>1, <1>4, <1>5, <1>6, <1>7, <1>8 DEF IInv

LEMMA Stutter ==
    ASSUME IInv, UNCHANGED vars
    PROVE  IInv'
  <1> USE DEF IInv, vars
  <1>1. Unresolved' = Unresolved /\ Unapplied' = Unapplied /\ Pending' = Pending
    BY DEF Unresolved, Unapplied, Pending
  <1>2. TypeOK'
    BY ZenonT(60) DEF TypeOK
  <1>3. Placed' /\ Lived'
    BY DEF Placed, Lived, Lives, Terminal, Stopped
  <1>4. Latest' /\ Account'
    BY <1>1 DEF Latest, Account, Signed
  <1>5. Book' /\ Working' /\ Booked'
    BY <1>1 DEF Book, Working, Booked, Draining, Sold, Terminal
  <1> QED
    BY <1>2, <1>3, <1>4, <1>5

LEMMA NextIInv == IInv /\ [Next]_vars => IInv'
  <1> SUFFICES ASSUME IInv, [Next]_vars PROVE IInv'
    OBVIOUS
  <1>1. CASE Exchange
    BY <1>1, ExchangeSteps
  <1>2. CASE Process
    BY <1>2, ExecuteSteps, DrainSteps, AcknowledgeSteps, GivingUp, PollSteps, ResolveSteps,
       ResolutionFailsSteps, RecordOutcomeSteps, RecordFillSteps, RecordAppliedSteps, VerifySteps,
       RoundSteps DEF Process
  <1>3. CASE Decide
    BY <1>3, ExecuteSteps, RoundSteps DEF Decide
  <1>4. CASE Interrupt \/ Crash
    BY <1>4, GivingUp
  <1>5. CASE Restart
    BY <1>5, RestartSteps
  <1>6. CASE UNCHANGED vars
    BY <1>6, Stutter
  <1> QED
    BY <1>1, <1>2, <1>3, <1>4, <1>5, <1>6 DEF Next

LEMMA Invariance == Spec => []IInv
  BY InitIInv, NextIInv, PTL DEF Spec

\* Whenever the bot decides, its book is the account, none of its orders can
\* still trade, and the ledger holds every SELL fill once: process_tick never
\* acts on a position that a late request or a crash has changed.
THEOREM BooksAreExact == Spec => []TradesOnExactBooks
  <1>1. IInv => TradesOnExactBooks
    <2> SUFFICES ASSUME IInv PROVE TradesOnExactBooks
      OBVIOUS
    <2> USE DEF IInv
    <2>1. SUFFICES ASSUME mode = "trade", step = "idle"
                   PROVE  /\ positions = position /\ wire = {} /\ Open = {}
                          /\ ledger = {<<o, xorder[o].fill>> :
                                          o \in {i \in 1 .. Len(intent) : Sold(i)}}
      BY DEF TradesOnExactBooks
    <2>2. Pending = {} /\ Unresolved = {} /\ Unapplied = {}
      BY <2>1 DEF Latest, Quiet, Pending
    <2>3. positions = position
      <3>1. \A t \in Tickers : positions[t] = position[t]
        BY <2>1, <2>2 DEF Book, Session
      <3> QED
        BY <3>1 DEF TypeOK
    <2>4. wire = {} /\ Open = {}
      <3>1. \A o \in Ids : o \notin wire /\ o \notin Open
        BY <2>2 DEF Lived, Lives, Unresolved, Open, Terminal, TERMINAL_ORDER_STATUSES
      <3> QED
        BY <3>1 DEF TypeOK, Open
    <2>5. ASSUME NEW e \in ledger
          PROVE  e \in {<<o, xorder[o].fill>> : o \in {i \in 1 .. Len(intent) : Sold(i)}}
      <3>1. e \in Ids \X (0 .. MaxContracts) /\ Sold(e[1]) /\ e[1] <= Len(intent)
            /\ e[2] = xorder[e[1]].fill
        BY DEF TypeOK, Booked
      <3>2. e = <<e[1], e[2]>> /\ e[1] \in Ids
        BY <3>1
      <3>3. e[1] \in 1 .. Len(intent)
        <4>1. Len(intent) \in Nat
          BY DEF TypeOK
        <4>2. e[1] \in Nat /\ e[1] >= 1
          BY <3>2, OrderTyped
        <4> QED
          BY <3>1, <4>1, <4>2
      <3> QED
        BY <3>1, <3>2, <3>3
    <2>6. ASSUME NEW o \in 1 .. Len(intent), Sold(o)
          PROVE  <<o, xorder[o].fill>> \in ledger
      BY <2>2, <2>6 DEF Booked
    <2> QED
      BY <2>3, <2>4, <2>5, <2>6
  <1> QED
    BY <1>1, Invariance, PTL

\* At most one order is ever unsettled, and no SELL takes the account below
\* zero: _live's position check and the refusals of flatten_all suffice,
\* whichever create request arrives late.
THEOREM OneIsUnsettled == Spec => []OneUnsettledOrder
  <1>1. IInv => OneUnsettledOrder
    <2> SUFFICES ASSUME IInv PROVE OneUnsettledOrder
      OBVIOUS
    <2>1. Unresolved \cup Unapplied \subseteq {Len(intent)}
      BY DEF IInv, Latest, Pending
    <2>2. \/ Unresolved \cup Unapplied = {}
          \/ Unresolved \cup Unapplied = {Len(intent)}
      BY <2>1
    <2>3. Cardinality(Unresolved \cup Unapplied) <= 1
      <3>1. CASE Unresolved \cup Unapplied = {}
        BY <3>1, FS_EmptySet
      <3>2. CASE Unresolved \cup Unapplied = {Len(intent)}
        <4>1. Cardinality({Len(intent)}) = 1
          BY FS_Singleton
        <4> QED
          BY <3>2, <4>1
      <3> QED
        BY <2>2, <3>1, <3>2
    <2> QED
      BY <2>3 DEF OneUnsettledOrder, IInv, Account
  <1> QED
    BY <1>1, Invariance, PTL

\* A shutdown reports success only over a flat account without orders
\* (safe_shutdown, verify_flat).
THEOREM FlatIsVerified == Spec => []VerifiedMeansFlat
  <1>1. IInv => VerifiedMeansFlat
    <2> SUFFICES ASSUME IInv, mode = "flat"
                 PROVE  position = Flat /\ wire = {} /\ Open = {}
      BY DEF VerifiedMeansFlat
    <2>1. Unresolved = {} /\ position = Flat
      BY DEF IInv, Latest, Pending, Account
    <2>2. \A o \in Ids : o \notin wire /\ o \notin Open
      BY <2>1 DEF IInv, Lived, Lives, Unresolved, Open, Terminal, TERMINAL_ORDER_STATUSES
    <2> QED
      BY <2>1, <2>2 DEF IInv, TypeOK, Open
  <1> QED
    BY <1>1, Invariance, PTL

\* Only the exchange moves an order.
LEMMA OthersLeaveOrders ==
    ASSUME Process \/ Decide \/ Interrupt \/ Crash \/ Restart \/ UNCHANGED vars
    PROVE  xorder' = xorder
  <1>1. ASSUME NEW t \in Tickers, Exit(t) \/ Entry(t) \/ FlattenNext(t)
        PROVE  xorder' = xorder
    BY <1>1 DEF Exit, Entry, FlattenNext, Execute, Submit, exchange
  <1>2. CASE Acknowledge \/ CreateRaises \/ PollTerminal \/ Resolve \/ ResolutionFails
    BY <1>2 DEF Acknowledge, CreateRaises, PollTerminal, Resolve, ResolutionFails, exchange
  <1>3. CASE RecordOutcome \/ RecordFill \/ RecordApplied
    BY <1>3 DEF RecordOutcome, RecordFill, RecordApplied, exchange
  <1>4. CASE BeginDrain \/ ListStrays \/ EndDrain \/ ReadFlat
             \/ \E o \in Ids : DrainEntry(o) \/ CancelStray(o)
    BY <1>4 DEF BeginDrain, ListStrays, EndDrain, ReadFlat, DrainEntry, CancelStray, exchange
  <1>5. CASE FlattenGuard \/ FlattenRound \/ FlattenRoundEnds \/ VerifyFlat
    BY <1>5 DEF FlattenGuard, FlattenRound, FlattenRoundEnds, VerifyFlat, exchange
  <1>6. CASE Periodic \/ Interrupt \/ Crash \/ Restart \/ UNCHANGED vars
    BY <1>6 DEF Periodic, Interrupt, Crash, Restart, exchange, vars
  <1> QED
    BY <1>1, <1>2, <1>3, <1>4, <1>5, <1>6 DEF Process, Decide

\* An outcome line states what the order traded, and the order never trades
\* again (OrderResolver.resolve, OrderJournal.record).
THEOREM OutcomesAreFinal == Spec => OutcomeIsFinal
  <1>1. ASSUME IInv, [Next]_vars
        PROVE  [\A o \in Ids : "outcome" \in lines[o] =>
                   /\ xorder'[o] = xorder[o]
                   /\ outcome[o] = xorder[o].fill]_vars
    <2> SUFFICES ASSUME NEW o \in Ids, "outcome" \in lines[o]
                 PROVE  xorder'[o] = xorder[o] /\ outcome[o] = xorder[o].fill
      OBVIOUS
    <2>1. Terminal(o) /\ outcome[o] = xorder[o].fill /\ o \notin wire
      BY <1>1 DEF IInv, Lived, Lives, Terminal, TERMINAL_ORDER_STATUSES
    <2>2. o \notin Open /\ DOMAIN xorder = Ids
      BY <1>1, <2>1 DEF Open, Terminal, TERMINAL_ORDER_STATUSES, IInv, TypeOK
    <2>3. CASE Exchange
      <3>1. ASSUME NEW p \in Ids, Accept(p)
            PROVE  xorder'[o] = xorder[o]
        <4>1. p # o /\ \E w : xorder' = [xorder EXCEPT ![p] = w]
          BY <2>1, <3>1 DEF Accept
        <4> QED
          BY <2>2, <4>1
      <3>2. ASSUME NEW p \in Ids, FillResting(p) \/ EndResting(p)
            PROVE  xorder'[o] = xorder[o]
        <4>1. p # o
          BY <2>2, <3>2 DEF FillResting, EndResting
        <4> QED
          BY <2>2, <3>2, <4>1 DEF FillResting, EndResting
      <3>3. ASSUME NEW p \in Ids, Lose(p) \/ PublishFills(p)
            PROVE  xorder'[o] = xorder[o]
        BY <3>3 DEF Lose, PublishFills
      <3>4. ASSUME NEW t \in Tickers, PublishPosition(t)
            PROVE  xorder'[o] = xorder[o]
        BY <3>4 DEF PublishPosition
      <3>5. \/ \E p \in Ids : Accept(p) \/ FillResting(p) \/ EndResting(p) \/ Lose(p)
                              \/ PublishFills(p)
            \/ \E t \in Tickers : PublishPosition(t)
        BY <2>3 DEF Exchange
      <3> QED
        BY <2>1, <3>1, <3>2, <3>3, <3>4, <3>5
    <2>4. CASE Process \/ Decide \/ Interrupt \/ Crash \/ Restart \/ UNCHANGED vars
      BY <2>1, <2>4, OthersLeaveOrders
    <2> QED
      BY <1>1, <2>1, <2>3, <2>4 DEF Next
  <1> QED
    BY <1>1, Invariance, PTL DEF Spec, OutcomeIsFinal

=============================================================================
