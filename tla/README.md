# Verification of Inci

TLA+ models of the repository's own logic, the TLC configurations that check
them on small instances, and the TLAPS proofs of what holds for every instance.
Every definition is translated from the source named in `PROJECT.json`.

## The system

Inci is a Python program in two generations.

**Legacy v6 (the files at the root).** A single-threaded paper-trading loop
(`bot.py`) polls order books (`market_data.py`), decides per tick
(`engine.py`, `strategy.py`, `signals.py`), executes (`executor.py`; live order
code exists behind configuration) and survives restarts through an fsynced
order journal (`order_journal.py`), a P&L ledger (`pnl_ledger.py`) and a
reconciliation against the exchange (`safety.py`, `order_resolution.py`).

**Tennis v1 (`tennis_v1/`, `inci_tennis_*`).** A research recorder. Provider
threads hand captured inputs to a bounded ingress (`ingress.py`); one owner
thread drains it into the event runtime (`sequencer.py`), which appends every
input to a write-ahead journal (`wal.py`) before it reduces it (`reducer.py`,
`state.py`). A provider gate (`entitlements.py`) and a retention coordinator
(`retention.py`) authorize every byte; the coordinator also holds a
process-wide halt latch, deletes expired journals and recovers them at start.
An expert companion (`inci_tennis_runtime/expert_controller.py`) follows the
durable records and keeps its own journal
(`inci_tennis_io/expert_journal_store.py`). What it computes
(`inci_tennis_expert/`) is a reducer over a match's score (`tennis_score.py`),
its markets' books (`market_book.py`) and their moves (`synchronizer.py`). Beside
the recorder, a trial observer (`inci_tennis_runtime/sportradar_trial_cli.py`)
polls a feed whose trial allows few requests, and accounts for each on disk
(`inci_tennis_io/sportradar_trial_transport.py`).

### Inventory

| Component | State | Operations | Interacts with | What is hard | What makes it correct |
|---|---|---|---|---|---|
| Event runtime | state, trace, closed, poisoned | ingest, poll, close | journal, gate, retention | failure between two durable writes; verdicts that change inside a call | durable before reduce; one terminal; a denial is final |
| Journal | file bytes, counters | create, append, close, scan, replay | retention capability | torn writes, crash at any byte | never ambiguous; clean implies exact replay |
| Bounded ingress | queue, provisional records, fault, intents | enqueue, drain, close | producers (threads), runtime | deadlines racing the owner's progress | a producer is told the truth, exactly once |
| Retention | capabilities, markers, logs, reserves, halt latch | acquire, recover, arm, write, mark clean, read, expire | runtime, file system, other coordinators of the process | crash or power failure between two file operations; a halt between two steps of a write | no bytes without their durable marker; a due journal goes; a halt stops bytes |
| Entitlement gate | pinned artifacts, clock floor | require, poll, close | runtime, capture | clock rollback, expiry | no access outside the window |
| Mailbox | one snapshot | publish, take | runtime, dashboard thread | takers between the two halves of a replacement | the reader sees increasing, newest snapshots |
| Expert controller and store | pending parent, journal, emergency | process, commit, abort, purge | runtime records, store | crash between journal and acknowledgement | the companion journal is a function of the durable parents |
| Tennis score | match, set, game, server, corrections | point, lifecycle, correction, track | score provider | tiebreaks, interruptions, who serves after a correction | every score reached is one the validator accepts |
| Market book | per-market lane, sequence, ladders | snapshot, delta, lifecycle, disconnect | exchange feed | gaps, repeats, a delta before its snapshot | an open book is the exchange's |
| Synchronizer | tracker, books, cursors, moves, explanations | observe, evaluate, halt | score and books, clock | two feeds late, lost and reordered against each other | what is emitted was true of one moment; a point explains one move |
| Trial observer | usage ledger, outcomes, audit, raw files | recover, reserve, request, record, end | feed, file system | crash or failing write between a reservation, its request and its records | a reserved request is never refunded; a crash leaves what the next command accepts |
| Live orders | order journal, positions | submit, resolve, reconcile, flatten | exchange | crash between submission and outcome; partial fills | no order is forgotten, no fill applied twice |
| Paper engine | positions, pending orders, P&L | tick, exit, entry | executor, safety | latency between decision and fill | at most one pending order per market; limits hold |
| Safety | trip, quarantine | observe, trip | engine, loop | stale feeds | a trip is latched and blocks entries |
| P&L ledger | events, day | record_once | engine | duplicate after restart, midnight | each event counted once |

## Modules

| Module | Models | State and actions against the code |
|---|---|---|
| `FoundationReducer` | `state.py`, `reducer.py` | State, validation, reduction and trace as pure operators; a digest is the value it hashes |
| `EventRuntime` | `sequencer.py`, the writer of `wal.py` | Fields of `EventRuntime` and `JournalWriter`; `pc` is the owner's place inside `ingest`, `poll_entitlement` or `close`, one action per write or verdict. The gate's and the coordinator's verdicts are the environment |
| `JournalReader` | the reader of `wal.py`, `replay_core.py` | Scan and replay as functions of the file |
| `SessionJournal`, `MCEventRuntime` | | `EventRuntime` with its journal read back by `JournalReader` in every state |
| `EventRuntimeProofs` | | Theorems about `EventRuntime` and `SessionJournal` |
| `IngressPromise` | | The abstract ingress: what producers, owner and journal rely on, without queue, locks and deadlines |
| `BoundedIngress`, `MCBoundedIngress` | `ingress.py` | One program counter per producer and one for the owner; one action per critical section. The runtime is seen through the results of its calls |
| `BoundedIngressProofs` | | Theorems about `BoundedIngress`, with its refinement of `IngressPromise` |
| `LiveOrders`, `MCLiveOrders` | `executor.py` (`_live`), `order_journal.py`, `order_resolution.py`, `safety.py` (`Reconciler`), `flatten_all` and `safe_shutdown` of `engine.py` | The exchange, the files and the process; one action per durable write or exchange call. `Crash` fits between any two |
| `LiveOrdersProofs` | | Theorems about `LiveOrders` |
| `PaperEngine`, `MCPaperEngine` | `bot.py` (sweep), `engine.py` (`process_tick`), the paper orders of `executor.py`, `strategy.py`, `safety.py` (`Safety`), `pnl_ledger.py` | One action per stage of a tick; the clock moves, or a signal arrives, between them |
| `PaperEngineProofs` | | Theorems about `PaperEngine` |
| `Mailbox`, `MCMailbox` | `mailbox.py` | `publish` in its four steps, `take` |
| `MailboxProofs` | | Theorems about `Mailbox` |
| `Retention`, `MCRetention` | `retention.py` | `vis` and `dur` are the directories as seen and as durable, `mem` the states and authorities of the sessions, `job` the method that holds `_condition`: one action per file operation, fsync and check |
| `RetentionProofs` | | Theorems about `Retention`: its bytes, its halts and its capabilities |
| `CompanionPromise` | | The abstract companion: one published group per durable parent, in order, and an end that is complete or void |
| `ExpertFollower`, `MCExpertFollower` | `expert_controller.py` (evidence path), `expert_journal_store.py` | The parent's journal and ingress as counts, the companion's directory entries with those a crash may undo, the writer's and the controller's lifecycles; an action is a stretch between two effects on the disk |
| `ExpertProofs` | | Theorems about `ExpertFollower`, with its refinement of `CompanionPromise`, about `TennisMatch` and about `Synchronizer` |
| `TennisScore` | `tennis_score.py` | The rules, the validator and the tracker as pure operators |
| `TennisMatch`, `MCTennisMatch` | the same | A match as its provider publishes it: points, lifecycle, results |
| `MarketBook` | `market_book.py` | The book's transitions as pure operators |
| `Synchronizer`, `MCSynchronizer` | `synchronizer.py`, the session's reducer and state, the assertions of their constructors | One action per observation of one session; the provider's and the exchange's histories are scripts, and delivery loses, repeats, delays, reorders and garbles them |
| `TrialLedger`, `MCTrialLedger` | `sportradar_trial_transport.py`, the commands of `sportradar_trial_cli.py` | A file is its rows and the count of the durable ones; one action per write, fsync or request of the one process that holds the lock. `Accepts` is all that a start validates |
| `TrialLedgerProofs` | | Theorems about `TrialLedger` |

`BoundedIngress` and `EventRuntime` meet at `ingest`: the ingress assumes of a
call that it returns with the raw record durable, or raises with or without
it; `EventRuntime` models what happens inside. `LiveOrders` and `PaperEngine`
are the two executions of one engine: the first drops prices and decision
rules, the second the exchange. `Synchronizer` composes `TennisScore` and
`MarketBook`; `ExpertFollower` keeps of the reducer only that its result is a
function of the parent's records. `Retention` models behind its capability what
`EventRuntime` meets as verdicts. In all, the definitions whose comment begins
with "mutant" (and those with `Mut` in their name) are deliberately wrong variants of the
definition that follows; nothing uses them except the check that each property
can fail.

## What the runs check

| Run | Question | Bounds |
|---|---|---|
| `event_runtime` | Whatever write fails, verdict changes or crash happens, does the journal always scan, is the usable state what the journal replays to, does a clean terminal mean exact replay, and is a denial final? | 2 sources, 2 raw records, 2 epochs |
| `ingress` | Does the ingress implement `IngressPromise` when deadlines race an owner that may stop anywhere; does every wait (for admission, for a receipt, for a full queue to drain, for the inputs to close) end? | 2 producers of 2 items, queue of 1 |
| `ingress_owner_unresponsive` | Finding: the plan's promise about `owner_unresponsive` is refuted | 1 producer, 1 item |
| `live_orders` | Does the bot decide only on exact books, keep one unsettled order and never oversell, is an outcome final and a verified shutdown flat, and does a shutdown end against an exchange that owes no answer? | 1 market, clips of 2, 3 orders, 2 starts, 2 flatten rounds |
| `paper_engine` | Are positions covered by exits that fit them, are urgent exits never delayed, does P&L follow the ledger across midnight and restart; do the limits (one exposure per event, `max_open_positions`, loss) hold when fills come later than checks, and is no exposed market quarantined silently? | five configurations (`MCPaperEngine`): 1 market, 4 quotes over 5 instants or 3 over 6, clips of 2, 2 starts; 2 falling markets of one event or of two, 1 or 2 slots, 5 instants |
| `mailbox` | Does a replacement interleaved with takers and refused publishers ever fail, deliver twice or out of order, or keep the newest from arriving? | 3 threads, 3 publishes each |
| `retention` | Wherever a crash, a power failure, a failing call or another coordinator's halt comes in: is every byte bound to its durable marker, do capabilities match the disk, does a halt stop the bytes, and is what is due deleted? | 1 session, 4 frames, 2 crashes, 1 failing call, 1 foreign halt |
| `retention_reserve_window` | Finding: a crash while the reserve is allocated blocks every later start | 1 session, 1 crash |
| `expert_follower` | Does the companion's journal follow the parent's evidence and implement `CompanionPromise` when an append, the authorization or the process fails between any two steps, and does a failure leave no session behind? | 3 parent records, queue of 2, 2 crashes (those of a recovery included) |
| `tennis_match` | Does any match, with every tiebreak, interruption and end, leave what the independent validator accepts, and does the serve follow from who opened? | best of three, real set and tiebreak lengths, tiebreak capped at 8 points a side |
| `synchronizer` | When the feed and the exchange's messages are lost, repeated, late, reordered or garbled: was what the session tracks true of one moment, do its assertions ever fail, do emissions only advance, does a point explain one move at most? | 1 market, 2 scripts, 3 instants |
| `trial_ledger` | Wherever a command dies, a call fails or the power goes: does an accepted ledger hold every request ever sent, do the limits hold over all commands, and does a crash alone leave what the next command accepts and completes? | 2 commands and a third recovery, 2 attempts a session, 3 in all, 2 failing calls or power failures |

Why these bounds are enough for the cases to happen:

- `event_runtime`. Two raw records give one that is settled when the second
  fails; a second source and epoch make an invalid input possible. Every writer
  and runtime failure is enabled in each of the session's steps.
- `ingress`. One slot and two producers make the queue full while a node is
  active, a producer waits at admission and another's deadline passes; the
  second item of a producer shows that a caller can go on after a timeout.
- `live_orders`. A clip of two makes partial fills; three orders are an entry,
  a partial exit and the flatten of the rest, or an order lost by the crash and
  found by the second start; two rounds are a retry and its exhaustion.
- `paper_engine`. Latency, fill timeout and staleness are one or two ticks of the
  clock, so that an order can be early, due, or expired, and a mark fresh or
  stale. Two markets compete for one event, or for one slot; with a slot each
  they meet only at the loss limit. The limits that differ between the
  configurations are fields of `settings`, chosen once, in the initial state.
- `mailbox`. Two publishers and a refused third; three publishes make a
  snapshot that is replaced unseen, one taken, and one waiting.
- `retention`. Four frames are the prefix, the start, and a terminal that may
  be a clean or a halted one; the second crash interrupts the recovery from the
  first. A second session multiplies the crash states beyond reach; the three
  safety properties are proved for any number of sessions.
- `expert_follower`. Three records are one published, one pending and one still
  in the queue when the session ends; the second crash hits the recovery from
  the first.
- `tennis_match`. Best of three contains every kind of set that a longer match
  repeats; 8 is the first tiebreak score past 7 at which the lead of two decides.
- `synchronizer`. A script has a point, its correction and another point, or a
  suspension, a resumption and a retirement, against a large move, a lost side
  and a reconnection, or a suspension and the close. Ages, skew and windows are
  one or two ticks of a three-instant clock, so that each can be met and missed.
- `trial_ledger`. The second command meets what the first left of the limit; the
  third process recovers from a recovery that died. Crashes of the process are not
  counted: there is one at any point of every command. A second failure reaches
  what was left by a first, and what its recovery has not made durable.

Deadlock is not checked: sessions close, orders and clock reach their bounds,
and each of these systems may stop. `retention` is the exception: its process
can always start again, and deadlock is checked there.

### Fairness

- `EventRuntime`: weak fairness of the owner's step inside a call. The code
  inside a call never waits for anyone. Calls and the environment are free.
- `BoundedIngress`: weak fairness of each producer's step and of the passing of
  deadlines, since every wait in `enqueue` carries a timeout. The owner has
  none in `Spec`: what `EveryWaitEnds` promises of a live owner is conditional
  on `OwnerKeepsDraining`. `LiveSpec`, used by the finding, makes it fair, so
  that the counterexample does not come from an owner that stops.
- `LiveOrders`: weak fairness of the process (`FairSpec`): its waits are polls with a
  deadline and its loops count. The exchange is not fair.
- `Mailbox`: weak fairness of the holder of the lock, which performs two
  non-blocking operations, and of a dashboard that keeps taking. Nobody is promised
  the lock. A run has finitely many publishes; with endless ones a taker woken
  between two replacements relies on the fairness of `queue.Queue`, which the
  code does not control.
- `Retention`: weak fairness of the step of the method that holds `_condition`,
  which waits for nobody, and of the expiry worker's wake-up, which is a timed
  wait. No caller, no clock and no crash is fair.
- `ExpertFollower`: weak fairness of the cleanup after a failure and of the
  recovery at a start, which are straight-line code; nothing else is fair.

### Findings

`ingress_owner_unresponsive`: the design plan
(`docs/superpowers/plans/2026-07-27-tennis-v1-event-core-wal.md:1712`) promises
that after `owner_unresponsive` "a live owner drains already provisional items
and writes one halted terminal". The code aborts the timed-out node, fails the
runtime, settles the rest of the queue as failed and writes no terminal; the
tests expect what the code does. The document should change.

`retention_reserve_window`: `tests/tennis_v1/test_retention.py:3131` is named
"test_marker_binds_reserve_and_recovery_handles_every_reserve_crash_window",
as the plan asks for it. `arm_before_wal` creates the reserve and allocates it
in a second call; a process that dies in between leaves a short reserve, which
`_inventory` refuses in every later start: recovery ends in an ambiguous halt
until somebody removes the file. The test exercises a complete reserve only.

## What is proved

The proofs assume what the modules assume of their constants, named in an
`ASSUME` of each: that sets of names are finite, that bounds and durations are
natural numbers (positive where a queue, a clip or a day has to be), and in
`PaperEngine` that the settings and the quotes are of the kind the configuration
and `get_quote` let through (`SettingsAssumption`). `Synchronizer` assumes that its
scripts are what a provider and a venue may publish (`ScriptsAssumption`): every
event has an identity of its own, and leads to the score or the book it names when
applied to what was published under the identity before; of the transports it
assumes nothing. `Retention` assumes nothing.
They hold for any number of sources, records, threads, publishes, sessions,
producers, markets, orders, starts, observations, crashes and failures, for sets,
tiebreaks and matches of any length, and for scripts of any length. Except for liveness, the
conclusions drawn from the runs of `event_runtime`, `live_orders`, `paper_engine`,
`ingress`, `mailbox`, `retention`, `tennis_match`, `synchronizer` and `trial_ledger`,
and two of the three of `expert_follower`, do not depend on their bounds.

`EventRuntimeProofs`:

- `SessionInvariant` establishes `IInv == Typed /\ Controlled`. Types alone do
  not rule out an orphan raw record: `Controlled` adds that a poisoned writer
  closes the runtime (`PoisonCloses`), that the applied state counts exactly
  the raw records whenever the owner is quiet (`AppliedWhenQuiet`), that no
  frame follows a terminal or uncertain bytes (`SealHeld`), and that after a
  denial the owner is on its way to a halt (`DenialHeld`). Each is a lemma of
  its own, with one step per action.
- `TypeCorrect`, `NoOrphan` (no durable raw record is ahead of the state of a
  usable runtime) and the action properties `AppendOnly` (nothing is written
  after uncertain bytes or a terminal) and `DenialIsFinal` (after a denial
  nothing but the halt is written) follow.
- `JournalReplays` (`StateIsReplayOfJournal`) and `CleanIsExact`
  (`CleanJournalReplaysExactly`): reader and writer agree on journals of any length.
  The reader's walk, its replay and the trace are folds over the file. `WalkAppend` and
  `ReplayAppend` unfold them by one frame; that the folds are what their equations say
  for every length is an induction whose rule takes an operator, so it is done
  by the least counterexample instead (`LeastElement`, `InductionUpTo`, from the
  well-founded order of the naturals). `Journaled` (`JournalInvariant`) then follows each
  append: while the session is open the file has the frames the writer has
  counted and the walk returns these counts (`Written`), the settled prefix replays
  to the state and its trace (`Replays`), the frames after it are those of the input
  under way (`InFlight`), what an interruption leaves still scans (`Scans`), and
  a clean terminal states what the file replays to (`CleanEnds`) and is all that a
  clean close and its marker rest on (`CleanOnly`).

`MailboxProofs`:

- `MailboxInvariant` establishes Mailbox's `IInv`: only the lock's holder is between the
  two halves of a replacement, only the publisher (or, before there is one, the
  first comer) gets there, and its next snapshot is newer than all it has put.
  None of the properties is inductive without these: `put_nowait` cannot fail
  only because nobody else inserts after the removal.
- `PublishNeverFails`, `DeliveryInOrder` and `NewestIsKept` follow. The `mailbox`
  run checks the first two on its instance.

`RetentionProofs`:

- `BytesStayBound`: no log and no reserve is ever without its whole and durable
  marker. The property alone is not inductive: `DiskInv` adds what the place of
  the running method says about the disk. While arming goes on the marker is
  whole, then durable (`MarkerWhole`, `MarkerDurable`); a deletion knows of the
  reserve it must unlink (`ReserveKnown`), has unlinked what its place says
  (`WalUnlinked`, `ReserveUnlinked`), and when it comes to the marker nothing is
  left on either side of a power failure (`NothingLeft`). Steps that leave the
  directories alone are treated together (`RestKeeps`), the file operations one
  by one (`ArmingKeeps`, `UnlinkingKeeps`, `SyncingKeeps`, `CrashKeeps`).
- `HaltAlwaysStopsBytes`: after a halt a log grows only by the one terminal its
  owner may still write. `WriterOpen` carries what the write path checked
  (no terminal yet, and a halt control writes a halted terminal) across the
  release of the reserve and its fsync, where a foreign halt, the clock or a
  crash may come in; the append's own check of the halt does the rest.

- `CapabilitiesHold` (`CapabilitiesMatchDisk`): while no method is under way, a
  healthy writer's marker and log are there and watched by the expiry worker, its
  reserve is there unless a terminal took it, and no session is readable that its writer
  may still extend. The property speaks of quiet moments only, so `CapInv` says what
  each method leaves in between. Per session: the files are there and watched
  (`Watched`), the reserve is there until the write path has unlinked it
  (`ReserveThere`) and is forgotten only on the way to a terminal
  (`ReserveGiven`), a reader has a marker and no live writer beside it
  (`ReaderMarked`, `ReaderApart`). Per place of the running method: a deletion
  has already revoked (`Revoked`), arming finds nobody and has built what its
  place says (`ArmFresh`, `ArmBuilt`), the reserve is released for a terminal
  only (`TerminalFrame`). Calls that only take capabilities are
  treated together (`Taking`, `Weakens`).

`LiveOrdersProofs`:

- The four safety properties of the run: `BooksAreExact` (`TradesOnExactBooks`),
  `OneIsUnsettled` (`OneUnsettledOrder`), `FlatIsVerified` (`VerifiedMeansFlat`) and
  the action property `OutcomesAreFinal` (`OutcomeIsFinal`). The first three are about moments of
  rest or counts, and say nothing of an order under way, so none is inductive.
  `IInv` follows the one order that may be: `Latest` (only the latest order is ever
  pending, and the steps between orders know of none), `Lives` (the life of one
  order on the wire, at the exchange and in the journal: a request travels only
  unacknowledged, an outcome is that of a terminal order), `Account` (the
  account is the position the pending order was checked against plus its fills,
  and is shown but for an order without outcome), `Book` (the session's book lags
  by the pending order at most), `Working` (the step of the process says which
  journal lines its order has) and `Booked` (the ledger holds the SELL fills of all that is not
  pending). That a torn file leaves nothing running but the way to a failed stop
  is in `Placed`. Steps that write no file are treated together (`ControlStep`, `Failing`), the
  moves of an order at the exchange through `OrderMoves`, the five that write one by one.

`PaperEngineProofs`:

- `ExitsCover`, `ExposureIsLimited`, `ExposureIsObserved` and `RealizedIsLedger` are the four
  invariants of the run, `ExitsAreNotDelayed` and `EntriesRespectLimit` its two action
  properties. They need each other and what a tick knows at its place: the
  ticker it works on is observed and judged at the bid of its own quote
  (`Ticking`), a trip ends the tick at once or after a canceled entry
  (`Tripping`), in the middle of a tick only its own ticker may lack the exit it
  needs (`Exiting`), and an entry that is about to be sent or filled has passed the loss
  limit (`Allowed`), whose inputs nothing changes in between.

`ExpertProofs`:

- `CompanionFollows` (`CompanionFollowsEvidence`): the inductive invariant adds the counts of
  each lifecycle, which say how far groups, published parents and raw records may
  be apart at every place of the owner (`Fresh`, `ActiveCounts`, `EmergencyCounts`,
  `Covered`), and the files each has (`Founded`).
- `CompanionRefines`: with that invariant, every step implements a step of
  `CompanionPromise` or none (`FollowsPromise`).
- `ScoresValidate` (`EveryScoreValidates`) and `ServesAlternate` (`ServeOrder`), whatever
  wins a set, a tiebreak and a match. That the validator accepts a score is not
  enough to know that it accepts the next one: it must also be known that the points are in range
  and that whatever the rules call won is won by the side that just scored, in a
  set that the validator finds well formed (`WonBy`, `GameAdded`, `SetCompleted`). There
  the two ways the code counts sets, by games and by well-formed sets, agree
  (`LedIsWon`). The order of serve needs the first server of a
  tiebreak beside the current one (`Served`), and that each game won is
  exactly one more of the games played, in the current set or in the set it has just
  completed (`PlayedGrows`).
- `ReducerNeverRaises` (`NeverRaises`), `NoPairTwice` (`EmissionsAdvance`) and `OnePointOnce`
  (`PointExplainsOnce`) rest on one inductive invariant, `SyncInductive`: the cursors
  are well formed (`IsTennis`, `IsBook`, `IsPending`, `IsEmission`, `IsWitness`), the tracker fits,
  each market fits the tracker and its book as the constructors demand (`MarketFits`),
  decisions are counted when something was emitted (`Tallied`), and the reducer has not
  raised. For `OnePointOnce` the demands alone do not suffice: they say nothing of how
  the latest point the session holds relates to those its markets consumed.
  `PointsOrdered` adds that it is behind none of them. The argument has two levels. A tracker or a book stays or moves ahead
  whatever the event (`TennisMoves`, `BookMoves`), and a market that fitted still
  fits what is ahead (`TrackerKeepsMarket`, `OriginKeepsMarket`, `BookKeepsMarket`,
  `RecordKeepsMarket`, `ExplainingKeepsMarket`, `EmittingKeepsMarket`). Every observation
  is then `Reduced`: it is ingested (`OriginIngested`, `TennisIngested`,
  `BookIngested`, `GapIngested`), which only moves ahead, and the markets it concerns are evaluated
  (`Evaluates`), which only emits.
- `TrackedStaysTrue` (`TrackedIsTrue`) adds `SessionTrue`: an event that was
  accepted follows the identity the cursor has, so its effect, by the assumption on the
  scripts, is the one it was published with (`MovesTrue`, `BookMovedTrue`). What the
  transports may garble are the parts that make the code refuse an event or that
  do not matter to its effect (`GarbledIs`, `LikeScored`).

`BoundedIngressProofs`:

- `ParentsAcknowledged` (`ParentsWereAcknowledged`) and `TerminalIsLast`
  (`TerminalAfterEveryReceipt`): the journal, the node at work and the queue are,
  in that order, the items as admitted (`Journaled`, `Lined`); a producer waits
  for its last item only (`Called`); a node's state tells whether its item is durable, timed
  out or acknowledged (`NodesTell`); and the owner leaves a durable item behind only with its
  receipt, or fails (`Receipts`).
- `IngressRefines` (`KeepsPromise`): each critical section implements a step of `IngressPromise`
  or none. The FIFO order that the promise states over sequences is where `Lined` is needed.

`TrialLedgerProofs`:

- `QuotaKept` (`QuotaIsNotRefunded`): the ledger is the only memory a process has of
  those before it, so `LedgerInv` relates it to what was sent. A row under way is the next one
  (`Appending`); until a call fails, the rows are as many as the process counts,
  and a reservation is the last and durable one (`Counted`); every request sent has a
  durable row that no other has (`Backed`), and no process sends more than it has
  counted (`Rationed`). The file may end in anything: what an interrupted write or a
  power failure leaves of it keeps the durable rows (`PartKeeps`, `SurvivorKeeps`).
- `CrashesAreRecovered` (`CrashesRecover`): its two halves need two invariants
  (`AuditInvariant`). `Kept` holds whatever fails: the attempt under way has its
  reservation (`Reserved`), a row under way is an outcome or a disposition of that
  attempt or the end of the session (`Writing`), so that no later append, nor what a
  failed write leaves of one, touches what the recovery completed of an earlier attempt
  (`Completed`). `Ordered` holds until a call or the power fails, and says why every step
  leaves files that a start accepts: the counters are the ledger's (`Tallied`), the session
  that runs has one command and is ended by its terminal (`Sessions`), no outcome or disposition is
  there before its time (`Fresh`), and what the command found is in the last row of the
  audit (`Shown`), which is what makes the terminal's reason `Coherent`. The heart
  of it is what `Accepts` needs of an append: `AcceptsReserve`, `AcceptsOutcome`,
  `DispositionAppended`, `TerminalAppended`. The recovery appends to sessions that
  ended long ago, so a terminal stays valid only because its session reserves no more
  (`SameAttempts`), and a disposition after a terminal only as a recovery.

Only model-checked: every liveness property (TLAPS has no rule for fairness
here).

## What the models leave out

- Byte encodings, hashes (a digest is the value), JSON and CSV parsing, logging
  and terminal output.
- Validation of single values (`events.py`, `capture.py`, `contracts.py`): the
  models' inputs are values the code accepts, except where a rejection changes
  state.
- Real arithmetic of prices, fees and probabilities: prices are small integers,
  the fee an amount per contract, and the score gate's verdict an input.
- Fork guards and exact-type checks: one process of well-typed objects.
- `LiveOrders` models code that shipped configurations do not enable:
  `run_session` refuses to start it. The exchange it assumes is external and
  described at the head of the module.

- `Retention`: the identity of files by inode and path (a file is the session's
  or is not there), and the capacity arithmetic: the reserve either serves the
  terminal or is gone.
- `ExpertFollower`: the older ordinary path of the controller (`_commit_ordinary`,
  `_process_raw`, `_terminalize`, `_commit_emergency`), which no production
  caller reaches; the frame codec and the replay reader. A failed emergency
  publication ends in `_converge_reserved_emergency_failure_close_v1`; that its
  fallback raises in turn is left out: the close and the fallback only compare
  the identities of the objects one process bound when it reserved the
  completion, and no state of the model unbinds them.
- `TrialLedger`: pacing and the clock; parsing and rendering of responses;
  `record_interrupted_outcome`, which the command line never reaches, because
  its signal handlers only set a flag. What the model shows of failures is that they never
  refund, not that the next command starts: `CrashesRecover` promises that only
  while no call and no power failed. Otherwise a start may refuse until somebody
  repairs the files, and the model contains these cases: a torn row in any of the files;
  a reservation that landed although its fsync failed, so that the halted
  terminal counts one attempt fewer than the ledger; a recovery built on rows
  that a later power failure takes back. A usage row that lacks only its newline
  is accepted, and the next reservation then makes one line of both.
- `Synchronizer`: of the paired clock, that its wall part drifts from the
  monotonic one (both are `clock`), and how uncertain it is: the stored uncertainties
  are one flag, whether the observation is certain enough. The assertions of the results'
  constructors (`contracts.py:2658`, `contracts.py:3275`) are no definitions of their own: those
  of the session, before and after the evaluation, are `SessionFits`, and the
  rest follows from `NothingBlocks`, `WitnessesFit` and `EmissionsAdvance`.
  Left out, too, are several matches in one session; the rollback of a group whose
  encoding exceeds a frame; `executable_buy`, which changes no state; the
  binding of a match to its markets, a check of reviewed artifacts at start.

Not modelled: provider adapters, the other transports, codecs, preflight, evidence proofs,
discovery, research tools and the audit tooling under `tools/`. They are sequential
transformations of one value or pure I/O, or drive components that are
modelled; `PROJECT.json` gives the reason for each. A large part of the
repository's lines is of this kind (validation of values field by field), which
the models take as given.

## Plan

What is left, in order of what it would add:

1. `EntitlementGate`: pinned artifacts, clock floor and the window of access;
   composed with `EventRuntime`, whose verdicts it then supplies.
2. `SessionLog`, the abstract promise of a session (an append-only log with one
   terminal), with `EventRuntime` shown to implement it; `BoundedIngress`
   composed with it, so that an item's receipt is a position in the log.
3. `AccountLock`: the candidate's lock file protocol.
4. `OneOrder`, the abstract settlement of an order (submitted, known, applied
   once), implemented by `LiveOrders`.
5. Several matches per session in `Synchronizer`, and the rollback of a group.
6. Proofs: `OneOrder` and `SessionLog` as refinements, once they are stated.
