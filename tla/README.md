# Formal model of paw-trader

paw-trader polls trade ideas from an execution engine, lets a committee of
language-model roles judge them, sends orders, and follows each order to its
fill, its exit and its grade. The TypeScript process keeps its state in SQLite;
the engine and the broker behind it keep theirs. What can go wrong lies between
them: lost and late replies, positions snapshots that lag behind fills, order
lists that forget old orders, crashes between two commits.

This directory holds TLA+ modules translated from `src/`, the TLC
configurations that check them on small instances, and theorems that TLAPS
proves for every value of the constants. `PROJECT.json` lists the components,
the runs, the source lines behind every definition, the hazards and the
findings.

    tlc -workers 2 -config MCEntrySafety.cfg MCEntryLifecycle.tla
    tlc -workers 2 -config MCOperations.cfg MCOperations.tla
    tlapm OrderProofs.tla

## 1. Inventory

One Node process runs `runTraderTick` (`trader-scheduler.ts`) every few
minutes. Ticks do not overlap. Operator commands and HTTP routes run between
the awaits of a tick. Every component keeps its state in tables of one SQLite
database; the engine is reached over HTTP with a timeout and no exactly-once
guarantee other than the idempotency of `POST /decisions` by decision id.

| Component (source under `src/engine/`) | State | Operations | Talks to | What makes it correct |
|---|---|---|---|---|
| Signal poller and calendar (`signal-poller.ts`) | `trader_signals` | poll, insert in one transaction under a partial unique index (asset, strategy, while pending or dispatching), market-hours gate | engine, dispatcher | one live signal per slot; equity signals on trading days only |
| Dispatcher (`decision-dispatcher.ts`) | `trader_signals.status`, `trader_decisions` | claim, gates, committee, insert `submitting`, submit, write the reply | committee, engine, operator messages | one open entry and one lot per asset, one order per signal, no order without a row |
| Retry sweep (`order-retry.ts`) | `retry_pending`, `engine_down`, `submit_attempts`, `next_retry_at` | resume, match against the order list, resend, give up | engine | never gives up a row that has an order |
| Order reconciler (`order-reconciler.ts`) | statuses of entries and exits | compare rows with `GET /orders`, fail orphans, record fills | engine, ledger | a row says filled only if it filled; a live exit stays tracked |
| Signal sync (`signal-state-sync.ts`) | `trader_signals.status` | converge signals onto rows, reclaim stale claims | tables only | no claim lasts for ever, no claim is dropped while its row may be sent |
| Exit evaluator (`exit-evaluator.ts`) | exit rows (`exit_submitted`, `exit_unknown`) | recover uncertain exits, sweep open entries, submit full closes | engine | one exit in flight per entry, every due position is sold, an exit sells its own entry's lot |
| Close-out watcher (`close-out-watcher.ts`) | `trader_verdicts`, `closed`, `ungraded_at`, `trader_pnl_snapshots` | match fills, grade, close, write the row of the day | ledger, engine | entries are closed only when sold, accounted for exactly once, and every lot is in the curve once |
| Fill ledger (`audit-log.ts`) | `trader_fills`, `trader_realized_pnl` | upsert cumulative snapshots, archive, FIFO match, rebuild | reconciler, close-out, gate, dashboard | keeps the best snapshot of every order; sales are matched oldest buy first |
| Track record (`track-record.ts`) | reports, accounting rows | held check, profit, drawdown | ledger, dispatcher | the held check never reads flat for a held asset; a record is about all verdicts |
| Committee (`committee.ts`, `jev-judge.ts`, `momentum-gate.ts`) | attempts and refusals of a signal | two rounds, coordinator, risk officer, trader, judge, rule gates | models, dispatcher | a veto stands; an outage of the models uses up no signal |
| Approvals (`approval-manager.ts`, `dispatchApproval`) | `trader_approvals` | approve, reject, pause, expire | operator, dispatcher | one answer, one order |
| Sizing and gates (`risk-sizing.ts`, `correlation-gate.ts`, `autonomy-ladder.ts`, ...) | none or counters | risk to the stop, heat, caps, rooms, chart gate | dispatcher | no later trim undoes an earlier limit |
| Daily cap (`bypass-counter.ts`) | two cached counts | count, invalidate, gate | dispatcher | a full day of rows closes the gate |
| Scheduler and health (`trader-scheduler.ts`) | halts, confirmation counts, restart cooldown (memory) | tick phases, healing, adoption of drifts, engine restart, live block | engine, every phase | no holding is written off on one reading; a halt heals when its cause is gone |
| Monitors (`monitor.ts`) | `trader_alert_state` | eight checks, alert once per window, halt on a NAV drop | operator, engine | a lasting outage is told, and not in each tick |
| Digest and shorts (`notify-digest.ts`, `position-safety.ts`) | buffered lines, last slot, fingerprint | buffer, mark, send, delete; alert on a change | every sender | no line is lost, a lasting short is told |
| Event sync (`server-sync.ts`) | cursor of the last acknowledged event | batch, post, commit the cursor | dashboard server | every event arrives; imports are idempotent |
| Cohorts and gate (`evaluation-cohort.ts`, `cohort-scorecard.ts`, `go-live-gate.ts`) | cohorts, frozen parameters, scorecards, stored result | draft, test, activate, admit, invalidate, score; weekly evaluation | strategy manager, dispatcher | evidence was gathered under the frozen parameters; no live trading without evidence |
| Strategy manager (`strategy-manager.ts`) | `trader_strategies` | create, tune, pause with a sweep of the queue | dispatcher | a paused strategy opens nothing new |
| Order-flow collection (`bitcoin-order-flow-*.ts`) | bar builder, pending batch, daily shards | ingest, reorder, seal, flush, dedupe | exchange socket | no trade counted twice, or in the wrong bar of an eligible series |
| Order-flow evaluation (`bitcoin-order-flow-evaluator.ts`) | one stored verdict | when due: variants, selection, holdout | bars | no look-ahead |
| Weekly report (`weekly-report.ts`) | time of the last report | fire, mark, build, send | operator | one report per Sunday |
| Verdict engine, statistics, routes, schema, client | see `PROJECT.json` | formatting, queries, floating-point statistics | | not state that other parts depend on |

### How they interact

A tick runs these phases in order; the letters are the comments of
`runTraderTick`:

    0   health           engine, halts, drifts, shorts, live block
    1   poll             inserts pending signals
    1c  reconcile        rows and exits against one GET /orders snapshot
    1d  retry sweep      rows parked by a lost reply or an outage
    1e  signal sync      signals follow their rows
    2   dispatch         claims, committee, submission
    4   close-out        entries on flat assets get a verdict
    4b  exit sweep       recovers uncertain exits, exits due positions
        reports          scorecards, weekly report, digest, monitors, sync

The tables are the only channel between phases, so each phase trusts what
earlier phases, earlier ticks and a process that died in the middle left
there. The engine runs on its own: it accepts a request whose reply was lost,
fills in parts, cancels, lets bracket legs sell, and updates its positions
snapshot minutes later.

### What is hard to test here

`PROJECT.json` lists every hazard at its line. The important groups:

- *A reply that never came.* The order may exist. Retry, recovery and
  reconcile must not place a second one and must not give up the first.
- *A snapshot that is old.* Positions and orders are read once, before loops
  that run committees and submit orders; positions also lag at the engine.
- *A list that forgets.* `GET /orders` shows a window. An order that left it
  looks like one that was never placed.
- *A crash between two commits.* Row before request, reply before signal,
  verdict before status.
- *A status that blocks.* A claim that is never released freezes its slot; an
  entry that stays executed for ever blocks its asset.
- *One position, several rows.* A full close sells whatever the asset holds.
- *An answer that was read before an await.* Approvals, scorecards, the weekly
  gate and the close-out read, wait for minutes, and then write.
- *A mark and a message.* Digest, report and alerts each write a mark before or
  after a send that may fail, and the process may stop between.
- *A count in a cache.* The daily cap is read from one.
- *Time itself.* New York days around the turns of the clocks, the calendar of
  the exchange, frames that arrive out of order at the end of a bar or a day.

## 2. Modules

| Module | Role |
|---|---|
| `EntryLifecycle` | dispatcher, retry sweep, reconciler (entries), signal sync, boot recovery, engine |
| `OrderContract` | abstract: what every decision row promises about its order |
| `EntryLifecycleInv`, `EntryLifecycleProofs` | inductive invariants and theorems of the two |
| `ExitLifecycle` | exit sweep and recovery, reconciler (exits), close-out, engine and broker |
| `ExitLifecycleInv`, `ExitLifecycleProofs` | inductive invariant and theorems |
| `ServerSync` | push of events and snapshot rows to the server, the server's import |
| `EventFeed` | abstract: what event sync promises of the operational log |
| `ServerSyncProofs` | inductive invariant and theorems |
| `FillLedger` | `trader_fills` and the realized rows under a reconciler and archivers |
| `FillRecord` | abstract: the stored quantity of an order is one the engine reported and never falls |
| `MonitorAlerts` | the monitor phase with its durable clocks |
| `SchedulerTick` | health phase, halts, healing, the phases after it |
| `Notices` | digest and short alert |
| `OperationsProofs` | theorems of `SchedulerTick`, `FillLedger` and `MonitorAlerts` |
| `OrderFlow` | the collector of one trade channel, from the socket to bar and shard |
| `Cohorts` | evaluation cohorts, the entries they admit, scorecards |
| `LiveGate` | the go-live gate on top of `Cohorts` (EXTENDS) |
| `EvidenceProofs` | theorems of `OrderFlow`, `Cohorts`, `LiveGate` and `FlowResearch` |
| `Approvals` | the operator's answers beside the automatic dispatcher |
| `Committee` | the committee over one signal |
| `EntrySizing` | the size of an entry over a changing book |
| `DecisionProofs` | theorems of the three and of `MarketCalendar` |
| `DailyCap` | the two cached counts and their gates |
| `NewYork` | days of the New York clock around a turn, on a clock of ticks |
| `EquityCurve`, `WeeklyReport` | the books of a day and the report of a week, over `NewYork` |
| `BooksProofs` | theorems of `DailyCap`, `EquityCurve` and `WeeklyReport` |
| `SumTheorems` | lemmas on sums and recursions over finite sets |
| `MarketCalendar` | the trading days of the poller, beside the exchange's published rules |
| `FlowResearch` | the one evaluation of the order-flow hypothesis |
| `MCEntryLifecycle`, `MCExitLifecycle`, `MCServerSync` | instances for TLC |
| `MCOperations`, `MCEvidence`, `MCDecisions` | instances in which a behaviour picks one of several modules at its start |

Components that share no state are checked side by side: in `MCOperations`,
`MCEvidence` and `MCDecisions` the variable `part` says which component a
behaviour runs, and the others stay where they began. The state spaces add up
and do not multiply.

### EntryLifecycle

State is what the tables, the engine and the running tick hold.

| Variable | Code |
|---|---|
| `sig`, `sigAge` | `trader_signals.status`, now - `generated_at` |
| `failures` | `committee.run.failed` events of the signal |
| `active` | `trader_strategies.status = 'active'` |
| `dec`, `owner`, `acked`, `attempts`, `wait`, `decAge` | `trader_decisions`: `status`, `signal_id`, `engine_order_id` not null, `submit_attempts`, time until `next_retry_at`, now - `decided_at` |
| `order`, `inflight`, `listed`, `snapHeld`, `changed` | engine: orders by decision id, requests on the way, the `GET /orders` window, the positions snapshot and the assets that changed since it could follow |
| `pc`, `cur`, `curDec`, `todo`, `queue`, `seen`, `posSnap`, `snapAge` | local variables of the tick: phase, current signal and row, rows left in a sweep, signals read at its start, the orders and positions it read, and how long ago it read the positions |

Each await of the code is a place where other actors move, so the loops are
one action per row. A submission is three steps: the row is inserted and the
request leaves (`InsertAndSubmit`), the engine accepts it or not
(`EngineAccept`, `LoseRequest`), and the reply comes (`SubmitAccepted`,
`SubmitRefused`) or does not (`SubmitTransient`, also when the engine did
accept). The reply writes the row first and the signal in a second statement
(`Announce`), with the operator alert between them.

`ClaimSuppressed` stands for every gate that works on data this model does not
hold (staleness, cohort, re-entry, earnings, regime, caps, sizing); `GatesPass`
keeps the gates on open rows, held assets and the pause. Only buy entries are
modelled: the strategies are long only. A fill is one event here; partial
fills matter to exits and are in `ExitLifecycle`.

### OrderContract

Each row has a phase (unused, intent, tracked, held, over) and an order. The
contract says when a row may move: an order is placed only while its row
intends it, a row is held only if its order filled, it is dropped only if
there is no order or the order died unfilled, and closed only after a sale.
`EntryLifecycle!Contract` is the refinement mapping: `ContractPhase` groups the
statuses, `order` maps to `broker`, and everything else is hidden.

### ExitLifecycle

| Variable | Code |
|---|---|
| `entry`, `age`, `verdicts`, `ungraded` | entry rows: `status`, now - `decided_at`, rows of `trader_verdicts`, `ungraded_at` |
| `due` | an exit rule of `exit-calculator` fires for the entry |
| `exit`, `parent`, `exitAge` | exit rows: `status`, `parent_decision_id`, age |
| `exitFill`, `legFill` | `trader_fills`: units sold by an exit or a bracket leg, as recorded |
| `lot`, `leg`, `order`, `sold`, `victim`, `inflight`, `window`, `snapHeld` | engine and broker: what is left of every lot, what the bracket leg and every exit order sold and from whose lot, requests, the order window, the positions snapshot |
| `pc`, `todoE`, `todoX`, `curE`, `curX`, `seen`, `posSnap` | locals of the tick |

An exit is a full close of the asset (`exit-evaluator.ts` submits the whole
broker position), so `EngineAccept` picks the lot that is held at that moment,
and `victim` records whose it was. `Closure` is `processClosure`: the FIFO match
of `audit-log.ts` (`MatchedLots`), the roll-up of listed orders (`BoughtSince`,
`SoldSince`) and the age at which unmatched entries stop waiting. A verdict and
the status of its entry are two commits (`InsertVerdict`, `CloseGraded`).

What this module takes for granted about its surroundings: entries reach it
filled (how is `EntryLifecycle`'s matter) and one at a time per asset (gates -2
and -1, `Buy`); the broker works one closing order per asset and refuses
another; the positions snapshot is right by the end of a time unit in which
nothing changes; an entry's orders stay in the order window for a time unit.

### ServerSync and EventFeed

| Variable | Code |
|---|---|
| `logged` | `trader_operational_events`: append-only, `seq` is 1..`logged` |
| `cursor` | `kv_settings`, `trader.operational_events.server_sync_seq` |
| `version`, `recent` | a snapshot table (`trader_decisions`): how often a row changed, whether it is inside the 30 days |
| `push`, `from`, `to`, `shot` | the requests under way: state, events `from+1..to`, versions of the rows sent |
| `remote`, `copy` | the server's tables |

`runTraderTick` ends with `void syncTraderTablesToServer`: nobody awaits it,
so a long tick followed by a short one has two pushes out that read the same
cursor. `StartPush` is everything up to the request, `Store` the one
transaction of `commitTraderSync` with its cut at `MAX_ROWS_PER_TABLE`.
A push is answered (`Acknowledge`), stored without a reply (`MissReply`, also
when the cursor cannot be written), refused, or given up and perhaps stored
later (`Timeout`, `Restart`, `DeliverLate`). A slow reply moves the cursor
back; events are then sent again and ignored.

`EventFeed` is what that amounts to: recorded events arrive in any grouping,
none is lost again, and the count of what need not be sent stands only where
everything before it arrived. The mapping is `recorded <- logged`,
`arrived <- remote`, `counted <- cursor`.

A row that changes after it left the window is not pushed any more
(`RowsConverge` speaks of rows inside it); the hourly `trader-db-sync.ts` is
there for those.

### FillLedger and FillRecord

`engine` is the engine's cumulative report per order (quantity, stamp of the last
change), `kept` the row of `trader_fills`, `reply` what a reader holds between its
request and its write, `realized` the rebuilt rows. `Reconcile` copies the orders
it tracks, `Archive` whole replies including bracket legs, found through their
parent. `MatchLotsFifo` takes the fills in the order of their time (a recursion that
sets the latest aside) and a sale lot by lot: `TakeLot` is one round of the code's loop,
and as a round ends the sale or uses up a lot, `SellFifo` runs one for each open lot.
`UnitPairs` says what FIFO means, unit by unit, and `LotsAreFifo` compares the two in
every state. The refinement of
`FillRecord` is `recorded <- kept`, `executed <- engine`.

### MonitorAlerts, SchedulerTick, Notices

`MonitorAlerts` keeps the rows of `trader_alert_state` as ages: a check decides,
stores that it fired, and sends as a step of its own. Checks share only the
engine's health, so a behaviour runs one of the `Suites` (single checks, and the
pair of Coinbase and engine, of which one masks the other).

`SchedulerTick` follows `runTraderTick`: `ping`, restart with its cooldown, the
halts, `heal` (a drift on the broker's side is adopted at once, a phantom after
`ConfirmTicks` halted replies that name it), the long-only check, the live block,
and then the phases, each of which runs on what phase 0 found
and has its own catch. What is in memory (`seen`, counts, cooldown) is lost at a
restart, what the engine believes is not.

`Notices` writes the slot of a digest first, sends to one operator after the
other and deletes by id last; lines arrive during the send and the wall clock may
be set back. The short alert stores its fingerprint after the message.

### OrderFlow

The bar builder is a record and its methods are operators on it (`IngestFrame`,
`AdvanceTo`, `Seal`, `DrainBuffered`). Its buffer is a set that is worked off by time
(`Observed`): of observations of one time, no order makes a different bar. `Seals` is
the loop of `advanceTo`. A frame carries a number, one trade and its
exchange time; it may be lost, come twice or late, and the socket may close. The
flush writes bars, raw trades and the id cache in the order of the code and fails
at any of them; `WarmTradeDedupe` reads the newest shards after a restart.

### Cohorts and LiveGate

`Cohorts` has the operator's command line, the dispatch of entries (automatic and by
approval), the retry sweep and the two halves of a scorecard run (`Score` reads,
`SaveScores` writes). `LiveGate` EXTENDS it with the weekly evaluation that reads
broker, regimes, cohorts and curve at different times (`ReadTruth`, ...,
`StoreResult`) and with `Authorizes`, the reading of its result in the tick.

### Approvals and Committee

`Approvals`: `shown` is the dashboard's copy of a signal, `message` clicks on the
way, `answer` the approval row, `approval` how far `dispatchApproval` is. It takes
no claim on the signal and inserts its row after the engine's answer. `Committee` is
one run as stages; the answer of a model is taken from the few values its
callers can tell apart, or is unusable, or the call is refused, which ends the
run. The dispatcher's bookkeeping (`attempts`, `fate`) is part of the step.

### EntrySizing, DailyCap

`EntrySizing` states `Size` as the code's chain of floor, caps, rooms and chart
gate over a book that moves while a sweep works on its snapshot. `DailyCap` has the
caches with their time of reading, the sweep's gate and an approval's, and rows
written after committee and engine answered.

### Time: NewYork, EquityCurve, WeeklyReport, MarketCalendar

`NewYork` numbers the ticks of a clock that does not turn and gives the New York date of
each; one day is an hour (tick) shorter or longer. `EquityCurve` and `WeeklyReport`
take the date at the places the code takes it and wait where it waits. The verdicts of a record
are a recursion that takes off the last closed decision (`LastClosed`, the `ORDER BY`), and its sum, peak
and drawdown one over their number (`Curve`).
`MarketCalendar` has the code's holiday functions (nth weekday, last Monday,
Easter, observed days) and, beside them, the exchange's rules written as conditions on
a date; `OpenWithTheExchange` compares them day by day.

### FlowResearch

`flow` is the list of bars so far. `Simulate` is the position loop (`Scan` is one
round of it), `Select` the ranking over development and validation. `NoLookAhead` compares the
choice and the holdout with those computed from truncated data.

## 3. Runs

Ages count time units; one unit is the shortest interval at which the code
looks at a clock that matters to the run. What counts is the order of the
horizons (backoff < reclaim < retry age < settling < orphan), which every
configuration keeps or narrows to equality, never their lengths: ages saturate
at `SignalAgeCap` and `AgeCap`, above the largest horizon they are compared with.

| Run | Question | Bounds |
|---|---|---|
| `entry_safety` | Two strategies compete for one asset, with lost replies, retries, outages, a lagging snapshot and a crash at any step. Is there ever a second lot (`OneLotPerAsset`), a second order for one signal (`OneOrderPerSignal`), a live order without a row (`FailedMeansNoExposure`), a parked row whose slot is free (`IntentKeepsSlot`), a step outside the contract (`KeepsContract`)? | 2 signals, 2 rows, 1 restart, 1 retry |
| `entry_live` | Is every claim released (`SlotIsFreed`) and does every open row settle (`OpenEntrySettles`), through outages, failed retries, a pause and two crashes? | 1 signal, 1 row, 2 retries, 2 restarts |
| `exit_core` | Two entries of one asset, one after the other. Are there ever two exits of an entry in flight (`OneExitInFlight`), a live exit whose row is given up (`LiveExitIsTracked`), an entry closed while it is held (`ClosedOnlyWhenSold`), or one counted twice or not at all (`AccountedOnce`)? | 2 entries of 2 units, 2 exits, lost and late requests, cancels, bracket sales, window, 1 restart |
| `exit_live` | Is a due position sold in the end (`DuePositionIsSold`), and a sold entry accounted for (`SoldEntryIsAccounted`), also when something else sold it? | 1 entry, 2 exits, 1 restart |
| `event_sync` | With pushes that overlap, get lost, are refused, come late or are cut off by a restart: does the cursor ever pass an event the server lacks (`FeedPromise`), does every event arrive (`EventsArrive`), does a row catch up after an old push overwrote it (`RowsConverge`)? | 2 pushes, batches and cap of 2, 3 events, 1 row with 2 versions |
| `operations` | Ledger: are the realized rows FIFO (`LotsAreFifo`), does a stored quantity ever fall or lie (`LedgerPromise`), does the ledger catch up with the broker (`LedgerCatchesUp`)? Alerts: is none repeated inside its window (`AlertsAreSpaced`), is a lasting outage told again and again (`LastingOutageIsTold`)? Tick: is no holding written off on one reading (`PhantomIsConfirmed`), do entries and exits resume without an operator (`TradingResumes`)? Notices: does every line reach every operator (`EveryLineIsSent`), and news of a lasting short (`LastingShortIsTold`)? | 2 buys (one without a broker id) and a leg, the reconciler with any page of the orders and an archiver with all of them; windows of 2 and 3 units; 1 asset, 2 faults; 2 operators, 2 lines, 1 stop |
| `evidence` | Does an eligible bar count exactly its trades (`EligibleBarIsExact`), is a trade stored in one shard (`TradeIsStoredOnce`)? Does every active strategy have its running cohort (`ActiveIsEvaluated`), was all evidence gathered under frozen parameters (`EvidenceIsFrozen`), does live trading end with the evidence (`RevokedWithEvidence`)? | 2 trades, 3 numbers, 2 days, 1 fault; 2 strategies, 2 cohorts, 2 entries, 1 release, 1 reset of the epoch |
| `decisions` | One order per approval (`AnsweredOnce`); vetoes and outages of the committee (`PanelVetoStands`, `RefusalConsumesNothing`); limits of a size (`SizeKeepsHeat`); trading days (`OpenWithTheExchange`); books (`CurveAddsUp`, `RecordIsExact`) and report (`ReportedOnce`) around a turn of the clocks; the daily cap against rows older than its cache (`CapSeesOldRows`); research (`NoLookAhead`) | 2 signals, 2 clicks, 1 restart; 3 specialists, 1 refusal; 3 orders over 2 clustered assets; the years 2011 to 2022; 16 bars; 2 lots, 2 decisions, 1 fault; 3 candidates |
| `entry_double_crash`, `exit_late_recovery`, `event_veto_cleared`, `daily_cap` | the findings below | |

The passing entry run keeps fills and dispatch loops out of the last unit of the settling
window (`FillWindow + SweepTime < HoldSettle`): the engine cancels entry orders that rest,
and a loop is one committee run per signal. What the code does when they take longer is among the
observations below.

Why these bounds are enough to be interesting: every property about two rows
needs two signals on one asset, two rows (one of them requeued or retried) and
one crash. A third signal, of another asset, matters in one place: its committee run lets the
positions snapshot of the loop grow old while the settling window of the first asset
runs out. That is left to the theorem `OneLot`, as 3 signals of 2 assets are beyond a
run of five minutes. Two units per lot are the least that fill in parts.
Two entries in turn are the least in which the fills of one can be taken for
those of the other. Three events at two per batch give a full batch, a partial
one and an empty one; two pushes can carry the same, adjacent and overlapping
batches, and the cap equals the batch size as in the code (5000 and 5000).

In `operations`, two units of one buy and one of another are the least in which a
sale can span lots; the reconciler's pages cut off orders as an archiver's would; one buy without a broker id is the case the archivers treat
differently. A grace period shorter than the dedup window (2 and 3) is the order
the code has. Two readings confirm a phantom, so two faults can spoil the
confirmation and the restart. In `evidence`, two trades that may change places, with a
skew as large as a bar and a window shorter than it, are what sealing has to get
right; the two cohorts are of two strategies, of which activating one pauses the
other. In `decisions` the years hold all weekdays of each holiday, leap years,
both ends of the Easter range that occur, and the year Juneteenth began; the ticks of the
`NewYork` days (6 a day) separate midnight, the turn, 09:00 and the hours of
the grace period on either side. The committee run lets one model call be refused and any number fail.

The weekly report and the books start at a midnight, the cap one tick before it, so
that a count taken on one day can be read on the next; the cap is looked at around that
midnight and the turn, the books over the whole day of the turn.

A second crash in `entry_safety`, and a fill late in the settling window, do
lead to new behaviour: the first is the run `entry_double_crash`.

The safety runs use TLC's symmetry where the elements are interchangeable (rows;
signals together with their strategies; exit ids; trades, cohorts with their
strategies, entries). Symmetry is never used with a liveness property.

Deadlock is not checked in the runs of which each part may stop: where the
events of a bounded life (lines, lots, orders, years) are over, the behaviour ends.

### Fairness

Ticks are started by an interval timer and each await returns or times out, so
`Tick` is weakly fair. A phase may be skipped in one tick (reconciler halted,
market closed, `GET /orders` failed) but not for ever: `BeginReconcile`,
`BeginRetry(TRUE)`, and in `ExitLifecycle` `BeginCloseOut`, `BeginSweep`,
`RecoverSend`, `SubmitExit` are strongly fair, because the choice to skip comes up
again in every tick. Time passes between ticks infinitely often. The engine
answers or drops each request and fills or cancels each order (it cancels
stale ones). Nothing forces a submission to succeed in `EntryLifecycle`:
`OpenEntrySettles` holds with an engine that drops everything. `ExitLifecycle`
does assume that an exit sent again and again is accepted in the end, as
otherwise no program could sell the position, and that a time stop makes each
entry due. In `ServerSync` ticks start pushes (weakly fair), a push tried again
and again is stored and answered in the end (`Deliver`, `Acknowledge`, strongly
fair), and a request nobody waits for arrives or is dropped.

In `FillLedger` a reader of the complete history (the weekly gate) comes back
again and again; the other readers owe nothing. In `MonitorAlerts` time passes, a tick's monitor phase starts
and gets through its checks, and a message that is sent again and again arrives in the end.
In `SchedulerTick` ticks start and their steps end (interval timer, timeouts),
the engine reconciles, and an engine that was restarted comes back;
`TradingResumes` assumes further that the bot goes on ticking
(restarts are bounded), that the engine's last hang and last drift are over, and
that what drift is left may be adopted. In `Notices` slots come and go, a digest
is begun strongly fair (a stop may take a slot), and every send ends. `MCOperations!OpsFair` takes each part under its own fairness.
`Cohorts`, `Approvals`, `Committee` and the other modules state safety only, and need none.

### Findings

Four runs state something a comment of the source says and TLC refutes.

| Run | Comment | What the code does |
|---|---|---|
| `entry_double_crash` | `trader-scheduler.ts:158`: re-queuing an owned signal "could place a second order", so it is excluded | `executed` is not among the excluded statuses: after a second crash a signal whose row is filled is requeued, and with a null broker id it passes the duplicate guard and buys again |
| `exit_late_recovery` | `exit-evaluator.ts:79`: re-exiting a closed entry "would flatten a rebuilt position" | recovery resends an exit without looking at its parent |
| `event_veto_cleared` | `committee.ts:715`: an entry rule ignores judgment vetoes only, "event, size, data, uncategorized and unknown vetoes still block" | a low confidence replaces the officer's veto, and its category, by one that an entry rule ignores |
| `daily_cap` | `bypass-counter.ts:66`: "invalidate after any new decision insert" | the only invalidation comes before the insert, in the bypass branch; the next signal of a sweep passes on the old count |

### Observations

Things met while modelling that no run is spent on. Where a property is named, its
definition is in the module, and TLC refutes it when it is added to the configuration.

- Entries: settling is measured from `decided_at` (`track-record.ts:438`), so with
  fills as late as the window the held check misses a new lot (`OneLotPerAsset`). So it
  does when the committee runs of a loop (`decision-dispatcher.ts:667`) take so long that the window of a
  lot ends which the snapshot of the loop was too early for: with 2 assets, 3
  signals and `SweepTime = 2` TLC buys the asset again. An
  operator alert that throws is caught by the catch of the submission and fails
  the signal of a live order (`decision-dispatcher.ts:1305`,
  `ExecutedRowHasExecutedSignal`).
- Exits: an executed entry its bracket has sold is a candidate again as soon as
  its asset has a position again (`exit-evaluator.ts:98`, `ExitSellsOwnLot`). An entry with
  a verdict and no status, after a crash between the two, is never looked at again
  (`close-out-watcher.ts:411`, `GradedEntryIsClosed`).
- Approvals: a submission that timed out is reported as "No order placed"
  although the order may exist (`decision-dispatcher.ts:583`, `RefusalIsTrue`). An approval
  takes no claim, so the automatic dispatcher may order the same signal
  (`OneOrderPerApprovedSignal`).
- Ledger: a later fill moves the cumulative row of a buy behind the sale it had
  covered, and the rebuild takes the realized sale back (`SaleStaysRealized`).
- Scheduler and monitors: in live mode the answer of the go-live gate overwrites the block that
  an unexpected short set (`trader-scheduler.ts:521`, `ShortBlocksEntries`). The operator may
  read of a halt that did not happen, without a correction (`OperatorNotMisled`).
- Order flow: a sequence gap is noted at the time of the frame that shows it
  (`bitcoin-order-flow-bars.ts:129`), which may be in the bar after the one that misses
  the trade; that one stays eligible with what arrived, and this is what
  `EligibleBarIsExact` says of it.
- Cohorts: rows parked as `engine_down` are left out of the open slots
  (`evaluation-cohort.ts:421`), so a recovery exceeds the slots (`SlotCapHolds`).
  The gate's result signs a configuration read at its end for evidence read before
  (`AuthorizedOnEvidence`) and for trades of an earlier epoch (`ScoredInEpoch`).
- Committee: the Markov conflict is judged on the direction of the coordinator and
  the trader may choose the other side, so an approval may be against the regime
  (`committee.ts:355`, `ApprovedWithRegime`). The comment at `committee.ts:271` still has
  the old threshold of 0.30.
- Sizing: rooms and heat are of the snapshot, so two orders of a sweep, or two
  approvals, overshoot a cluster's room together; approvals are
  trimmed below the minimum size that the sweep drops, and the chart's gate shrinks below it on both paths.
- Daily cap: on the day the clocks turn, after the turn, the gate's midnight is an hour off
  (`bypass-counter.ts:3`, "most recent midnight in America/New_York"): it takes the present
  offset back to midnight. In spring the last hour of the day before counts against the
  new day, in autumn the first hour of the day no longer does.
- Research: a family without a trade is rejected without a word, and a crash between
  verdict and event leaves the event out.
- Weekly report: a week starts 7 times 24 hours before its end
  (`weekly-report.ts:250`), which after the turn of spring is in the week before
  (`MomentIsInOneWeek`).
- Books: when the NAV is unavailable on a later tick of a day, the row of the day
  loses the one it had, and a first day may be written with NAV 0; lots recorded
  after their New York day ended never enter the curve; a track record is stale
  until the next close when its computation fails.
- Daily cap: the start of the New York day is computed with the offset of the moment, an hour
  wrong on the day of a turn; a count cached before midnight can block the first
  signals of the next day, each of them for good; sales count like orders.
- Scorecards of a tick are computed on the health observed at its start.

## 4. Proofs

`EntryLifecycleProofs` proves, for every set of signals, rows, assets and
strategies and every bound, with late requests, lost orders and any number of
restarts allowed:

- `TypeCorrect`: `Spec => []TypeOK`.
- `OneOpenEntry`: `Spec => []OneOpenEntryPerAsset`;
- `OneCrashKeepsSlot`: `Spec => [](restarts <= 1 => IntentKeepsSlot)`.

`OneOpenEntryPerAsset` is not inductive: the dispatcher checks the rows of the
asset before the committee runs and inserts after it. `EntryInv` adds that the
check still holds when the committee answers (`GateStillClear`): no other step
moves a row from a settled to an open status. That in turn needs that the
sweeps only visit rows that are open (`TodoOK`: those of the reconciler tracked,
those of the retry sweep parked), that the row and signal a reply belongs to
are still in the status the tick left them in (`CursorOK`), and that every row
in use has a signal (`RowsOwned`).

Four more assume `Settled == ~LateArrival /\ ~Rollover`: a request is
accepted or lost before its row is due again and before a restart is over, and
the order list shows every order. Under it:

- `NoLostExposure`: a failed or closed row has nothing working or filled.
- `OneLot` (`OneLotPerAsset`), which also needs `Prompt`, see below;
- `OneCrashOneOrder`: `restarts <= 1 => OneOrderPerSignal` in every state;
- `EntryKeepsContract`: `Spec => Contract!Spec`, the refinement. The initial
  state maps to an initial state, and every step to one step of the contract or
  to a stutter.

The assumption is needed: the reconciler and the retry sweep conclude from
"not listed" that there is no order. `OrderInv` is `EntryInv` with what links
rows to orders: a request in flight is being waited for or backs off
(`InflightOK`), every status says something of the order (`StatusMatchesOrder`),
the list is complete (`AllListed`), and the copy of the list a sweep works on is
old but not wrong for the rows it has still to visit (`SeenOK`): it may miss a
fill, but an order it shows as dead is dead and a row it does not show has none.

`SlotInv` carries the two theorems that hold until the second crash. A signal
follows its row when sync runs (`SignalFollowsRow`); between a step of the retry sweep and
sync, or after a crash, it lags (`MayLag`). The first crash finds no signal
dispatching whose row is executed already; the second one may, and puts it back into the
queue (`entry_double_crash`). All rows of a signal but one have failed (`OneLiveRow`),
as whatever requeues a signal does so before a row of it is opened.

`LotInv` carries `OneLot`. A row holds its asset from the insert to the sale of its lot
(`Holding`); gate -1 lets a second one through only if it trusts a flat snapshot, that is
once the row is older than `HoldSettle`. A lot is in the engine's snapshot two units
after the last moment it could fill (`SnapshotCatchesUp`), and the dispatcher's copy of it
is as old as its loop (`SweepSees`). So both have to fit in the settling window:
`Prompt == FillWindow + SweepTime < HoldSettle`. Nothing in the code enforces it: it is
the condition under which the re-entry guard works.

`ExitLifecycleProofs` proves, with no assumption beyond the types of the
constants (late and lost requests, orders leaving the window, sales past the
engine and any number of restarts are all allowed):

- `ExitTypeCorrect`, which says among the types that no exit order sells more
  than a lot;
- `OneExit`: `Spec => []OneExitInFlight`;
- `LiveExitTracked`: `Spec => []LiveExitIsTracked`;
- `EveryEntryAccountedOnce`: `Spec => []AccountedOnce`;
- `ClosedMeansSold`: `Spec => []ClosedOnlyWhenSold`.

`ExitInv` is the invariant. For `OneExitInFlight`, the sweep reads its candidates
once and submits later; `CandidatesFree` says that a candidate not visited yet
still has no exit in flight, and `ExitCursorOK` that the rows the reconciler and
the recovery loop hold in their hands keep their status until the loop is at
them. For `LiveExitIsTracked`, `SeenIsOver` says that the order snapshot, old as
it is, never shows an order as over that still works, and `OrdersSellOneLot`
that a refusal with `no_position` cannot meet a working order: such an order has
something left to sell. For `AccountedOnce`, `GradesPending` says that the rows
the close-out has still to visit have no verdict, and that the one entry with a
verdict and no status is the one it is about to close.

`ClosedMeansSold` compares sums of fills over several exits and bracket legs with what is
held. `CloseInv` says that no unit is sold twice (`UnitsConserved`: what any set
of entries has sold and still holds was bought), that what the rows record was sold
(`RecordedWasSold`), that entries of an asset are bought in turn (`BoughtInTurn`), and that
a positions snapshot shows every lot old enough for the close-out to conclude
from its absence (`SnapshotShowsAged`). The sums are those of `SumTheorems`.

`SumTheorems` says what a sum over a finite set returns when an element is
taken out, a value changes, or two sets are joined, and what bounds it. The
library's induction theorems take an operator as a parameter, which none of the provers can instantiate, so each lemma looks at a smallest
set that would refute it, which exists because strict inclusion is well-founded on the subsets of a finite set.
In the same way it shows that a recursion that takes one element of a finite set away at
a time has a value (`RecursionHas`), which `FillLedger` and the verdicts of `EquityCurve`
need, that one over the numbers up to n has one (`IterationHas`), and that a
function is greatest somewhere on a finite set (`GreatestOf`).

`ServerSyncProofs` proves, for any number of pushes, events, rows and restarts
and every batch size up to the server's cap (`BatchSize <= MaxRows`, the one
assumption that matters; without it the server cuts events the cursor passes):

- `SyncTypeCorrect`: `Spec => []TypeOK`;
- `SyncKeepsPromise`: `Spec => FeedPromise`, the refinement of `EventFeed`.

A push carries a copy of the cursor while the cursor moves on or back, so
`SyncInv` keeps with every push under way what held when it was built
(`PushKnows`: its batch starts right behind events the server has, fits the cap
and ends in the log), and of a stored push that everything up to its end arrived.

`OperationsProofs`:

- `PhantomConfirmed` proves `PhantomIsConfirmed` for all sets of assets and
  all bounds. It needs `ConfirmTicks > 1` (the code has 2). The invariant
  relates the confirmation counts in memory to the halted replies they were counted
  from: a count above zero belongs to an asset the last halted reply
  named, and a restart forgets both.
- `LedgerKeepsPromise`: `LedgerSpec => LedgerPromise`, the refinement of `FillRecord`, for any
  orders, quantities and readers. `QuantitiesPast` says that what a reader holds and
  what the ledger has stored is at or behind the engine; a snapshot that comes late
  is dropped because its quantity is not greater.
- `FifoIsExact`: `LedgerSpec => []LotsAreFifo`, for any orders and readers. `RowsFinite` keeps the
  stored fills finite, so that both recursions have a value; then the two are compared at
  a smallest set of fills where they would differ (`FillsAreFifo`). `RoundTakes` is the
  core: a round of a sale takes a run of units from the front of the queue, and `SaleSells` that
  the rounds stop when the sale is filled or nothing is open.
- `AlertsSpaced`: `AlertSpec => AlertsAreSpaced`. `AlertInv` relates the age of the stored
  alert to the age of the last message delivered: the row is written before the
  message, so the message is never younger than it.

`DecisionProofs`:

- `OneAnswer` (`AnsweredOnce`), for any number of signals, clicks and restarts. The
  approval row is claimed in one statement, and the invariant says that a
  run of `dispatchApproval` belongs to a claimed row whose answer is "approve".
- `VetoStands` and `NothingConsumed`, whatever the models answer, refuse or fail to
  answer. The invariant states per stage what is already known of the opinions, the
  synthesis and the officer's verdict; the coordinator runs only over a quorum, the
  trader only after a readable officer.
- `SizeFitsTheBook`: `SizingSpec => []SizeKeepsHeat`, for any book, NAV, stop, cap, cluster and chart. Each
  link of the chain is a lemma (`RiskBasedFits`, `TrimmedFits`, `GatedFits`, `Rooms`):
  the raise to the minimum is the only one that makes a size greater, and is taken only
  within the heat that is left.
- `MarketIsOpen`: `CalendarSpec => []OpenWithTheExchange` for all the years 1900 to 2199, the run
  takes twelve of them. `DateOK` is the invariant; the rest is arithmetic: a count of days
  belongs to one day of a year (`SameDay`), the n-th weekday of a month lies in its n-th seven
  days (`NthIsInWeek`), an observed holiday is where the exchange keeps it
  (`FixedHoliday`, `NewYear`), and the computation of Easter gives the Sunday
  after the tabulated full moon (`SundayAfterTheMoon`, `EasterIsKept`). `NewYear` also says why
  it does no harm that the code moves a New Year's Day on a Saturday to the end of the
  year it begins instead of the year before: that day is never a working day.

`EvidenceProofs`, for any strategies, cohorts, entries, releases and approvals, and
any trades, days, faults and bars:

- `Revoked`: `GateSpec => RevokedWithEvidence`. A stored result carries the configuration
  it was signed with, and whether a cohort is ready can be read off that
  configuration, so a step that ends readiness breaks the match. The step that stores
  a result changes nothing of the configuration.
- `EvidenceFrozen`: `CohortSpec => []EvidenceIsFrozen`. `EvidenceKept` adds the types and that
  a cohort with entries was created: parameters are frozen once, at creation.
- `ActiveEvaluated`: `CohortSpec => []ActiveIsEvaluated`. `OneRuns` says that two running
  cohorts of a strategy are one and that every active strategy has one; whoever
  ends a cohort pauses its strategy in the same step.
- `StoredOnce`: `FlowSpec => []TradeIsStoredOnce`. `StoreInv` says that the collector's ids hold every
  trade that is stored or about to be, so the batch has none that a shard of another day has.
- `BarsAreExact`: `FlowSpec => []EligibleBarIsExact`. `BarsInv` carries what the builder knows (`Fit`):
  its open bar, if not flagged, counts the trades given to it but for those still in the buffer,
  a bar it has sealed and not yet stored lacks none, and whatever belongs to a later
  quarter is in the buffer. A seal keeps this as long as all that is buffered
  is later than the quarter (`SealFits`, `SealsFit`), so the watermark has to move after the
  observations before it, oldest first (`ObservedFit`, `DrainFits`). An observation behind the clock goes to the open
  bar and flags it (`AdvanceFits`, `ObserveFits`). `ObservedExists` shows that the loop of
  `drainBuffered`, a recursion over the sets of observations, has a value.
- `LooksBack`: `ResearchSpec => NoLookAhead`. `FlowInv` says that bars come in order of time, so
  those that end by a moment are the first ones (`InTimeCuts`). A signal and a trade closed before a
  cut do not see what is behind it (`SignalKnowsThePast`, `TradeBeforeTheCut`). A phase
  that ends by the cut therefore makes the same trades without the bars behind it
  (`PhaseBeforeTheCut`), and one that goes on makes them first (`TradesBeforeTheCut`): until the
  cut the two scans are the same, or the shorter one waits for an exit it never sees.
  The two are compared at the first bar at which they would differ.

`BooksProofs`, from any starting moment, for any length of the day above four
ticks and either turn of the clocks:

- `OneReport`: `ReportSpec => []ReportedOnce`. It needs grace period and firing hour to end
  before the next day does (`FireTicks + GraceTicks + 1 < DayTicks`; the code has 9 h
  and 12 h). `ReportInv` says that every report built was due on its Sunday at or before
  the mark (`lastFire`); the next one needs a moment due after the mark (`FiresOnSunday`),
  and two Sundays' moments are further apart than grace period and turn.
- `CapIsKept`: `CapSpec => CapSeesOldRows`. `CapInv` says that a cached count was taken
  at most its time to live ago and covers every row there was then
  (`CacheCounts`); `CountedBefore` that midnight, recomputed later on the same date, does
  not move before a row it had left out.
- `BooksAddUp`: `CurveSpec => []CurveAddsUp`. `MidnightOpensDate` shows that `nyMidnightMs` finds
  the first moment of every date, so the lots of a row are those sold on its date. `CurveInv` adds that
  no row is newer than the sweep under way, so nothing is written below a row, and that the
  base of a row is the profit of all lots counted below it.
- `RecordExact`: `CurveSpec => RecordIsExact`. After every verdict the code's running peak is
  the highest point of the curve so far and its fall the deepest between two points in order
  (`Exact`); one verdict more keeps that (`OneVerdictMore`), and the first number of verdicts at which
  it failed would have a predecessor where it holds (`CurveIsExact`). Adding the last closed
  decision adds the profit of its lots, which no other decision shares, so the total is that of all
  of them (`VerdictsTotal`); every graded decision has lots (`GradedSound`), so a last one exists.

Only model-checked:

- `OneOrderPerSignal` and `IntentKeepsSlot` past one crash, where they do not hold: the
  theorems above say `restarts <= 1`, and the run allows one;
- all liveness: fairness and `ENABLED` are outside of what the prover handles.

Type invariants: those of `EntryLifecycle`, `ExitLifecycle` and `ServerSync` are
theorems, so no run repeats them, and `OneOpenEntryPerAsset` likewise; the other
modules define one each (`CohortTypeOK`, `ApprovalTypeOK`, ...) for the reader, held by
TLC while the modules were written.

## 5. What is not modelled

- Prices, fees, scores and statistics (Sharpe, drawdown over samples, bootstrap):
  floating-point data no status depends on except through a threshold. Where one
  does, the outcome of the threshold is nondeterministic (`Cohorts!Score`,
  `FlowResearch`), or amounts are whole numbers (`EntrySizing`, `EquityCurve`).
- The texts of prompts, messages, digests and reports, and the dashboard, which
  only reads.
- Short positions: the strategies are long only, and phase 0 reports a short.
- The order book of the collector and the retention of old partitions.
- Schema and migrations, which run once before the first tick; the HTTP client,
  whose outcomes are the reply actions of its callers; the replay harness.
- The unique index of `trader_signals` on the server, where replacing a row can remove
  another.

Each component and its status is in `PROJECT.json`.

## 6. Plan

Ordered by what a mistake costs.

1. Compose `Approvals` with `EntryLifecycle`, so that the row of an approval is
   retried and reconciled like any other.
2. Short and partially filled entries in `EntryLifecycle`, with the ledger's fills
   as the input of the close-out.
3. The server's unique index in `ServerSync`.

Modules that will carry theorems declare no RECURSIVE operator.
