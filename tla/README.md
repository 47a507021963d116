# Iran Market Radar: verification project

TLA+ models of Iran Market Radar, the configurations that TLC checks them with,
and theorems about them that TLAPS has checked. Paths are relative to `src/`;
`PB` stands for `services/paper_broker`.

The program watches the Tehran stock exchange. A worker collects market
snapshots, scans them for signals and runs a paper-trading campaign on them:
orders are filled by a simulator against later snapshots, positions are reviewed
for exits, and cash, profit and equity are booked in a database. An HTTP API
reads everything and writes some of it. The part where mistakes cost money and
tests reach least is the paper broker and the cycle that drives it; around it
stand the collection of snapshots and of history, the scan that makes signals of
them, the decisions that make orders of the signals, and the offline parts that
are trusted with them: the backtester, the campaign tool and the calibrations.

## 1. Inventory

### Components

| component | source | state | operations |
|---|---|---|---|
| paper broker ledger | `PB/ledger.py` | Portfolio (cash, realized_pnl, kill switch), BrokerOrder, Position, PaperTradeLog, ClosedTradeHistory, OrderFill, CashLedger | create_order_from_signal, scale_in_position, create_exit_order, process_pending_orders, _record_closed_trade, toggle_kill_switch |
| execution simulator | `PB/execution.py` | none (writes the order it is given) | simulate_order_fill, evaluate_exits_and_trailing_stop |
| trading cycle | `PB/auto_trader.py` | counters, last_error; PortfolioSnapshot rows | run_cycle, _check_exits, _submit_exit |
| sizing and risk policy | `PB/sizing.py`, `packages/domain/risk_policy.py` | none | solve |
| campaign | `PB/campaign.py` | PaperCampaign, opening snapshot and opening ledger row | initialize, ensure_initial_campaign_snapshot, get_active_campaign_portfolio |
| paper API, auto-trading API | `apps/api/routes/paper.py`, `auto_trading.py` | none of their own | submit, scale in, close, trim, kill switch; trigger a cycle |
| scheduler and market cycle | `PB/scheduler.py`, `services/collector/market_cycle.py` | `_is_running`, task | start, stop, worker loop; collect, scan, trade |
| collector | `services/collector/service.py` | DataSourceReceipt (with the circuit breaker), MarketDataBatch, MarketSnapshot, Instrument | sync_live_cycle, sync_cdn_market_watch, sync of disclosures and index |
| radar scan | `services/collector/service.py` | PublishedSignal, one process-wide lock | run_radar_scan |
| signal scoring | `services/scorer/ensemble.py`, `packages/strategies`, `feature_engine/regime.py` | none | votes, opportunity score, grade, gates, plan of a trade |
| trusted queries, data gate | `services/collector/trusted_queries.py`, `quality.py` | none | which rows may be used, whether entries may run |
| backfill worker | `services/collector/backfill_worker.py` | history progress in receipt metadata, EODBar | backfill with per-instrument retry-after |
| live hub | `services/collector/live_hub.py` | subscriber queues of two messages | subscribe, unsubscribe, publish |
| calibration and learning | `packages/ml`, `services/scorer/calibration_store.py`, `apps/api/routes/learning.py`, `PB/learning_engine.py`, `PB/attribution.py` | CalibrationArtifact rows, learning records | train, approve, load; attribution is called by tests only |
| market rules | `packages/market_rules` | none | session state, next opening, price limits, fees, queues |
| strategies, features, fundamentals | `packages/strategies`, `feature_engine`, `fundamental_engine` | none | numeric rules |
| data adapters | `packages/data_adapters` | per-instance diagnostics | provider requests, parsing, retries |
| backtester | `services/backtester` | a run's local portfolio | replay of bars |
| accounting reconciler | `PB/accounting.py` | none | NAV and reconciliation, read-only |
| broker gateway | `services/broker_gateway` | none; live trading is disabled | refuses |
| read APIs, authentication, web | `apps` | login rate store | views |

### Interactions

    scheduler --> market cycle --> collector --> snapshots      (committed)
                      |       `--> radar scan --> signals       (committed, own session)
                      `--> run_cycle: one session, one commit   (PB/auto_trader.py)
                               |-- process_pending_orders(SELL)
                               |-- _check_exits --> scale_in_position / create_exit_order
                               |-- gates: kill switch, campaign window, data gate, regime
                               |-- process_pending_orders(BUY)
                               |-- create_order_from_signal, up to three
                               `-- PortfolioSnapshot, drawdown kill switch, commit
    HTTP handlers --> a session each: insert an order, set the kill switch, commit
    POST /auto-trading/trigger --> collection and a second run_cycle in the API process
    POST /data/backfill --> collection, a history job and a scan in the API process

Components communicate through the database only (the live hub excepted, which
is in memory). No lock orders an API handler and a cycle; `FOR UPDATE SKIP
LOCKED` guards the order rows a cycle processes.

### What is hard

* **A session that does not autoflush.** Rows a cycle adds are not found by its
  own queries until something flushes, and never enter a collection such as
  `portfolio.orders` that it has already loaded. Decisions are taken on both.
* **Decide, then commit.** An API handler decides on committed tables and
  inserts its order later; a cycle may commit any number of fills in between.
* **One transaction per cycle.** An exception anywhere rolls back every fill,
  ledger row and order of the cycle, while what API clients committed stays.
* **Cursor of an order.** Three timestamps decide which snapshot an order may
  fill against.
* **Partial fills, partial sales, scale-ins** share one position, one trade log
  and integer rounding of cost.
* **Gates re-evaluated at fill time**: kill switch, campaign window, signal
  expiry, cash.
* **Provider failures**: circuit breaker, retry-after, cancellation at a timeout.
* **State read before an await and written after it**: the receipt of a
  collection, the progress maps of the history, the table of signals a scan
  replaces, the campaign rows a tool run repairs, the artifacts an approval
  retires. Some of it is protected by the event loop of one process, some by a
  lock, a unique key or an `UPDATE` of the changed columns, some by nothing.
* **One fact in several places**: thresholds of grades and of publication, the
  freshness of sources, the portfolio that every order of a cycle is sized on.

The full list, with the line where each bites and the properties that watch it,
is `hazards` in `PROJECT.json`.

### What makes each component correct

* ledger: cash is never negative; the cash ledger is a running balance; shares
  held are shares delivered; cash plus cost of the positions is capital plus
  realized profit; every close has one record and it never disagrees with its log.
* orders: one life cycle; each fill at a strictly later snapshot; no BUY under
  the kill switch.
* cycle: aborts without a trace; books no more equity than there is, and not so much
  less that it stops itself.
* collector: no request while the circuit is open or the market closed; a batch is
  stored once; the universe does not shrink silently.
* backfill: every active instrument gets its history; no unfinished session is
  taken for a past one; a rejection is remembered until its time.
* scan: one at a time in a process; it replaces the board whole, keeps the signals
  of waiting orders, and never keeps its cycle from trading.
* decisions: bought on fresh evidence of independent sources, within the risk
  budget, the cash and the ladder of losses; better evidence never costs a signal.
* backtester: the books balance, losses stay within the budget, the report agrees
  with the run.
* campaign: one active campaign whose identity nothing changes; an opening
  snapshot only while pristine.
* calibration: only a fit that won on unseen trades is ever served.
* hub: publishing never blocks, a subscriber sees the newest message.
* scheduler: keeps collecting, misses no session, does not ask too often.

## 2. Modules

    Execution            one order against one bar
      PaperBroker        tables, session, API handlers
        TradingCycle     the order in which run_cycle calls it
          PaperBrokerProofs  types, cash, orders, trades; the cycle implements the broker
    Collector            the worker, API clients and the receipt they share
      CollectorProofs        receipts, universe, circuit
    Radar                market cycles, handlers that collect, scans, the board and
                         orders from it
    TradingHours         calendar of the exchange
      MarketWorker       the scheduler's loop, the hub and its subscribers
        RadarProofs          scans: lock, replacement, pending signals (with Radar);
                             the loop: next opening, sessions, pace; the hub
    Backfill             history jobs over one progress map
      BackfillProofs         history, look-ahead, rejections
    Strategies           twelve strategies
      SignalGates        regime, sources, fundamentals, grade
        Decisions        from evidence to orders (with Sizing)
          DecisionsProofs    scores, grades, losses, affordable and backed orders,
                             better evidence
    Sizing               the solver and the policy
    Backtester           a simulation over days
      BacktesterProofs       books, budget, horizon, report
    Campaign             runs of the campaign tool
      Calibration        trainings, approvals and the calibrator served
        CalibrationProofs    identity, opening, what is served
    CashAccount          what the broker promises about money   (abstract)
    OrderLifecycle       what the broker promises about orders  (abstract)
    SumTheorems          sums over finite sets, for the proofs that count
    MC*                  small instances for TLC

The chain of the program is cut where a table lies between two parts: the
collector ends with a stored batch, the radar begins with one; the radar ends
with signals and an order from one of them, the broker begins with signals that
appear and lapse; the decisions say which orders a cycle would submit for what
evidence, the trading cycle takes any of them. Each side allows the other
whatever its table may hold.

### Execution

`simulate_order_fill` as the operator `Simulate(order, bar)`, branch for branch:
no volume, one-sided limit queue, nothing remaining, not crossed, partial or
complete fill, with the caps on quantity and on price. Money is an integer
number of 1/`FeeScale` rial so that a fee of `BuyFee/FeeScale` is exact; the code
computes in floats. The price-dependent slippage is one constant step `Slip`.

### PaperBroker

| variables | code |
|---|---|
| `cash`, `realized`, `orders`, `positions`, `logs`, `closed`, `fills`, `ledger`, `signals` | the rows as the cycle's session sees them |
| `committed` | the rows of the last commit, which the API reads |
| `session`, `visible` | whether the cycle's transaction is open; how many positions and logs have been flushed |
| `kill`, `killSeen` | the committed kill switch; its value in the portfolio the session loaded |
| `requests` | an order an API handler has decided on and not inserted yet |
| `snapshots`, `lapsed`, `now` | trusted market snapshots, signals no longer valid, the clock |
| `outcome` | `auto_trader.last_error` |

Actions: `Tick`, `ArriveSnapshot`, `PublishSignal`, `LapseSignal` (the market and
the scan); `ApiFromSignal`, `ApiScaleIn`, `ApiExit`, `ApiCommit`, `ApiKill` (the
handlers); `Begin`, `RejectEntry`, `NotFilled`, `BuyFill`, `SellFill`, `Raise`,
`MarkPosition`, `SubmitEntry`, `SubmitScaleIn`, `SubmitExit`, `Commit`, `Crash`
(the session). A fill is one action: order, fill row, cash, ledger row, position,
trade log and, when the position closes, the close record and its flush.
`process_pending_orders` touches only the session's own tables between two
orders, so an action per order loses no interleaving with the API.

`PaperBroker` allows a session to call the broker in any order and with any
cached collections (`held`, `seen`). What holds here holds for every caller.

Three branches of the ledger reject an order after its fill has been added, by
`db.delete(fill)` on a row that was never flushed. SQLAlchemy raises
`InvalidRequestError` for that; the models take the exception, not the intended
rejection (`Raise`).

### TradingCycle

`run_cycle` and `_check_exits` step by step, with a program counter `phase`, the
orders the current pass still has (`queue`), the cached collections (`held`,
`seen`, `loaded`), the positions not reviewed yet (`todo`), the symbols tried
(`tried`), and the equity of the last snapshot and its peak (`nav`, `peak`). Its
Next is a restriction of PaperBroker's; `CycleUsesBroker` says so, and is checked
and proved.
Which exit reason applies depends on features that are not modelled, so `Mark`,
`Adjust` and `TimeStop` choose.

### CashAccount and OrderLifecycle

The abstract specifications. `CashAccount` is an account posted to in batches of
chained rows that are never rewritten and never overdraw it; `OrderLifecycle` is
an order submitted once, filled monotonically, FILLED or REJECTED for good. They
are implemented by the *committed* tables, so that an aborted cycle is a stutter:
`CashIsAnAccount` and `OrdersFollowLifecycle` instantiate them over `committed`.

### Collector

`sync_cdn_market_watch` and what calls it: the worker loop of `PB/scheduler.py`
and the handler of `POST /sync-all` (any number of `Clients`). A call is split at
its one `await`: `Wake`/`ClientAsks` (session hours, circuit, request), then
`Judge` (the answer against the completeness contract), `Store` (batch,
instruments, snapshots; one commit) and `RecordFailure`/`RecordSuccess` (the
receipt; another commit); `TimeOut` is the `wait_for` of
`services/collector/market_cycle.py`. The steps after the await are separate
because a process may die between two commits and because a caller in another
process runs in between; within one process they hold the event loop (`MayRun`).

| variable | code |
|---|---|
| `receipt` | status and `circuit_open_until` of the receipt row, as minutes left |
| `call[c].loaded` | the status in the row that the call's session loaded before its request |
| `largest`, `latest` | `MarketDataBatch.row_count`: maximum and last |
| `known`, `active` | `Instrument` rows, those with `is_active` |
| `sleep` | what the worker still sleeps: a minute, retry-after, or until the next opening |
| `clock`, `reachable`, `restarts`, `Home` | time of day, the provider, deaths, who lives in which process |

SQLAlchemy writes the columns whose value differs from the one it loaded, and a
query does not refresh a row the session already holds. `Written` says so: a
status equal to the loaded one is not written. An answer is a set of rows with
its eligible ones, the number of rejected rows, whether the provider refused, and
whether its timestamp is one already stored. Raw parsing stays out.

### TradingHours and MarketWorker

`TradingHours` counts time in units that divide a second (half seconds in the run), so
that a fraction of a second exists: `Day`, `TradingDay` (weekend, closures), `IsOpen`,
`NextOpen`, and `SecondsUntil` with its cut of the fraction. `CalendarAssumption` says that
the search for an opening finds one within its horizon; the code raises otherwise.
`MarketWorker` is `_asyncio_dynamic_worker`: `Check` decides between a cycle and a sleep
until the opening, `Cycle` takes its time and may publish to the hub, `SleepSlice` sleeps in
slices that may overrun, `Restart` is a death. A socket has a queue of `QueueSize`:
`Announce` offers each of them a message and drops the oldest of a full one (`Offer`). A
message is the newest or an older one, which is all that `NewestReaches` needs.

### Backfill

`run_backfill_batch` for the history worker and for `POST /data/backfill`, in two
processes. A job (`Ask`) copies the progress maps from the receipt and orders its
targets: active instruments without the required history that are not in
cooldown, higher turnover first (being terminal keeps none out). `Receive` is the end of its request, `Store` one
commit per instrument, `Persist` writes the maps it copied with its own findings
back; what another job wrote in between is lost, as in the code. `Conflict` is
the unique key that two jobs meet on. Dates are ages: 0 is today's session,
unfinished while the market is open.

### Radar

`MarketCycleOrchestrator.run` and `run_radar_scan`, and the other callers of either:

| constant | code | stages |
|---|---|---|
| `Cycles` | the worker, `POST /sync-all` | collect, disclosures, scan, trade |
| `Triggers` | `POST /auto-trading/trigger` | collect, trade |
| `Backfills` | `POST /data/backfill` (`routes/health.py:86-95`) | collect, history batch, scan |
| `Jobs` | the history worker | a scan after a batch |

`Collect` may move the newest snapshots (`quote`) whoever calls it. A history batch
that completes an instrument ends with a scan of its own, so a backfill handler may scan
twice (`Batch`, `AfterScan`). A scan runs in a thread (`scan[c]`), for which its caller
waits (`stage[c]`), whatever comes of it: without the lock or a regime there is no scan
(`SkipScan`), an exception ends it (`FailScan`), and a cycle trades in either case.
A scan holds the lock of its process, reads the evidence
(`look`), the orders that wait (`pending`), chooses what to delete
(`delete`) and commits deletions and insertions together (`publish`); it fails if
a row it deletes is gone or a key it inserts exists. Signals have a key of symbol
and second and an author. A client and a trading cycle choose a signal first and
order from it later; run_cycle also makes signals of its own.

### Strategies, SignalGates, Sizing and Decisions

Pure code, as operators over records of small integers, branch for branch and
threshold for threshold: the conditions of the twelve strategies and the plan
(entry zone, stop, targets) each attaches; the best vote of each family, the
ensemble and its penalties; the regime from the breadth of the market; the
receipts of the sources by independent upstream; the fundamental gate; the
grade, the publication gate; the solver with its seven caps. `Decisions` puts them
in the order of a cycle and gives the evidence a life: a delivery (`Receive`), a
day, news about a symbol, another market, another portfolio. Rounding is the
code's, except that halves are rounded up where Python rounds to the even number.

### Backtester

`BacktestEngine.run` day by day (`Morning`: bars; `Consider`: exits and entry for
one symbol, in the order of the plan; `Evening`: value and drawdown; `Finish`: the
report). Exit reasons, costs, sizing on the stop and the reserve are the code's;
which signal a day offers is a plan of a small set.

### Campaign and Calibration

`CampaignTool.initialize` and the repairs of `ensure_initial_campaign_snapshot`: a
run (`Begin`) reads campaigns, portfolios and whether the portfolio has traded,
and commits (`Repair`, `Create`) or fails on a unique key (`RollBack`) later; of
what it read, only columns whose value differs are written. `Resolves(p)` is what
every reader demands of a campaign. `Calibration` adds the handlers that train and
approve (`Train`/`CommitTraining`, `Approve`/`CommitApproval`), each reading first
and committing last: the version of a data set is unique, an approval retires
those it *saw* in force, so that two that overlap leave two; `Served` is the one
cycles and scans load, the last approved. A run of the tool is assumed not to
straddle midnight.

### Abstractions

* prices, quantities and money are small integers; averages round down as
  integer division. The code uses floats for prices and money, so exact sums
  here stand for sums up to rounding there.
* the recommended quantity of the sizing solver is any member of
  `SizedQuantities`; its limit on open positions and the test against reserved
  cash are kept.
* sector, strategy, explanation and audit columns are left out.
* a batch row that repeats the event time of a symbol's last snapshot is left
  out: no query distinguishes it.
* `ledger.py:194-196` (a pending order that is already complete) is left out:
  `FilledQuantityAgrees` shows that no such order is pending.
* the broker's runs stay within one trading date (`DayLength`).
* the collector's clock counts minutes; a day is its opening, its session and the
  rest, without weekends and holidays, which are `MarketWorker`'s. The other
  receipts and the valuation rows of a batch are left out.
* scores are percent, returns permille, the price history of a symbol a profile of
  the features that strategies read; the probability of profit is a curve on 101
  points.
* a training's result on a data set is one of two verdicts, fixed with the data.

## 3. Checks

| run | question | states |
|---|---|---|
| broker_entries | From a new campaign: are orders, fills and tables consistent through partial fills, expiry, the end of the window, aborts, crashes and a concurrent client? | 220,381 |
| broker_exits | From a held position: do cash, shares, cost, trade logs and close records add up through trims, scale-ins and exits by the cycle and a client? | 106,021 |
| cycle | From a new campaign or a held position: does the real order of a cycle implement the broker's interface; does the kill switch stop buying; is equity never overstated? | 37,019 |
| false_halt | Does a cycle trip the kill switch only after a loss of the limit? (No: see below.) | until the violation |
| oversell | Does a cycle ever sell more than it holds? (It may: see below.) | until the violation |
| collector_shared | The worker and a client in one process: does a healthy receipt vouch for a stored batch, does the stored universe shrink below the ratio, does the worker collect again and again once the provider stays back? | 404,740 |
| backfill | The history worker and a handler in another process over one progress map: does an unfinished session enter the history, is a rejection kept, does every active instrument get its history? | 213,891 |
| market_worker | The loop against the real calendar rules: is no session missed, is the provider asked at the right pace for ever, does the newest message reach a slow socket? | 80,836 |
| radar | A cycle, a backfill handler, the history worker and a client in two processes: is the board replaced whole, are the signals of waiting orders kept, does a scan end and let its cycle trade? | 246,701 |
| decisions | From evidence to orders: are orders backed by independent fresh sources, within the risk budget, the cash and the ladder of losses, and does better evidence never cost a signal? | 34,195 |
| backtest | Two symbols over four days: do the books balance, does no trade lose more than its budget, does the report agree with the run? | 710,888 |
| research | Two runs of the campaign tool, two requests, trading and the kill switch: does the campaign keep its identity, is no opening made up, is only a proven calibration served? | 996,772 |

Properties worth a word:

* `TypeOK` contains the claims that cash and the quantity and cost of a position
  are natural numbers: they are protected by checks at fill time only, because
  reservations are computed on stale collections.
* `BooksClose` ties three tables together through partial sales whose cost is
  rounded. `HistoryAgrees` is two claims: the SELL branch always finds an open log,
  also when part of the logs is not flushed (the code has no branch for its
  absence), and a close record never disagrees with its log.
* `KillStopsBuying` is about the switch as the session loaded it: a switch
  flipped later takes effect in the next cycle.
* `EquityNotOverstated` bounds the booked equity from one side only; the other side does
  not hold, and `KillIsEarned` shows what that does to the kill switch.
* `UniverseHolds` is about answers that pass against a bound read earlier; it
  holds in one process because nothing runs between the verdict and the store.
* `CollectionRecovers` covers the end of every circuit, sleep and night.
* `NoLookAhead` says that a bar enters the history only when its day is over and
  together with a full listing, whatever the provider sends: the strategies take
  every stored bar for the past. `RejectionsKept` speaks of a job that no other
  overtook. `HistoryArrives` asks for an instrument that stays active and a
  provider that stays reachable, and for nothing of clients, other instruments,
  nights and deaths.
* `WorkerInv` contains three claims: the computed opening is the first instant in
  a session, the worker is at most a second late for it but for what its sleep
  slices overran, and the last message of a queue, or the last one read, is the
  newest. `Paced` and `KeepsCollecting` are two sides of the cadence: not too often, and
  again on every trading day: from any instant before an opening the loop comes to a cycle
  in that very session, for every day that the bounded clock runs through.
* `OneScanShown` and `ScanKeepsPending` speak of the committed table after a scan,
  with callers that insert orders meanwhile. `ScansEnd` says that a lock is returned and a
  cycle gets past its scan, and only to trading.
* `OneCycleAffordable` has no premise: whatever was pending before a cycle, its orders
  together cost at most the cash, and each of them alone is covered after what was pending.
  The two do not add up to more: all of them after what was pending may cost more than
  there is.
* `BetterEvidenceKeeps` compares the two sides of a step in which one fact of a
  symbol improves: score, penalties, flags, confidence and gates read the same
  facts, each with a threshold of its own.
* `LossWithinBudget` includes the fees of both sides; the exit that a bar causes is
  booked at the stop's price, which is why a gap cannot break it.
* `IdentityStable`: a campaign that readers resolve stays resolved whatever a second
  run of the tool read before the first committed. `LoneApprovalRules` holds even
  after overlapping approvals that left two artifacts in force.

Each property has a mutant: a definition whose name ends in `_Something` after
the name it replaces, with a plausible slip in it, under which the property fails.

Definitions that no run checks by themselves are parts of the proofs:
`RunningBalance`, `NothingLeftBehind`, `CycleTypeOK`, `CollectorTypeOK`,
`RadarTypeOK`, `OneScanPerProcess`, `ShownUntilRefuted`,
`CalibrationTypeOK` and `ToolHelps`.

### Bounds

Broker and cycle: two or three orders, one symbol, two prices, two clock units with
snapshots stale after one, at most one client.

* broker_entries: orders of two shares against snapshots with one share each, so
  that a fill takes two snapshots; `LimitUp` is above both prices, so that an
  order that is not crossed waits. Capital covers one order and not two. The
  campaign ends inside the run.
* broker_exits: starts from the state that an entry filled at time 1 leaves
  (`HoldingInit`), which spares the entry interleavings. Three identifiers allow
  the entry, a trim or scale-in, and an exit; `LimitDown` is below both prices, so
  that an exit that is not crossed waits.
* cycle: from an empty campaign and from that position; both prices are price
  limits, so one-sided queues block buys and sells; no client, because the cycle's
  own order of steps is the question. `KillPercent` is 5 where the code has 12: the
  loss that one share can make.
* collector runs: days of four minutes with three of session; cooldowns of two and
  three minutes, so that they differ, a circuit outlasts a session or ends in it,
  and a blocked circuit can be cut to a network one. One client, two equities, and a
  ratio of 60 %, so that one row after two is too few. One restart, also between
  the two commits.
* backfill: two instruments in a fixed order of turnover, the first with a history
  one session short of what is required; all active or none; days of three units
  with two of session, a cooldown, a circuit and an age of one; one death.
* market_worker: units of half a second (`Second` is 2), so that a fraction can be
  cut off; days of 40 seconds with a session of 15; a start on a Wednesday, a
  weekend, and a closure on the Saturday after it; cycles that take no time or three
  units, a retry-after shorter and longer than a session's
  rest, a drift of two units; queues of two, one death, six days.
* radar: the worker and the history worker in one process, the handler of a
  backfill and a client in another; one symbol, one tick of the second that keys
  and freshness are measured in, one order, any number of deaths. The manual trigger, a
  cycle without a scan, is in the theorems only (`Triggers = {}`).
* decisions: two symbols, profiles of a rally and of a pullback, three sources of
  which two mirror one upstream, five market breadths, nine portfolios at the edges of
  the policy's limits, two of them with purchases pending, days 0 to 2 with receipts that live one, and one change of the
  evidence, to a value at or next to a threshold.
* backtest: two symbols around a price of 200 whose day falls, rises or is missing;
  a plan whose stop is below its entry and one whose stop may lie above; limits of
  one and two positions; a horizon of two days in four.
* research: two runs of the tool and two requests, which are symmetric; a database
  that is new, seeded by fixtures or from before opening snapshots; one midnight and
  a window of one day; three data sets, three approvals.

A second symbol adds no interaction inside the ledger (every query is by symbol
or by position) except through cash, which the orders of one symbol exercise
too. Two clock units cover an order, its first fill and a second one at a later snapshot.
A third run, request, job or caller would overlap with two others in ways that two
overlaps already show, because each meets the tables only when it reads and when it
commits.

### Fairness

* `CollectionRecovers`, under strong fairness of `Wake`, of the worker's own steps and
  of `Tick`, and weak fairness of a client's steps between awaits. The event loop runs
  ready tasks in order, so clients delay the worker's turn and cannot take it for ever
  (a turn is enabled again and again, which is why weak fairness would not say it); a
  request ends, because it has timeouts; synchronous code ends; time passes. Nothing
  is assumed of clients beginning calls, and the provider is reachable for good only
  by the premise of the property.
* `HistoryArrives`, under the same for the history worker, and weak fairness of a
  `Snapshot` that changes something: the collector goes on collecting (which is
  `CollectionRecovers`), and history is asked only of instruments it has seen.
* `KeepsCollecting`, under weak fairness of the loop's steps, which are the only ones that pass
  time: a cycle ends (it has timeouts) and a sleep ends. Nothing is assumed of how it ends.
* `ScansEnd`, under weak fairness of each caller's scan, a thread that nothing cancels
  and that never waits, and of a cycle's entering or passing over its scan.

No liveness is claimed of orders: an exit is a limit order and may wait for ever.

Deadlock is checked except in backtest and research: a simulation ends with its
report, and at the bounds of days, trades and approvals every request is answered.

## Where the code and its documents disagree

Two runs look for a violation. Paths without `docs/` are of the code.

| run | claim | what happens |
|---|---|---|
| oversell | "all sellable volume is already reserved" (`PB/ledger.py:752`) | a trim and a time stop of one cycle reserve the same shares, because the cached `portfolio.orders` lacks the trim (`PB/ledger.py:743`) |
| false_halt | "Drawdown >= 12.0%: HARD KILL SWITCH", from the high-water mark (`docs/RISK_POLICY.md:44-49`) | positions opened by the cycle itself are missing from the cached `portfolio.positions` (`PB/auto_trader.py:310`), their price from the cash: a portfolio worth 148 after a peak of 150 is booked at 128, and the switch trips |

These follow from the models and the code without a run of their own.

Orders and cycle:

* an order that cannot be applied is REJECTED (`PB/ledger.py:440-444`,
  `PB/auto_trader.py:146`): `db.delete` of a fill that was never flushed raises; the
  cycle is rolled back and meets the same order in the next one.
* averaging down is "strictly prohibited" (`docs/RISK_POLICY.md:68`): tested at
  submission (`PB/ledger.py:695`) and not at the fill, which may come at a lower snapshot.
* "Skip if already have open position" (`PB/auto_trader.py:221`): two waiting entries of a
  symbol open two positions in one pass (`PB/ledger.py:308`, without autoflush).
* "Max Active Positions: 10 positions" (`docs/RISK_POLICY.md:30`): waiting entries do
  not count (`PB/auto_trader.py:277`) and open further ones later.
* an exit in a limit-down queue waits (`docs/PAPER_EXECUTION_MODEL.md:19-20`): it is
  REJECTED (`PB/execution.py:125`; `InQueue` in Execution).
* "the cash does not cover the cost of the order and the fee" (`PB/ledger.py:142`): what is
  pending is summed without the orders of the same cycle (`PB/ledger.py:136-140`), so two
  orders reserve more than the cash that earlier purchases left.
* the cash reserve (`docs/RISK_POLICY.md:22`): the orders of one cycle are sized on the same
  cash (`PB/sizing.py:164`), so each keeps the reserve and two of them may not.
* the stop is below the entry (`docs/14_TEST_PLAN.md:22`): a pullback plan may put it
  above; `PB/sizing.py:125` then takes a floor for the distance. `LossBounded` holds.
* `require_positive_expected_edge_after_costs` (`docs/09_RISK_AND_EXECUTION.md:21`,
  `packages/shared/config.py:122`) is read nowhere.

Collection and history:

* the receipt is "persistent proof ... used by fail-closed trade gates"
  (`packages/domain/models.py:154`): after a success and a failure of overlapping calls the
  status stays HEALTHY while the circuit is open, because the failing call had loaded
  UNAVAILABLE and writes nothing (`Written`).
* no new request until the circuit ends (`apps/api/routes/overview.py:429-430`): a request in
  flight when it opens fails later and rewrites its end, or clears it (`RecordFailure`).
* "preventing silent truncation" (`services/collector/service.py:1022-1023`): with two
  processes (`compose.coolify.yaml`) an answer judged before a larger batch is stored
  may be stored after it.
* history is refreshed daily (`docs/03_DATA_SOURCES_IRAN.md:46`,
  `docs/19_OPERATIONAL_RUNBOOK.md:10`): a job asks for missing histories only; a stored one
  ages. A terminal instrument is asked again by the next job, although
  `services/collector/backfill_worker.py:202-203` says otherwise.
* the loop of the scheduler ends if no opening lies within its horizon (369 days), while
  `_is_running` stays true.

Scan and scores:

* a pending order keeps its signal (`services/collector/service.py:1551`): not one committed
  between the scan's query and its commit; the order is then rejected as without signal.
* "Bind a signal to the newest fresh snapshot" (`apps/api/routes/opportunities.py:61`): a
  signal is stamped when it is assembled (`services/scorer/ensemble.py:178-190`), after its
  symbol was evaluated, and only the times are compared: when another caller collects
  meanwhile, the board offers what was computed from older snapshots.
* a locked symbol is not bought (`docs/07_SIGNAL_SCORING_AND_CALIBRATION.md:160`): the
  guard reads the close of the last daily bar (`services/scorer/ensemble.py:73-81`).
* calibration is trained on the opportunity score and applied to the raw ensemble score;
  "rollback by activating another valid candidate" (`docs/25_CONTROLLED_LEARNING_LOOP.md`) is
  not possible with an archived one.

Backtester and fixtures:

* fills lie inside the bar (`docs/14_TEST_PLAN.md:37`, `docs/08_BACKTEST_AND_VALIDATION.md:55`):
  an entry is filled at the low end of its range, a stop at its price, unseen by the
  bar of the day (`services/backtester/engine.py:186`).
* `seed_initial_universe` reads a name `row` that is never bound
  (`services/collector/service.py:319`), so a fixture database cannot be seeded.

## 4. Proofs

For every value of the constants that satisfies the modules' assumptions: any number of
orders, signals, symbols and clients (`BrokerAssumption`, `ExecutionAssumption`,
`CycleAssumption`), of callers, processes and equities (`CollectorAssumption`), of
callers, processes, symbols and seconds (`RadarAssumption`), of weekends, closures, sockets,
cycle times and cooldowns (`HoursAssumption`, `WorkerAssumption`), of tool runs, days, requests,
trades and approvals (`CampaignAssumption`, `CalibrationAssumption`), of instruments and jobs
(`BackfillAssumption`), of symbols, profiles of evidence, sources and portfolios
(`DecisionsAssumption`, `GatesAssumption`, `SizingAssumption`), of symbols, bars, plans and
days of a simulation (`BacktestAssumption`). Five assumptions say something of the market,
the policy or the configuration, and the theorems that need them are worthless without them:

* `EvidenceAssumption` (Decisions): the numbers of a profile are whole and a symbol's
  average true range is at most half its price. The daily price limits of the exchange (5
  percent either way, `packages/market_rules/price_limits.py`) keep it far below that; the
  sizing needs it for the prices of a plan, which are taken some ranges below the last
  close, to be positive.
* `ReserveAssumption` (Decisions): the orders of a cycle at eight percent each, with their
  fees, stay within the thirty percent that the policy always holds in reserve. The code
  submits at most three of them (`PB/auto_trader.py`), which is 24.1 percent.
* `PriceAssumption` (Backtester): a purchase of `MinShares` is worth 400 rials. The code buys
  a hundred shares at least, and nothing on the exchange trades at four rials; below
  it the rounding of the fees could exceed the costs that were budgeted.
* `CalendarAssumption` (TradingHours): after every closure there is a trading day within the
  horizon of the search, less three days for a weekend. The horizon is a year; the code
  raises when it finds nothing (`packages/market_rules/trading_hours.py`).
* `PromptAssumption` (MarketWorker): a cycle and the pause after it fit into a day, and a
  sleep overruns by less than a session. Collection is cut at 45 seconds, and the longest
  cooldown is two hours by default (`packages/shared/config.py`); with a cooldown of more than a
  day, or on a host suspended through a session, a trading day can be missed.

| theorem | states |
|---|---|
| `PaperBrokerProofs!TypeCorrect` | `Spec => []TypeOK` |
| `PaperBrokerProofs!LedgerBalances` | `Spec => []RunningBalance` |
| `PaperBrokerProofs!ImplementsAccount` | `Spec => CashIsAnAccount`, the refinement of CashAccount |
| `PaperBrokerProofs!NothingUncommitted` | `Spec => []NothingLeftBehind` |
| `PaperBrokerProofs!KillSwitchHolds` | `Spec => []KillStopsBuying` |
| `PaperBrokerProofs!FillsFollowOrders` | `Spec => []FillsAreLaterSnapshots` |
| `PaperBrokerProofs!FilledIsDelivered` | `Spec => []FilledQuantityAgrees` |
| `PaperBrokerProofs!ImplementsLifecycle` | `Spec => OrdersFollowLifecycle`, the refinement of OrderLifecycle |
| `PaperBrokerProofs!TradesAgree` | `Spec => []HistoryAgrees` |
| `PaperBrokerProofs!SharesAreConserved` | `Spec => []SharesConserved` |
| `PaperBrokerProofs!BooksAlwaysClose` | `Spec => []BooksClose` |
| `PaperBrokerProofs!CycleImplementsBroker` | `CycleSpec => CycleUsesBroker` |
| `PaperBrokerProofs!CycleIsSafe` | the broker's invariants and refinements, for `CycleSpec` |
| `PaperBrokerProofs!EquityIsThere` | `CycleSpec => EquityNotOverstated` |
| `PaperBrokerProofs!CycleTypeCorrect` | `CycleSpec => []CycleTypeOK` |
| `DecisionsProofs!DecisionsSound` | `Spec => []DecisionsInv` |
| `DecisionsProofs!LossesBounded` | `Spec => []LossBounded` |
| `DecisionsProofs!CyclesAffordable` | `Spec => []OneCycleAffordable` |
| `DecisionsProofs!OrdersBacked` | `Spec => []OrdersAreBacked` |
| `DecisionsProofs!BetterEvidenceHelps` | `Spec => BetterEvidenceKeeps` |
| `BacktesterProofs!SimulationSound` | `Spec => []BacktestInv` |
| `BacktesterProofs!SimulationBalances` | `Spec => []BooksBalance` |
| `BacktesterProofs!LossesBudgeted` | `Spec => LossWithinBudget` |
| `BackfillProofs!HealthyHistory` | `Spec => []BackfillInv` |
| `BackfillProofs!NothingAhead` | `Spec => NoLookAhead` |
| `BackfillProofs!RejectionsStay` | `Spec => RejectionsKept` |
| `CollectorProofs!CollectorTypeCorrect` | `Spec => []CollectorTypeOK` |
| `CollectorProofs!HealthyVouches` | `Spec => []HealthyMeansStored` |
| `CollectorProofs!UniverseIsKept` | `Spec => UniverseHolds`, when all callers are at home in one process |
| `RadarProofs!RadarTypeCorrect` | `Spec => []RadarTypeOK` |
| `RadarProofs!ScansSerialised` | `Spec => []OneScanPerProcess` |
| `RadarProofs!ScansReplaceWhole` | `Spec => OneScanShown` |
| `RadarProofs!PendingSignalsKept` | `Spec => ScanKeepsPending` |
| `RadarProofs!ReplacedAtomically` | `Spec => ShownUntilRefuted` |
| `RadarProofs!WorkerSound` | `WorkerSpec => []WorkerInv` |
| `RadarProofs!SessionsAreMet` | `WorkerSpec => []SessionsMet` |
| `RadarProofs!CyclesPaced` | `WorkerSpec => Paced` |
| `CalibrationProofs!CalibrationTypeCorrect` | `Spec => []CalibrationTypeOK` |
| `CalibrationProofs!CampaignKeepsIdentity` | `Spec => IdentityStable` |
| `CalibrationProofs!ToolResolves` | `Spec => ToolHelps` |
| `CalibrationProofs!OpeningIsHonest` | `Spec => OpeningComesFirst` |
| `CalibrationProofs!OnlyProvenServed` | `Spec => []ServedIsProven` |
| `CalibrationProofs!LoneApprovalServes` | `Spec => LoneApprovalRules` |

**Types.** TypeOK is inductive as it stands. The work is in the fills: `Simulate`
never fills more than remains, a BUY is applied only when cash covers it, a SELL
only when the position holds the shares, and the cost allocated to sold shares is
at most the cost there is. There is one lemma for each kind of step.

**Cash** rests on `MoneyInv`: the working journal and the committed one are both
chained from the opening row to their cash, and the working journal continues the
committed one (`OnlyAdded`). The third conjunct is what makes a commit a legal
`Post`; without it a rollback could restore a journal that the next commit does
not extend. Seen from the money, every action is one of four kinds: it leaves
both journals alone (`MoneyKept`), posts one row in the session, restores the
committed journal, or saves the working one; the invariant and the refinement are
proved per kind, and each action is shown to be of a kind.

**Kill switch.** `KillStopsBuying` compares the fills of the session with the
committed ones, so it is not inductive: a session must begin with no fills of its
own. That is `NothingLeftBehind` (an idle session's tables are the committed
ones), and `KillInv` is the conjunction of the two.

**Fills.** `OrderInv` says of the working tables and of the committed ones
(a rollback makes the latter current) that the cursor of an order is at least its
creation time and at least every fill, that fills belong to orders that exist,
and that an identifier taken in the committed tables is taken in the session,
which is why an API insert never meets fills of an earlier holder. Every change of
an order other than a fill makes a later state of it (`Follows`), and that one
lemma serves all the actions.

**Sums.** Four properties of the broker and its cycle, one of the backtester and one of the
decisions are about sums over tables. A sum is a fold, which a recursive function on the subsets of a set
defines, and `SumTheorems` starts by showing that this function exists (`FoldStep`). The
provers instantiate no theorem with a predicate as a parameter; the induction is therefore
on a *set*: the subsets that have the property, which contains every finite set if it
contains one whenever it contains all smaller ones (`SubsetInduction`, a least-cardinality
argument). From it come what a proof needs: a term added, changed or removed
(`SumAdd`, `RowAdded`, `RowChanged`), sums of the same terms, of disjoint parts, of bounded
terms.

**Trades.** `QuantityInv` reconciles the filled quantity of each order with its fill rows, in
the session and in the database, and says that the session's version of an order is the
committed one, new, or filled further (`Ahead`), which is what makes a commit a legal step of
OrderLifecycle and a rollback none at all. `AimInv` says that an order on a position names
one of its own symbol, in the session, the database and in a request that is not inserted
yet. `HistoryInv` pairs positions, logs and close records: as many open positions as open
logs *of a symbol*, in all rows and in the rows already flushed (`Matched`), because a close
looks for the open log with a query that sees flushed rows only. `SharesInv` and `BooksInv`
say of both, session and database, what `SharesConserved` and `BooksClose` say of one: a
rollback restores the other. The steps are classified once by what they do to the tables
(`Trading`, `Ending`, `Bought`, `Sold`), and each invariant is proved against that.

**Cycle.** `CycleInv` says that the collections the cycle has cached hold rows
that exist and that a price was quoted for the position under review, which is
what the broker requires of a caller. With it every step of TradingCycle is a
step of PaperBroker, so `CycleSpec => Spec`, and the broker's invariants hold of
the cycle without another proof. It also makes the equity honest: what the cycle adds up is
a part of what the database holds, and no term is negative (`ValueGrows`). The types add
`ShapeOK`: the program counter is idle exactly when no transaction is open.

**Collector.** `StoredInv` adds to HealthyMeansStored what a call on its way to the
receipt has achieved: it is about to store a nonempty batch, or one is stored.
`UniverseInv` is mutual exclusion: with one event loop at most one call is
between two awaits, so the verdict of a call is still true of the largest batch
when it stores. The theorem takes `OneHome` as its
assumption: with two processes it does not hold.

**Radar.** `ScanInv` adds to the types and to the lock what a scan under way may count
on: what it means to delete was there when it looked and is no pending order's
(`PendingSpared`); what stands on the board from another scan of its process is among it
(`RivalsDoomed`), because the lock kept every other scan of the process out since.

**Worker.** That the computed opening is the first instant in a session (`NextOpenIsFirst`)
needs a least element of the trading days ahead, which are not empty because of
`CalendarAssumption`, and the arithmetic of days and instants: a day's instants follow one
another, and between two openings lies no session. `LoopInv` then follows the loop.
A sleep rests until `Rests`, or, if its slices overrun by all that is left to
them, until `LatestEnd`. `MeetInv` says that every session that is over by then has been met:
the induction looks ahead to the end of the sleep, because nothing is decided on the way.
`WakeInv` says of a sleep for the opening that it ends at most a second after the opening of
the next session still to close, drift apart; `PaceInv` that the pause under way, whatever it
waits for, ends a cadence (or a second) after the last start; `ModeInv` that a cycle began at
this instant, in a session that now counts as met. The hub needs no more than its types and
`NewestReaches` (`SocketOK`), one lemma for a message offered and one for the steps of a handler.
There is no bound on the clock in any of it; `FairWorkerSpec`, which the run checks, implies
`WorkerSpec`.

**Campaign.** `CampaignInv` says of each run of the tool (`RunOK`) that what it read
still holds, or that its commit will fail: a repair under way finds the campaign it
read and no active portfolio it has not seen, except its own; a creation meets either no
campaign or the identifier it would insert. The two runs may overlap at any two points,
and the unique key does the rest.

**Calibration.** `CalibrationInv` says that every version that is a candidate, in force,
archived, or seen by an approval has won (`Won`, `ArtifactOK`), and that an approval that
nobody overtook has seen all that is in force (`RequestOK`). That `Served` is in force
takes a least element of a set of natural numbers, which the library's theorem about
well-founded relations gives.

**Decisions.** Nothing about an order outlives the cycle after it, so the properties are proved
of the step `Enter`, from what holds between cycles (`States`: types of evidence, receipts and
portfolio); `CycleInv` adds what is said of the orders of the last one. Most of the proof is about pure
operators: the plans of the twelve strategies have positive prices and a stop below the
entry, votes, ensemble and penalties stay in `0..1000`, a signal that is graded better than C
passes the gate, the least of seven caps is below each of them, and division rounds down.
`LossBounded` allows one rial and a hundred-thousandth of the purchase over the budget: the
model keeps percentages as integers and the quotient of the solver is exact only to that.
`OneCycleAffordable` sums the orders: each is at most eight percent of a net asset value
that no order of the cycle changes, and the reserve leaves room for all of them. That each
is also covered after what was pending is carried from its own check (`OrderCovered`)
through the reservations that the cycle adds.

**Better evidence.** `BetterEvidenceKeeps` compares one symbol on the two sides of a step. The
strategies, the price limits and the size of the sample read none of the facts that evidence
improves by (`Alike`), so both sides have the same candidates, families, vote, chance and
flags: no case of a strategy is ever looked into, only the fields it reads. What does read
them grows with them: the quality of the history, from it the confidence, from the
confidence and the fundamental score the opportunity score (`QualityGrows`,
`ConfidenceGrows`, `ScoreGrows`, all on division keeping an order), and the fundamental gate
stays open (`GateStaysOpen`). A fact that a strategy does read is not among them: a better
vote may lower an average, as the code has it.

**Backtester.** `LabInv` adds to the report's consistency, the horizon and the books that a
position is `Sized` by its budget, that the drawdown kept is at least the present one, and
that the last close of a symbol is one of its bars. That a loss is within the budget is one inequality between a
product rounded down and two fees rounded up; `PriceAssumption` closes it.

**Backfill.** `JobInv` says of a job that the waits it will write back are at least those it
copied (`Sound`) and that a bar it is to keep is of a finished session. `NoLookAhead` rests
on the latter: the verdict on a bar is formed when the answer comes, against a snapshot that
may be old by then, and stored later, when the session may have changed again.

Model-checked only: liveness (`CollectionRecovers`, `HistoryArrives`,
`KeepsCollecting`, `ScansEnd`), because the provers reason neither about fairness nor about
ENABLED; and the two claims that do not hold. Every invariant and every action property
that a passing run checks is stated by a theorem of the table, by itself or as a part.

## 5. Not modelled

* **A second trading cycle.** `POST /auto-trading/trigger` runs a cycle in the API process
  beside the worker's (`apps/api/routes/auto_trading.py:105`). `FOR UPDATE SKIP LOCKED`
  keeps the two off each other's orders; `Portfolio.cash` is written from the value each
  session loaded, so one overwrites the other. PaperBroker is a model of one session and
  its properties assume one; Radar has the trigger among its callers.
* **The composition of Decisions and TradingCycle.** Decisions computes which orders and
  exits a cycle wants; TradingCycle takes any. Their product is beyond TLC, and the
  broker's properties do not depend on which it is.
* **Retired paths.** `sync_market_watch`, `sync_indices`, `sync_reference_universe`,
  `sync_reference_fallback`, and `sync_all_data` in official mode raise in their first
  statement; what follows (some 600 lines of `services/collector/service.py`) cannot run.
  The same holds of code that only tests call: post-mortems, indicator attribution,
  `evaluate_exits_and_trailing_stop`, the disclosure classifier and the fundamental metrics.
* **The queue of research proposals** (`apps/api/routes/learning.py:376-446`): nothing outside
  tests inserts a proposal, and of the actions on a fresh one only `reject` succeeds.
* **Storage of disclosures, parsing of providers' answers, indicators and fits**: no state
  of their own, or floating-point formulas that promise nothing beyond themselves.
* **Reading views, the risk-ticket preview, authentication, rendering**; the broker gateway,
  which is disabled; the accounting reconciler, which compares a value with itself.

Behaviour that is known and that no property covers:

* the volume of a trading day that begins again between two snapshots (`PB/ledger.py:268`);
* the quantity of a close record after a trim and a scale-in (`PB/ledger.py:402`);
* a regime that the policy does not know, such as "distribution", is sized as RISK_ON
  (`PB/sizing.py:92`), and neither the daily caps nor the breaker of daily losses are fed;
* a subscription whose first message fails stays in the hub
  (`apps/api/routes/market_stream.py:17`);
* two runs of the campaign tool on both sides of midnight open two campaigns, which every
  reader then refuses; no code ever ends a campaign;
* a flip of the kill switch between the reading and the commit of a repair is lost if the
  repair found another value (`tools/start_paper_campaign.py:61`; Campaign has it, no
  property is about it);
* positions still open when a backtest ends are valued and not closed, and a day without a
  bar values a position at its entry price (`services/backtester/engine.py:80`).

Left for later: a model of two cycles, which must start from what the database promises of
two transactions.
