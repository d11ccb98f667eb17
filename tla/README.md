# mt5-ml-bot: TLA+ models, checks and proofs

`mt5-ml-bot` is a MetaTrader 5 trading bot. One process runs a main thread and one thread per
symbol over a single terminal connection; a broker executes its orders whenever it likes; the
process can be killed at any point and starts again from its files. Next to it the repository has a
second bot, whose trades an expert advisor in the terminal executes from files, and a backtester.
This directory holds models of them, translated from the Python and MQL5 code, TLC runs over small
instances, and TLAPS proofs of the main safety properties for every value of the constants.

Contents: 1 the system, 2 the modules and how they correspond to the code, 3 runs and bounds,
4 what is proved, 5 what the checks found, 6 what is not modelled, 7 the plan.

## 1. The system

### Components

| Component (code) | State it keeps | Operations that change it | What makes it correct |
|---|---|---|---|
| symbol threads (`symbol_processor.py`) | `stop_event`, client, models, where the loop is | wait for a bar, fetch, decide, enter, `stop` | a bar is decided on once; one order per attempt; ends when stopped |
| order path (`execution.py`, `trade`) | ticket snapshot, tries, cache entry | send, retry, search for the position, record | an order of unknown outcome is never sent again and its position is found |
| reconciliation (`execution.py`) | `open_positions_cache`, `close_first_seen` | list, check closed, drop foreign, adopt | every closed trade reported, none while open, none forgotten |
| limits (`risk.py`) | cache, `cache_lock`, `entry_lock` | `max_positions_reached`, `position_size`, `total_open_risk` | limits hold at the broker, not only in the cache |
| stop management (`risk.py`) | stop in the cache and at the broker | copy, compute, modify, write back | the risk never grows, breakeven is kept |
| risk gate (`risk.py`, `live_guard.py`, `balance_flows.py`) | equity peak, cooldown, pending flow | `should_trade`, `poll`, `shift_peak` | a deposit or withdrawal is counted once, a cooldown is kept |
| main loop (`main.py`) | the pass, processes, files | connect, load, save, reconcile, learn, retrain, reconnect, shut down | results survive failures and restarts |
| MT5 connection (`mt5_client.py`, `mt5_lock.py`) | `_generation`, `_initialized`, attached clients | connect, release, `teardown_connection`, every wrapper | an old client never reaches the terminal |
| risk controller (`risk_controller.py`, `linear_thompson.py`) | bandits, streaks, grids, state file | `get_params`, `update`, reset, adapt, save, load | one reward per trade, file and memory agree |
| monitor (`live_performance_monitor.py`) | equity, peak, closed trades, state file | log a trade, sync, save, load | the drawdown the gate reads is the account's |
| warm start (`bandit_warmstart.py`) | the live bandit file | merge backtest priors | each source is merged once |
| retraining and acceptance (`retraining.py`, `model_integrity.py`) | child processes, staged folder, dates | trigger, fit, judge, accept | one retrain at a time, only accepted models trade |
| promotion (`utils.py`) | live, backup and staged folders | promote, discard, recover, load | there is a loadable model at every point |
| bars and history (`data_manager.py`) | CSV files, one of them shared by all threads | fetch, append, bootstrap, join the context | the context of a decision is the newest closed one, none from the future |
| H1 bridge (`h1_bot.py`, `h1_bridge.py`, `h1_strategy.py`, `H1Bridge.mq5`) | export, history cache, signal and state file, globals of the terminal, the position | export, merge, decide, publish, enter, exit, kill | a signal is acted on once and only on the bar it is for; a position ends; a kill is for good |
| backtester (`backtester.py`, `backtest_*.py`, `costs.py`) | one run over frames | fills, costs, walk-forward windows | no look-ahead, costs charged where they are paid |
| decision helpers (`decision.py`, `trade_types.py`) | none | pure functions | live and backtest decide alike |
| state files (`atomic_io.py`, `state_paths.py`) | files | atomic replace, quarantine | a file is old or new, never half |
| ML, offline tools, configuration, notifier | files and logs | single runs | - |

### How they interact

* Symbol threads and the main thread share `open_positions_cache` under `cache_lock`. `entry_lock`
  serialises entry attempts of all symbols from the limit check to the recorded position.
  `api_lock` serialises every call of the MetaTrader5 package; `order_send` holds it until the
  broker answers. Allowed orders: `_state_lock` then `api_lock`, `cache_lock` then `api_lock`.
* Results travel from the reconciliation (main thread) to the monitor and the bandits as
  `ClosedTrade` records, from there into the state files at the *next* pass.
* `stop_event` carries a stop from the main thread to a symbol thread; a thread that does not see
  it within ten seconds is left behind.
* Retraining children and the main process communicate by folders: staged, live, backup.
* The terminal's position list and its deal history lag behind the broker and behind each other.
* Every symbol thread asks the one `RiskManager` (`should_trade`) before an entry; the main thread
  keeps an equity peak of its own in the monitor. Both follow deposits and withdrawals through a
  `BalanceFlowCursor` each.
* `get_params` and the resets of the bandits run on the symbol thread, `update` and `save_state` on
  the main thread.
* The H1 bot and its expert advisor share files only: `h1_bars` (advisor to bot), the signal (bot to
  advisor). The advisor also keeps global variables of the terminal, which outlive it.

### What is hard

Orders without an answer; a list and a history that lag; adoption racing the delayed cache insert;
checks on a cache that is behind the broker; a save that precedes the reconciliation of the same
pass; kills between any two file operations; threads that survive a reconnect; answers of a stop
modification that are lost; a deposit between two looks at the account; state that is shared without
a lock; two programs that read each other's files while either is restarted; labels that reach into
the bars they are used on. `PROJECT.json` lists each such hazard at its line, with the properties
that cover it or the reason why none does.

## 2. The modules

A definition whose name ends in `Mutant` is the definition after it with a plausible mistake. No
action uses it: it is there to show that the property named for it in `PROJECT.json` notices.

| Module | Models | Extends |
|---|---|---|
| `Terminal` | the broker and the terminal's views, as the bot's calls see them | - |
| `LiveTrading` | entry, order path, recovery, reconciliation, learning, saves, restarts | `Terminal` |
| `TradeLedger` | what live trading promises about a trade: the abstract specification | - |
| `MCLiveTrading` | symmetry, view, constraint and limit sets of its runs | `LiveTrading` |
| `StopManagement` | breakeven and trailing of one position | - |
| `MCStopManagement` | the trades and settings of its runs | `StopManagement` |
| `Session` | the shared connection, reconnects, a thread's way from bar to order | - |
| `ModelStaging` | retraining, acceptance and promotion of one side of one symbol | - |
| `BalanceFlows` | the deal history and the cursor that follows it | - |
| `RiskGate` | `should_trade`: cooldown, pending flow, equity peak, per thread | `BalanceFlows` |
| `EquityMonitor` | the equity peak of the main thread and its file | `BalanceFlows` |
| `RiskController` | bandits, grids, adaptation, reset, state file, warm start | - |
| `BarFeed` | the bars of a decision and their context | - |
| `H1Bridge` | the H1 bot and its expert advisor | - |
| `Backtest` | the replay of the backtester | - |
| `StopsAndExits` | `StopManagement` or `H1Bridge`: what follows an open position | both |
| `SeparateParts`, `MCSeparateParts` | one of `Backtest`, `RiskGate`, `EquityMonitor`, `RiskController`, `BarFeed`, `ModelStaging` | these |
| `LiveTrading_proofs`, `Credit_proofs`, `StopsAndExits_proofs`, `ModelStaging_proofs`, `Session_proofs`, `BalanceFlows_proofs`, `Backtest_proofs`, `SeparateParts_proofs` | the theorems | their module, `TLAPS` |

`LiveTrading` composes the components that share `open_positions_cache`. The others share no state
with it beyond an input (a signal that passed the gate) or an output (a `ClosedTrade`), and none
with each other. `SeparateParts` and `StopsAndExits` put several of them into one run: a behaviour
is a behaviour of one part, the variables of the others rest. `RiskGate` and `EquityMonitor` have the
account's history in common and a cursor each.

### Terminal (external)

A ticket is an order and the position it becomes: `state` goes from `none` to `sent`, `open` and
`closed`. `listed` is what `positions_get` returns, `outDeals` what `history_deals_get` shows: both
catch up with the broker in steps of their own (`ListCatchesUp`, `DealAppears`), in any order.
`Foreign` tickets belong to other programs on the account (another magic number). The account is a
hedging one: every filled order is a position of its own, as the code assumes.

### LiveTrading

| State | Code |
|---|---|
| `pc`, `attempt` | where a symbol thread is in `_make_trade_decision` / `trade`, and its locals |
| `entryLock`, `stop` | `RiskManager.entry_lock`, the `stop_event`s |
| `cache`, `cacheRisk`, `flagged` | `open_positions_cache`: `recorded` by `trade`, `adopted` by the reconciliation; its `risk`; `close_first_seen` |
| `brokerList`, `toCheck`, `results` | locals of `reconcile_open_positions_with_mt5` and the returned list |
| `learned` | what was handed to the monitor and to `RiskController.update` |
| `saved` | the state files after the last save |
| `mpc`, `booted`, `restarts` | where `run` is; the startup reconciliation is over |
| `unaccounted`, `unpriced` | history variables, see below |

A step ends where another actor can come between: at a lock, at a call of the terminal, at a
message to the notifier. The reconciliation keeps `cache_lock` over its calls, one missing ticket
per step (`CheckClosed`), and can fail in the middle (`ReconcileFails`). A thread that waits for
`entry_lock` is in the same state as one without a signal, because the attempt is given up after
60 s and has changed nothing. `MainLoopFails` is any exception of the loop body, including one in
`update` for a single trade; `Reconnect`, `ShutDown` and `Crash` are the three ways to leave a pass.
The dry-run branch of every function is left out.

Sizes are integer units of money at the stop. `position_size` picks one within the room that
`max_portfolio_risk` leaves (direction, lots and their rounding only make it smaller); the broker may
fill at another price, which moves the money at the stop up by `MaxSlip` at most (`deviation`,
`execution.py:507`) or down to any value (`Execute`); and `RecordPosition` caches the risk measured
from the price of the fill (`execution.py:606-613`), or, when neither the deal nor the position gives a
price, from that of the request. `unpriced` remembers the positions that were recorded for too little
that way. Stop management only lowers the money at a stop and is in `StopManagement`.

`unaccounted` names the symbols for which the bot has said, or cannot know, that it may not know
every position: an alert told a person to look, a restart lost an unsaved entry, or the recovery
took another new position for its order's. The entry limits are stated for the other symbols.
This is what the code promises and no more; the variable is only written at the steps where the
code sends such an alert or loses an entry, and no guard reads it.

### TradeLedger and the refinement

The ledger has neither threads nor locks, caches, lists or histories. A trade is `free`, `ordered`,
`open`, `closed` and `settled`; a symbol gets an order only when nothing of it is under way; a closed
trade is settled by a report, by an alert that leaves its symbol to a person (`excused`), or silently
only where it was `adopted`; reports can be lost, silently, before they are `handed` to the main loop,
afterwards each is credited, and once; a restart goes back to a file. The silent loss is in the ledger
because it is in the code: when a reconciliation raises, the results it had are not returned
(`execution.py:244`) and its alert names no trade. `LiveTrading`
implements it (`Implements`): the stage of a ticket is what the broker says of it together with
whether the cache or an attempt still holds it (`StageOf`, `InHand`), the reports are the results on their way
to the bandits, the file is the saved state.

Adopted trades are loose in the ledger because they are in the code: an entry made from the list has
no `risk_amount`, gives no reward, and may be made for a trade that was reported already while
the terminal still lists it. A trade that was executed and closed before its recording, and lost in a
crash, is settled silently: nothing in the program or the file ever knew of it.

### StopManagement

One position with its cache entry and the saved copy, under one of the configured rules.
`CopyEntry` takes the copy under the lock, `Decide(d)` computes the stop from the price and the
trailing distance `d` of the bar, `Modify(answered)` is the request at the broker with or without
its answer reaching the bot, `UpdateEntry` writes the cache. Reconciliation flags, drops and
adopts the entry in between; a restart loads the file's. Prices are integer points and the spread
is a constant; stops moved by a person are left out.

### ModelStaging

The live, backup and staged folders as the set of trainings whose files they hold and whether the
folder is signed. Every rename, delete, write of a file and signature is a step, and the child or
the main process can be killed before any of them. A discard may leave files behind
(`ignore_errors`). The verdict of the acceptance test is a nondeterministic choice. `overlap` is a
history variable: two children of the side have run at once. Only a kill of the main process makes
that possible (`OneRetrainAtATime`); two writers of one staged folder void what the code does to
keep the folders sound, so `ModelOnDisk` and `AcceptedOnly` are stated without an overlap.

### Session

`generation` and `attached` are `_generation` and `_attached_generation` of every client, `inside` is
the thread that holds `api_lock` in `order_send`, `up` whether the package's connection works. A
pass of the reconnect loop is a *session* with a main client and, per symbol, a client and a thread:
threads of an earlier session that are still running are threads of the model like the others.
`Attach` and `AttemptFails` are one connect attempt of any client; `Fails`, `Release`, `Teardown` the
exception path of `run`; `Interrupt` the way out. `BeginWait` and `SeeNewBar` are
`wait_for_new_bar`, `Fetch` the bars without the one that is forming (a `DataManager` does not ask
a client whether it is connected), `Enter` the last look at `stop_event` before `trade`, `SendOrder`
and `OrderReturns` the call under `api_lock`. What happens between `Enter` and the cache is
`LiveTrading`'s.

### BalanceFlows, RiskGate, EquityMonitor

A peak is modelled by what it accounts for: how often the money of every deal is in it. `shift_peak`
adds the deals of a flow, a new high is the equity of that moment, which has every posted deal once.
Trading results only decide whether there is a new high, and are an input. `Looks` is one `_poll`: a
read that raises changes nothing, an empty answer only starts the cursor, and otherwise the flow is
the deals of the window that have not been seen. A deal posts at most `Margin` (`LOOKBACK_MARGIN`) late.

`RiskGate` is `should_trade` step by step for any number of threads, a step per access to what they
share: `_pending_flow += poll()` reads the field (`LoadPending`), polls and stores (`StorePending`).
`EquityMonitor` has the order of the start-up (equity read, file loaded, flows applied, sync, save), the
passes, the save and the crash. `old` is a history variable: the deals the history held at the first
look, which are recorded without being counted. That `sync_equity` at the start-up takes the older
equity for a new peak (`main.py:184`) is not excused: `PeakFollowsFlows`, that a counted deal's money is in
the peak, is false of the code (`stale_sync`), and `OnlySyncLosesMoney` says that no other step breaks
it.

### RiskController

An arm is its evidence: the trades credited to it and the weight of the backtest prior in it. Which
arm looks best, whether a trade won and how the equity moves are inputs. In mode `live` the symbol
thread decides and resets (`CheckReset`, `ResetBandits`, `ResetGrids`: three steps, as another thread
sees them), while the main thread learns and writes the file in two steps (`SaveBandits`,
`WriteState`); grids are fixed there, as `config.yaml:129` ships them. In mode `backtest` one thread does
all of it, grids are adapted and refined (`Refined` is `_refine_grid` on integers) and evidence moves to
the nearest new arm. `MergeWarmstart` merges the newest backtest into the live file before it is
loaded, through failed saves and damaged files.

### BarFeed

A bar is the number of the slot it opens in and what is in it never changes once it has closed, so
a file is the set of its bars. `Fetched` is `copy_rates_from_pos` without its last bar, of a history that
may be `Lag` slots behind, or nothing. `FetchOwn`, `FetchMta`, `FetchIm`, `LoadShared` are the parts of
`fetch_live` with their ways to skip the bar, `ReadShared` and `ReplaceShared` the two halves of
`append_new_bars` on the one file several threads write. Both context features are on, which makes
every part happen. `Joined` is the as-of join of `add_contextual_features`. `StartFeed` is a restart or
reconnect with `bootstrap_history` of every file.

### H1Bridge

The advisor: `OnInit` (read the globals, export), `OnTimer` (export of a new bar in two file operations),
`ManageExit`, `HandleSignal` (mark first, then enter), a drawdown kill, being closed at any step. The
bot: merge the export into a history that must not have a hole of `MAX_GAP`, write the cache, decide,
publish the signal, note the bar; a failing cycle and a restart at any step. A signal carries, for
the properties, the history it was decided from and the fold its models are of. Probabilities are an
input. Bars may be missing from the market, timers may come late.

### Backtest

One bar of `_process_bar` per round: fills of the pending order and exits of the open position (a gap
through the stop, stop before target), the early stop, the gate with drawdown and consecutive losses,
the fit of a block's models, the decision, breakeven and trailing that apply from the next bar, the forced close at
the end. Symbols are replayed one after the other over one equity, peak, cooldown and list of results,
as the code does. Probabilities, stop distances and the bars are inputs; money is in integer points.

## 3. Runs

Every run is checked with `tlc -workers 2 -config <cfg> <module>`.

| Run (module, cfg) | Bounds | States | Shows |
|---|---|---|---|
| `entry_limits` (`MCLiveTrading`, `LiveTrading`) | 2 symbols, 2 tickets, 2 sends, a unit of slippage, no restart, 2 settings of the limits | 1.9 M | one position per symbol and `max_positions` hold at the broker; the risk cap does up to the slippage of one fill |
| `restart_credit` (`MCLiveTrading`, `LiveTradingRestart`) | 1 symbol; 2 own tickets and 2 restarts, or an own and a foreign one and 1 restart | 945 k | no reward twice, over restarts too; only closed positions of the bot are learned from; live trading keeps the ledger |
| `entry_progress` (`MCLiveTrading`, `LiveTradingFair`) | 1 symbol, 1 ticket, 2 sends | 15 k | attempts end, open positions get tracked, closed ones reported, what the main loop is handed is learned from |
| `stops_and_exits` (`StopsAndExits`) | 7 prices, a long and a short, 3 rules, 1 restart; bars 4 to 6, 1 restart of bot or advisor | 387 k | the risk at the stop never grows, breakeven is reached and kept; signals are acted on once, currently, and from what is on disk; a kill is for good, a due position is closed |
| `session` (`Session`) | 1 symbol, 2 sessions, 3 bars | 11 k | threads left behind never reach the broker and end, no bar is traded twice, a reconnect comes through |
| `separate_parts` (`MCSeparateParts`, `SeparateParts`) | see below | 652 k | no look-ahead in a block's models, early stop is flat; no deal is missed by the two peaks, or lost but by the sync of the start-up; the two stop bandits agree, priors are counted once, resets keep their distance; the higher-timeframe context is current; a model survives every kill and only accepted ones go live |
| `reported_twice` (`ReportedTwice`) | 1 symbol, 1 ticket | finding | a trade is reported twice |
| `lost_on_restart` (`LostOnRestart`) | 1 symbol, 1 ticket, 1 restart | finding | a trade closed while the bot was down is lost |
| `stale_sync` (`EquityMonitor`, `StaleSync`) | 1 deal, 2 units of time | finding | a deal of the start-up is counted and its money is not in the peak |
| `stop_loosened` (`StopLoosened`) | as above, no restart | finding | a stop is moved back after a lost answer |
| `gate_race` (`RiskGate`, `GateRace`) | 2 threads, 1 deal | finding | a deposit is lost between two threads |
| `context_race` (`BarFeed`, `ContextRace`) | 2 threads, 2 slots | finding | a thread decides without the inter-market bars it has just fetched |

Why these bounds are enough to be interesting:

* Two symbols and two tickets are the least with which two threads compete for one slot of a limit,
  and an entry can meet the late fill of an earlier order. The two limit settings (`EachLimitBinds`) make
  `max_positions` bind, or the risk cap as soon as the first fill has slipped. Tickets and symbols are
  interchangeable, which the symmetry set uses; the liveness runs use none. `WhatIsRead` is a view that
  drops what no step reads any more: without restarts the file and what was learned, and the money of
  positions that are gone.
* Two tickets and two restarts contain save, learn, crash and load in every order, and a crash of the
  restart. The constraint `Focused` stops a behaviour when its only symbol has been left to a person: from
  there on neither the code nor the properties promise anything. It also lets a behaviour have a
  second trade of the bot or a position of another program, not both.
* Seven prices let the market pass +1R, fall back and trail in both directions; two trailing distances
  let a later bar ask for a looser stop.
* Three bars are a signal that is entered, held to its time exit and followed by another one, with a
  missing bar, a late timer and a restart of either side; the history has two folds of models.
* Two sessions are a thread of an old one next to that of the current one; with three bars both can
  decide on the same bar, and on different ones. Two symbols of one session meet in `Session` only
  at `api_lock`, as two sessions do.
* In `separate_parts`: two symbols of six bars, so that a block's models are fitted anew and cooldown, equity and
  results reach the second symbol; one deal, two units of time and one thread for the gate and the monitor
  (two threads are `gate_race`); one live trade with two starts for the merge and the races of the
  file, two trades in a backtest for adaptation followed by a reset; eight slots with two of them shut, a lag of two and higher
  bars of two slots for the context; three retrains and two kills, so that a child outlives the
  process twice over.

The proofs remove the bounds for most safety properties (section 4). Deadlock is checked in the runs
of `LiveTrading` and in `stop_loosened`; the other systems stop at the bound of their time or after
their last step.

### Fairness

* `LiveTrading`: threads and the main loop keep running (weak fairness of the steps that are enabled
  until they are taken; strong fairness of those that wait for a lock, which is free again and
  again because every holder releases it in a `finally` or a `with`). Of the terminal: an order in
  flight is answered in the end, its list and history catch up, and it does not fail to answer every
  single time. Without the last one the code promises nothing. No fairness is put on restarts,
  refusals or closing.
* `StopManagement`: the thread comes by on every bar, and a request is not lost for ever.
* `Session`: threads go on, `order_send` returns and is sent again only `retry_order_send` times
  (`_send_order_with_retry` is bounded), and `connect` and `account_info` succeed in the end when
  they are tried again and again, which the loop in `run` does. An interrupt and a lost connection
  have no fairness.
* `H1Bridge`: a closed advisor is started again and its timer goes on (weak fairness); a close that is
  retried on every timer succeeds at some time (strong fairness of `ManageExit(TRUE)`). Nothing is
  assumed of the bot: a position ends without it.

The other parts are checked for safety only and state no fairness.

## 4. What is proved

`tlapm` checks every theorem from no assumption but the named assumptions on the constants.

| Module | Assumptions | Inductive invariant | Theorems |
|---|---|---|---|
| `LiveTrading_proofs` | tickets and symbols disjoint from `None`, `Limits` natural numbers, `MaxSends > 0` | `EntryInv` | `Inductive`, `EntryInvariant`, `TypeCorrect`, `OneEach`, `LearnsFromClosed` |
| `Credit_proofs` | the same | `CreditInv`, `CapInv`, `RiskInv`, `LedgerInv` next to `EntryInv` | `CreditInvariant`, `CreditedOnce`, `FilesAreConsistent`, `OneOrder`, `CapHolds`, `RiskCapHolds`, `KeepsLedger` |
| `StopsAndExits_proofs` | prices and settings of the right type, first stop on the losing side; widths and periods positive, the first bar after the history | `StopInv`, `BridgeInv` | `StopsInductive`, `StopInvariant`, `RiskIsBounded`, `EntriesAreBehind`, `BreakevenStays`; `BridgeInvariant`, `ActedOnce`, `EntriesAreCurrent`, `CacheStaysSound`, `SignalsAreOnDisk`, `StaysKilled`; `PartsKeepTheirSpecs` |
| `ModelStaging_proofs` | bounds are natural numbers | `StagingInv` | `StagingInductive`, `StagingInvariant`, `ModelSurvives`, `LiveIsAccepted`, `NoOverlap` |
| `Session_proofs` | bounds positive, `None` not a thread or symbol | `SessionInv` | `SessionInductive`, `SessionInvariant`, `OnlyThisSessionOrders`, `TeardownDisconnects`, `OneTradePerBar` |
| `Backtest_proofs` | distances positive, the label horizon within the training window | `BacktestInv` | `BacktestInvariant`, `NoLookAhead`, `StoppedFlat`, `FillsOfTheBar`, `GateHolds` |
| `BalanceFlows_proofs` | `Margin` a natural number; for two theorems a single thread | `GateInv`, `OneThreadInv`, `MonitorInv` | `GateInvariant`, `GateSeesEveryDeal`, `GateLosesNothing`, `CooldownRunsOut`, `MonitorInvariant`, `NoDealMissed`, `PeakStaysPaired` |
| `SeparateParts_proofs` | interval, cooldown and grid bounds natural numbers, `Absent` not a number; a fetch longer than a higher-timeframe bar and not longer than the first one; for `ContextStaysCurrent` `[]Timely` | `BanditsInv`, `ArmsInv`, `FeedInv` | `BanditsInvariant`, `ResetsStayApart`, `TwinsAgree`, `PriorsCount`, `ArmsStayMatched`; `FeedInvariant`, `ContextStaysCurrent`; `EachPartKeepsItsSpec`, `PartsAreSafe` |

The argument of each:

* **EntryInv.** One position per symbol is not inductive: nothing in it says why `position_size`
  refuses. The invariant adds what the cache and the locks know: an attempt past the sizing holds
  `entry_lock`, has at most one order, and its symbol has nothing at the broker but that order
  (`AttemptInv`, `TrackedInv`); every other position of an accounted symbol is in the cache; what
  the reconciliation works on has been a position, and what it reports is closed (`KnownInv`,
  `TerminalInv`). The critical step is the fill of an order after the attempt gave up: there the code
  alerts, and the symbol leaves the claim.
* **CreditInv.** A trade that will be rewarded is in one hand at a time: an attempt, the cache as
  recorded, the results of a pass, or what was learned (`RewardInv`). A restart replaces all of them by
  the file at once, so the file has to be as consistent as they are (`FileConsistent`), and the recording
  has to be of the attempt's own order (`OrdersInv`) or the symbol is left to a person.
* **CapInv.** From the limit check to the answer of its order the thread that holds `entry_lock` keeps
  one place free: the positions without its own orders stay below `max_positions`. Only a step under
  `entry_lock` sends an order, so no other thread takes the place.
* **RiskInv.** The sum the code takes over the cached positions is read before the order and compared with the
  limit before the position exists, and the fill may then cost more than the size. Three facts carry it:
  an entry holds at least what the bot can know of its position (`KnownRisk`), so what `ReadOpenRisk` saw
  covers every position there will be next to the new one, because under `entry_lock` nothing of the bot is opened
  by another thread; the size is at most the room that was left, so that the sum is within the limit until
  the order is executed; and one execution adds at most `MaxSlip` on top. It does not add up: the next order is
  sized on the measured risk of the fills. An order that is still on its way when its attempt ends is of a
  symbol an alert names, and is outside the claim. `Total` counts the units of risk of a set of positions as
  pairs, so that sums of disjoint sets add up by the library's theorems on cardinality, without recursion.
* **LedgerInv.** `KeepsLedger` is the refinement: `Spec => Implements`. Each action is shown to be one
  action of the ledger or a stutter; recordings, adoptions, alerts and lost results are all `Amend`. The
  invariants above give most of the guards (`TrackedInv` that `Order` finds nothing of the symbol under
  way, `RewardInv` that `Credit` is the first). `LedgerInv` adds what they say only of symbols without an
  alert, or not at all: results exist only within a pass of a started program, the order of an attempt
  has no recorded entry yet, and past `position_size` the symbol has none either.
* **StopInv.** The broker's stop is at least as tight as the cache's, the cache's at least as tight
  as the file's, and the thread's copy is the entry's while the entry is there. With these, a stop
  computed from any of them is no worse than the first, and with breakeven no worse than the entry.
* **StagingInv.** While the live folder is being replaced the backup or the staged folder holds a
  complete accepted model, and which of the two is determined by the main process's position; a child
  that is alive without being tracked exists only after an overlap.
* **SessionInv.** `generation = session - 1` and every attached client carries the generation of its
  own session, so that a client reads as connected only in its session; `order_send` keeps the
  session from ending because `teardown_connection` needs `api_lock`; and the bar a thread of the
  current session waits for, or has decided on, is newer than everything its symbol was traded on.
* **BridgeInv.** No file is ahead of what it was made from: exports have closed bars only, the cache
  grows, a signal's history is a prefix of the cache, so a bar decided again sees the same bars. What
  the advisor acts on is in the terminal's globals before the order, so it needs no memory of its own;
  that the terminal keeps its globals over restarts is an assumption of the model.
* **BacktestInv.** The models in use are those of the last block begun (`FitInv`) and a pending order is
  of the bar before (`BookInv`), so its models' labels end before its block begins; nothing is open
  between the close of a trade and the early stop's look at it (`JudgedInv`).
* **GateInv, MonitorInv.** The window of the next look begins a margin before the last successful one and
  a deal posts at most a margin late, so a deal not yet counted is still in sight, and nothing posted in
  the future is marked. `PeakStaysPaired` goes through the steps with that: a look marks a deal with its
  money, a new high holds every posted deal, a save or load takes mark and money together, and the sync of
  the start-up is the exception the theorem names. `OneThreadInv`
  follows the money of a counted deal through the steps of a check; it needs a single thread, and
  `gate_race` shows that two break it.

* **BanditsInv.** `WhereInv` says where the two threads can be and which fields a state has. Resets
  (`ResetInv`): none lies in the future and `last_reset` is the last of them, in memory and in the file; a
  reset that was decided stays allowed because the clock only moves away. Twins (`TwinInv`): between the two
  updates of a trade the contextual bandit is ahead by exactly that trade, and whatever replaces a grid
  moves the evidence of both by the same map. Priors (`PriorInv`): an arm has at most one prior and none
  before `warmstarted` is set; the mark travels with the evidence through the merge, the half of a save that
  was taken first, the file and every reset. How evidence is distributed over a new grid is never
  unfolded, so grids may have any length.
* **ArmsInv.** Every bandit has an arm for each value of its grid, so an arm that is chosen has a value
  (`ArmsStayMatched`). An adaptation builds the new bandit from the new grid; a reset is in between with
  bandits of the configured length and the old grids. The live bot saves the two at different moments
  and reads the priors of another program's grids, so there the theorem needs `SameLengths`: the grids of the
  newest backtest are as long as the configured ones. Section 5 says what happens otherwise.
* **FeedInv.** The cached bars and every answer of `Chunk` bars hold the last bar before the higher-timeframe
  bar their newest is in (`OwnBars`, closed under union, and true of an answer because `Chunk` exceeds the
  bars of one higher-timeframe bar by at least two); so `_context_bar_needed` computes the bar the join will need. The
  higher-timeframe files have no gap that reaches back less than a fetch from now (`HigherBars`), so a
  context that is not older than the needed bar holds it. The hypothesis `[]Timely` says that fewer than
  `Chunk` higher-timeframe bars open between the decision bar and the second fetch of `fetch_live`, which
  comes right after the first: 200 H1 bars are more than a week. Without it the property is false for
  long runs: a thread that sleeps between the two fetches for longer than the answer reaches back may
  take a newer bar for the one it needs, which does not happen within the slots of `separate_parts`.
  TLC checks `FeedInv`, `Timely`, `ArmsInv` and the four parts of `BanditsInv` on the values of that run.
* **Compositions.** `PartsKeepTheirSpecs` and `EachPartKeepsItsSpec` are refinements: `StopsAndExits` and
  `SeparateParts` implement the specification of every part, also of the gate and the monitor, which read
  one account history (a step of one that leaves the history is a stutter of the other). What is proved
  of a part therefore holds of the system a run looks at (`PartsAreSafe`).

`StopTypeOK`, `SessionTypeOK` and the other type invariants are conjuncts of these invariants. They,
`FileConsistent`, `OneOrderPerEntry`, `CacheIsSound`, `FillsArePossible`, `DecidesOnlyWhenAllowed`,
`RunningCooldownKept` and `OldClientsAreOff` are proved and are not checked by a run.

Every safety property of a passing run is a theorem. Only model-checked are the liveness properties
(fairness and ENABLED are out of the prover's reach). `NothingLost` is proved for one thread, as it is
checked, and `ContextIsCurrent` for fetches that are in time. What the recursive parts of
`RiskController` compute (how many trades a transfer moves to which arm) is induction over data and is
neither proved nor needed for these properties.

## 5. What the checks found

1. **A trade is reported twice** (`reported_twice`). `_seen_closed` ("to avoid reporting the same trade
   twice", `execution.py:63`) is never used, and a position that was reported closed while the list still
   shows it is adopted as new and reported again. The monitor counts it twice. The bandits do
   not: the adopted entry has no `risk_amount`, and `NeverCreditedTwice` holds.
2. **A trade is lost at a restart** (`lost_on_restart`). The startup reconciliation (`main.py:232`)
   takes closed positions out of the cache and its result is dropped, although the reconciliation is "the
   single point of truth" (`main.py:267`).
3. **A stop is loosened** (`stop_loosened`). After a lost answer the cache is behind the broker and the
   next trail is computed from the cache, although "the stop is only ever tightened" (`risk.py:443`).
   `RiskNeverGrows` and `BreakevenIsKept` bound the damage.
4. **A deposit is lost between two symbol threads** (`gate_race`). `_pending_flow` is read, added to and
   reset without a lock (`risk.py:393-407`) although "a deal must be counted once"
   (`balance_flows.py:48`): what one thread has polled is overwritten by the other and reaches no
   peak. With one symbol thread this cannot happen (`GateLosesNothing`).
5. **The inter-market context misses the bars just fetched** (`context_race`), where the comment
   says "Load the full (updated) local history" (`data_manager.py:305`): two threads replace the same file,
   and unlike the higher-timeframe context this one is read from the file alone. `config.yaml` has the
   inter-market feature off.
6. **A withdrawal at the start-up comes back as a drawdown** (`stale_sync`). `run` reads the equity
   (`main.py:168`), counts the balance deals (`:180`) and syncs with the equity read before them
   (`:184`): a deal that posts in between stays marked while the older, higher equity is the peak again,
   although a counted deal "then syncs the equity so the two stay paired"
   (`live_performance_monitor.py:62`). `OnlySyncLosesMoney` shows that it is the only such step.

Met while modelling, without a line of the repository to hold them against:

* A lost connection is never noticed as such. Every wrapper returns `None`, nothing raises, and the
  reconnect branch of `run` is only reached through other exceptions (`Session`). A failed login shuts
  the shared connection down while other clients still read as connected (`mt5_client.py:129`).
* A deal that posts between the poll and the read of the account moves the peak twice, as the comment at
  `risk.py:404` expects. After a first look without an answer the second one replays the deals of the last
  day.
* "so the cap is a hard limit" (`risk.py:151`) is true of the size and not of the position: a fill within
  the allowed deviation may lie above it (`RiskCapWithSlip` says by how much), and one whose price could not
  be read is recorded for less than it risks, which the next order is then sized on.
* A reconciliation that raises has taken closed positions out of the cache and returns none of them
  (`execution.py:244`). The alert carries the exception and no trade; nobody learns of them.
* A damaged live bandit file is read as an empty one by the warm start, which rewrites it before
  `load_state` could set it aside (`risk_controller.py:688`).
* "The number of arms will now match perfectly" (`risk_controller.py:206`) supposes that bandits and
  grids of a file are of one moment. When the warm start brought in grids of another length than the configured
  ones, a reset by the symbol thread between `get_state`'s reading of the bandits and of the grids leaves
  a file with the arms of one and the grid of the other; after a restart an arm beyond the grid may be
  chosen, which raises in `get_params`. TLC finds `ArmsMatchGrids` violated as soon as `BacktestGrid` has
  another length than `ConfigGrid`; with equal lengths it is a theorem (`ArmsStayMatched`).
* `bootstrap_history` refreshes 200 bars when the file is long enough: a longer downtime leaves a hole
  that nothing looks for. With `save_raw_data_locally` off the inter-market context stays as it was at
  the start-up.
* In the backtester cooldown, equity peak and the loss window carry over to the next symbol's
  replay, which starts years earlier.
* The context check relies on a fetch of 200 bars reaching back to the higher-timeframe bar before the current
  one. It does for M5 and H1, as configured. With M1 and H4, which the configuration accepts as well, it does
  not: after a downtime the last cached bar before the gap can be the one it is judged by, so that a
  stale context passes (`FeedAssumption` excludes it).
* A failed export of the advisor is not repeated before the next bar.

## 6. What is not modelled

* Models, features and labels: floating-point learning over data frames. The live path uses two
  probabilities, which are a nondeterministic signal here.
* Lot sizes, stop distances, costs and profit factors as numbers: integers or inputs, where a
  property needs them at all.
* Of `RiskController`: streaks and asymmetric compounding, the rule-based scales (confidence, volatility,
  drawdown), adaptive grids in live mode, a warm start of another weight than 1
  (`config.yaml` has 0, which turns it off), a `load_state` that fails half-way. The last keeps the symbols it
  has read and moves the file away; when it fails before `warmstart_sources` is read, the next save lacks
  the mark of the warm start. Files are replaced as a whole, so only a file edited by hand or written by another
  version gets there.
* The monitor's and the controller's file together: each is saved, lost and loaded in its own module.
* Threads that survive a reconnect and append to the CSV files of the new session's.
* `load_cached`, the feature cache on disk, the cut to `history_bars`.
* The backtester's Optuna pruning, interrupts and result tables; offline tools, plotting, logging,
  notifier, YAML parsing: no state or protocol of their own.
* Dry-run branches: they never reach a broker.
* `_drop_unusable_cache_entries` at load, and netting accounts.

## 7. Plan

1. Further invariants of `RiskController`: arms and grids have one length, evidence is conserved by a
   transfer.
2. The two state files written one after the other, as one module over `EquityMonitor` and
   `RiskController`, with what may differ between them after a crash.
3. Surviving threads in `BarFeed`, and adaptive grids in live mode in `RiskController`.
4. Offline helpers: lot rounding and costs against reference definitions over bounded inputs.
