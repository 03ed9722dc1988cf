# Dutchkem Trader: a verification project

TLA+ models of the live trading engine in `src/backend/`, the TLC runs that
check them on small instances, and theorems about them that TLAPS proves for
every value of the constants.

The program that trades is `src/backend/unified_engine.py` (one process: an
engine thread that runs `run_cycle` every `CYCLE_INTERVAL` seconds, and the
thread pool of a FastAPI server whose handlers read and change the same
objects) together with `apps/legendary/mtf_cascading_scalper.py`, which the
cycle calls. Beside it stand a second server that starts and watches an engine
process (`api/routes/live_trading.py`) and a hedging EA
(`apps/hedging/gold_hedge_ea.py`). Line numbers below are of
`unified_engine.py` unless another file is named.

## 1. The system

| component | state | operations | modelled by |
|---|---|---|---|
| `RiskManager` (1093) | balance, peak, circuit breaker, daily counters and limits, weekly P&L, registry of positions | `update_balance/equity`, `record_trade_result`, `check_circuit_breaker`, `can_trade_today`, `reset_daily_counters`, `check_weekly_extraction`, `check_portfolio_limits` | `Breaker`, `BreakerContract`, `RiskManager`; the registry in `TradingEngine` |
| `UnifiedEngine` (1656): cycle and registry | the registry through `risk`, the date, what the cycle has decided so far | `start`, `run_cycle`, `_manage_existing_positions`, `_close_trade`, `_execute_trade`, `_sync_scalp_results` | `TradingEngine` |
| `UnifiedEngine`: its thread | `running`, the thread, API requests in progress | startup hook, `run_engine`, `/engine/start`, `/engine/stop` | `EngineLifecycle` |
| `UnifiedEngine`: one position | stop at the broker, in the registry and in the scalper, age, partial close | trailing target, exit optimizer, time exit, partial close, breakeven, trailing stops | `PositionManagement` |
| `UnifiedEngine`: signals, sizes, learning | profiles and their results, Kelly window, training data, model file | `generate_signal`, the two consensuses, `_select_strategy_profile`, `_execute_trade`, `_record_trade_for_ml`, `_auto_retrain` | `Consensus`, `Learning`; the checks before an order, risk parity and the equity curve in `OrderFilters` |
| MTF scalper (`mtf_cascading_scalper.py`) | `open_scalps`, `trade_history`, `blocked_symbols` | `scan_and_execute`, `_check_safety`, `_execute_scalp`, `refresh_trade_statuses`, trailing stops | `TradingEngine`; its stops in `PositionManagement`, its directions, sizes and candidates in `ScalperScan` |
| MT5 client (1455) | connection | `place_order`, `get_positions`, `close_position`, `close_partial`, `modify_sl_tp` | `Fills`, `Reads`, `CloseTrade` of `TradingEngine`; `Modify`, `AfterPartial` of `PositionManagement` |
| HTTP API (4390 on) | none of its own | `/trade`, `/positions/*/close`, `/daily-status`, `/engine/start`, `/engine/stop` | `OutsiderOpens`, `PositionCloses`, `DailyStatusResets`, `ApiResets`, `ApiStart`, `ApiStop` |
| `ScalpingEngine` (`apps/scalping/`, `api/routes/scalping.py`) | which of the ten strategies are on (in memory, in a file, in two caches), the strategies loaded, a cycle's place | `run_cycle`, `reload_strategies`, `_set_toggle`, `_set_strategy_toggle`, the status routes | `Scalping`; to the registry its orders are `OutsiderOpens` |
| the ten strategies and their indicators (`apps/scalping/strategies`, `indicators`, `apps/volume/vsa.py`, `apps/ml/quantum_ai.py`) | memory and perceptron of quantum_ai, never written by the live engine | `analyze`, `validate_signal`, lots | `ScalpStrategies`, `PriceAction`, `QuantumAI` |
| live-trading process and watchdog (`api/routes/live_trading.py`) | control file, `trading_process`, watchdog threads | `start_trading_process`, `stop_trading_process`, `watchdog_loop`, `/start`, `/stop` | `LiveTrading` |
| gold hedge EA (`apps/hedging/gold_hedge_ea.py`, `hedge_basket.py`, `execution/mt5_connector.py`) | the basket and its levels, the account's positions | `tick`, `analyze`, the three executions, `HedgeBasketManager` | `GoldHedge` |
| MetaTrader 5 terminal | positions, deals, account | external | actions of the environment |
| the twelve analysts (`apps/analysts/`), the five legendary agents (`apps/legendary/`) | none | `analyze`, `vote` | `Analysts` |
| advice of the API server (`api/routes/consensus.py`, `apps/consensus/`, `apps/debate/`) | a cache of 20 seconds | `evaluate`, `debate`, the eight gates | `Advice` |
| indicators, ML features, LLM, regime, sentiment, calendar | models and scores | readings, probabilities, vetoes | inputs of `Analysts`, `Consensus` and `Learning` |
| execution package, Celery tasks, backtesting, data providers, cache, REST plumbing, Django models, frontend, deployment | | | not modelled (section 6) |

**How they interact.** The engine thread calls the scalper in the middle of its
cycle. Both decide whether they may trade by looking at
`risk.open_positions`, a dictionary keyed by *symbol*, while the broker keys
its positions by *ticket* and closes them whenever a stop is reached. Results
flow back through three doors: the reconciliation at the head of
`_manage_existing_positions`, `_close_trade`, and `_sync_scalp_results` for
the scalper's history. All of them end in `record_trade_result`, which drives
breaker, balance, peak, daily limits and weekly P&L; what passed through
`_close_trade` also feeds the Kelly window, the strategy profiles and the
training data of the model that the next signals are gated by. The stop of one
position is written by the engine's three trailing rules and by the scalper,
each from its own copy of it. API threads open and close positions behind the
engine's back, start and stop it, and may reset the daily counters. There is
not one lock in the file.

**What is hard.** Two threads in one `RiskManager`; a registry that is a stale
copy of the broker's state; the same result arriving through two doors; gates
asked at the start of a cycle and used at its end; a failed read that looks
like an empty account; a crash that forgets everything but the broker's
positions; an exception that abandons the cycle between an order and its
registration; a refused change of a stop that one of its owners remembers; a
control file, a process handle and a watchdog that may each say something else
about one engine; a hedge order that is sent before the book is asked; a model
that is replaced on disk while two readers hold older ones.

## 2. What makes each component correct

* **Breaker**: it opens after `circuit_breaker_losses` losses in a row, admits
  nothing until the cooldown is over, and closes again only after
  `circuit_breaker_recovery` wins; a closed breaker never hides a losing streak
  at the limit.
* **Account**: the balance never exceeds the peak, so drawdown is never
  negative; a pause ends by recovery, never by moving the peak; money is
  extracted only out of recorded profit.
* **Daily limits**: a limit that is hit stays hit until midnight.
* **Registry**: engine and scalper hold at most one position of a symbol
  between them and at most `max_concurrent_trades` in all, at the *broker*, not
  merely in the registry.
* **Results**: a position is recorded only once it is closed, and a bounded
  number of times.
* **Lifecycle**: a running engine whose thread is in its loop begins another
  cycle, a stopped one ends it, entries of closed positions leave the registry;
  starting the engine does not undo what a cycle has done to a position.
* **Stops and exits**: the registry never remembers a stop the broker does not
  have; a stop is only ever tightened, unless by the owner of a stale copy; the
  time exit forces losing positions out, not winning ones; a position that
  reaches 1R gets its breakeven stop.
* **Process manager**: an engine nobody can stop exists only because two
  operations overlapped or the server was restarted; a stopped engine stays
  stopped; an engine that died is restarted.
* **Hedge basket**: the lots in the book are the lots of the account; a
  position outlives its basket only for a reason that can be counted; a basket
  at its loss limit is given up.
* **Scalping toggles**: a setting that one process has written is not lost to
  what the other one remembers, unless the two overlap, a write fails or the file is torn;
  their status pages agree once their caches have expired; a strategy that fails
  takes nobody's turn but its own.
* **Strategies**: only the one that cannot work fails; what `analyze` signals,
  `validate_signal` accepts; swings, breaks and bricks are what their names say;
  a position risks what it is meant to.
* **Order filters**: together, and only together, the two correlation checks
  keep a symbol from having more than two correlated ones beside it; a pause of
  the equity curve ends; weights are shares; targets are at least twice as far
  as stops.
* **Analysts**: a vote follows from the reading alone, is one of three signals
  with a confidence between 0 and 1, and a reading that could not be made weighs
  nothing.
* **Learning**: a signal is judged by one model; an engine without a model does
  not teach itself one from orders it cannot place, as long as its gates work; a
  loss does not make the next order larger.

## 3. Modules

* `Breaker` - the circuit breaker of `RiskManager` as operators on a record
  (`AfterLoss`, `AfterWin`, `AfterResult`, `AfterCheck`, `Admits`). `age` is
  the number of ticks since it opened, up to `Cooldown`.
* `BreakerContract` - the abstract specification: a breaker is shut, barred or
  on probation, and says which steps between them are allowed. It knows of no
  wins, recoveries or clock.
* `RiskManager` - one `RiskManager`, the engine's thread (`pc`), one API thread
  (`api`) and the broker's account. A trade that closes goes into the queue
  `pending` and changes the account at once; `RecordTradeResult` takes it later,
  in the four steps between which another thread may run (`recording`).
  `SyncAccount` .. `CompleteCycle` are the steps of `run_cycle` in their order;
  `LeaveCycle` is the return of a pause and also an exception. `ApiSeesNewDay`
  and `ApiResets` are the two halves of `reset_daily_counters` on an API
  thread: the test and the assignments, with the engine's steps in between.
* `TradingEngine` - the cycle against the broker, as in section 1. One action
  for each gate, each reconciled entry, each order, each history entry.
  `LeavesCycle` may abandon a cycle anywhere; `Restart` may kill the process
  anywhere. `recorded` counts, for each ticket, the calls of
  `record_trade_result`; it is history and no guard reads it.
* `EngineLifecycle` - the engine's thread from the startup hook to its end, and
  `/engine/start` and `/engine/stop` on API threads. `start()` is taken apart
  (connect and read, one step for each entry written, `running = True`) because
  it runs beside a cycle. `Reads` may fail, there and in a cycle, and is then an
  empty list. `TakesEntry` and `PartialClose` are the two ends of a
  broker call during which a cycle holds an entry of the registry; `orphan`
  says that the entry has been replaced meanwhile. Each position has a symbol
  of its own here; `TradingEngine` is about symbols with several.
* `PositionManagement` - one position, of the engine, the scalper or an
  outsider, from its opening to its end. `ReadsPositions` .. `TrailsByBand` are
  what `_manage_existing_positions` does with it in one cycle, in that order:
  trailing target, exit optimizer, time exit, partial close, breakeven, the ATR
  and the band trailing stop; `ScalperRuns` is the scalper's own trailing after
  them. `broker`, `rm` and `scalp` each hold a stop. A request may be refused
  because it must be (`TakesStop`) or because the terminal does not answer
  (`MaxRefusals`). `current` keeps the leftover of that local variable: unbound,
  or the price of whatever symbol the loop handled before.
* `LiveTrading` - the process manager: `/start` and `/stop` on server threads,
  the watchdogs, the engine processes and the server's own restart. An action is
  what one thread does between two sleeps, waits or calls of the operating
  system. `overlaps` counts operations begun while another was under way; it is
  history.
* `GoldHedge` - a tick of the EA: analysis, then at most one of opening a
  basket, hedging it and closing it level by level. The order goes to the
  connector (`Executes`, `Closes`), which may fail or lose the answer of an
  order it has executed, and the basket is told afterwards. Others may close
  positions at any time.
* `Consensus` - operators from a look at the market to a signal: the score with
  its late indicators, the agreement of the timeframes, the polls of analysts
  and legendary agents with their boosts, warnings and blocks.
* `Analysts` - extends `Consensus` with its voters: each of the twelve analysts
  and the five legendary agents as an operator from a reading to a vote, and
  `Opinions`, the polls the engine makes of them.
* `Learning` - extends `Consensus` with what becomes of a signal: the ranking
  and the gates by a model, the profile, the size, the order, the result, and
  the training data, training and saving (in two steps, with a crash or a full
  disk between them) of the next model. Two predictors read the one file, each
  when it is first needed.
* `Advice` - extends `Consensus` with the other consensus, the one of the API
  server: the vote over whoever has answered within 25 seconds, the debate, the
  cache and the eight gates, of which the engine asks two as well.
* `OrderFilters` - operators from a book of positions to whether another order
  is sent and how large: hours, correlations, exposure, spread, heat, the
  average over the equity curve, the weights of risk parity, stop and target.
* `PriceAction` - bars and what the strategies read off them: gaps, order
  blocks, supply and demand zones, swings and their breaks, liquidity sweeps,
  Renko bricks, the RSI and the patterns of volume.
* `QuantumAI` - the eleven factors of that strategy's score, its weights, what
  memory and perceptron add to it.
* `ScalpStrategies` - one operator for each of the ten strategies, from a view
  of the market to nothing, a signal or an exception; `Validate` and `Lots`.
* `Scalping` - the two processes that toggle strategies through one file, each
  with its cache (`Load`, `Expire`) and the writing of the file in steps
  (`OpenFile`, `WriteFile`, `WriteFails`, `SetFlag`); and a cycle of `ScalpingEngine`, one
  step for each strategy and symbol, with the reloading of strategies. What a
  strategy answers comes from `Answers`.
* `ScalperScan` - the multi-timeframe scalper between its charts and its order:
  direction, aligned groups, attempts, size, levels, and the candidates that the
  dashboard shows.
* `MCRiskManager`, `MCTradingEngine`, `MCPositionManagement`, `MCGoldHedge`,
  `MCLearning`, `MCScalping` - constants that a `.cfg` cannot express, symmetry,
  and a constraint on rare events. What is only an operator is checked by assumptions of
  these modules, which TLC evaluates over bounded inputs before a run (section
  4). `MCScalping` makes charts by a small congruence, has every strategy look
  at them, and takes `Answers` from what they say. `MCLearning` builds the looks
  of `Learning` from readings, one market at a time, and asks every analyst
  about each of them.
* `RiskManager_proofs`, `TradingEngine_proofs`, `EngineLifecycle_proofs`,
  `PositionManagement_proofs`, `LiveTrading_proofs`, `GoldHedge_proofs`,
  `Learning_proofs`, `Scalping_proofs` - theorems and their proofs (section 5).

Definitions with the comment "Mutant" are plausible mistakes: each stands next
to the definition it would replace, and shows that some property notices.

### Abstractions

* In `TradingEngine`, signals, prices and sizes decide *whether* an order is
  sent, so their refusal is the choice not to take the action. Equity-curve and
  drawdown pauses are such choices there; `RiskManager` has the drawdown itself.
* P&L is an integer out of a small set. A rate (pause level, daily target and
  limit, extraction rate) is a rational of integer constants, compared by
  multiplication as the code compares its quotient. `daily_pnl`, a fraction of
  the balance that only reporting reads, is left out.
* `record_trade_result` is four steps, with an API thread free to move between
  any two: the balance and the peak (no other thread reads the peak, so the two
  are one), the trade log, the counters of the day, and the breaker with the
  daily limits. The assignments of the reset are one step, because CPython gives
  up the interpreter only at calls and jumps and there is none between them; its
  test of the date is apart.
* The deal history may not yet have the deal of a position that has just
  closed: `DealsOf` returns 0 or the result, and the code, which skips a zero
  result for the engine's positions, loses such a result. An open position may
  have deals of its own, those of a partial close: `TradingEngine` lets any
  position have them (`DealsOf`), and lets the reconciliation work with an
  estimate instead (`ResultOf`, the fallback of line 3865), so that no property
  rests on the history being complete. When a partial close happens is
  `EngineLifecycle`'s and `PositionManagement`'s.
* The answer to an order may be lost (`ScalpUnanswered`, `MainUnanswered`): the
  broker has filled it, and engine and scalper go on as if it had been refused.
  The answer to a close is lost when the position closes by itself just then.
* `ScalpingEngine` and the `/trade` endpoint open positions and register none:
  they are one "outsider". What they may do is bounded by `MaxOutsiders`.
* Prices in `PositionManagement` are measured in the direction of profit, which
  makes the branches for BUY and SELL one; the one guard in which they differ
  keeps `direction`. Ratios are compared without a division. The exit model is
  its rule (`_rule_based_exit`): nothing in the repository trains the other. The
  trailing distance of a symbol is the default of 2 ATR.
* `LiveTrading`: what `/start` tests first (terminal, credentials, script) is a
  choice. Writing the control file and starting the watchdog thread is one step,
  since nothing in between waits. The branch of `read_control` for a dead pid
  cannot be reached: `get_engine_pid` only names a process that is alive. The
  engine script itself (`live_trading_complete.py`) is not in the repository: it
  is a process that may die at any time and may ignore a SIGTERM.
* `GoldHedge`: prices are points of a grid; lots are counted in halves of a
  hundredth, the progression and the multiplier in hundredths, and a rounding
  tie of the book falls to either side. Whether a cycle gets as far as the tick
  (`paused`: a daily limit, drawdown, breaker, equity curve, no candles) is left
  open at any time. The connector
  that `unified_engine.py` passes is never connected and fills from a table of
  prices, which is covered by a fill at any price of the grid; the failures are
  those of a connected one. A close whose answer is lost is a close by somebody
  else.
* `Scalping`: the two processes run from one environment, so that the fallbacks
  of the toggles for a configuration that cannot be imported (lines 55-60 and 86-91)
  are left out. `Changes` of the run asks for strategies only; the switch that a
  cycle obeys is `ToggleScalper`.
* `Consensus` and `Learning`: confidence and lots are in thousandths, a model is
  a probability for each situation its features tell apart.
  `Lots` leaves out drawdown, volatility and the blend with risk parity, which do
  not follow from the last result by themselves; it rounds half up where Python
  rounds half to even.
* `Analysts`: a reading has its numbers in the units in which the thresholds of
  the code are whole. The indicators that make them of prices, and the requests
  that fetch them, are not modelled, but that a fetch fails is (`NoData`).
  Confidences are rounded down to thousandths; at a threshold, sums of binary
  fractions may fall on the other side. `llm_client` is `None`, as everywhere
  the engine makes analysts. `Installed` says whether every package that
  `apps/analysts/__init__.py` imports is there: one missing removes all twelve,
  and yfinance and feedparser are not in `requirements/base.txt`.

## 4. Runs

| run | question | bounds |
|---|---|---|
| `risk_manager` | do breaker, peak, limits and extraction keep their promises when the account moves ahead of the books and an API thread resets the day? | 4 trades of -1, 0 or 2; 5 instants, a day is 2 of them, days 0 and 2 are extraction days. Enough for the breaker to open, half open, reopen, and for two extractions. |
| `trading_engine` | do engine and scalper keep to one position a symbol and to the portfolio limit while positions close, an order goes past them, a read fails, an answer is lost, the process crashes or a day begins? | 3 tickets, 3 symbols, limit 2: three orders, one more than the limit, two of the same symbol, an outsider among them. The constraint `RareEvents` admits two of a fault (a failed read, an order whose answer is lost), an outsider's order, a crash and a midnight in the behaviours of two orders, and one of them, not the midnight, in those of three. Positions close at a loss, which is what drives the breaker; wins and recovery are in `risk_manager`. |
| `double_count` | *violation*: "Circuit breaker (3 consecutive losses" | 2 tickets suffice |
| `engine_lifecycle` | does the thread serve, stop and reconcile, and what can a start or a failed read do to a managed position? | 1 position, 2 API threads, 3 starts, 1 exception, 1 failed read. Steps on different positions touch different parts of the state; two threads let two starts overlap, the third lets one follow. |
| `start_without_thread` | *violation*: "Start engine" (README.md:304) | 1 position, 1 start |
| `live_trading` | when can an engine trade that nobody can stop, and do dead engines come back? | 2 server threads, 2 watchdogs, 2 processes, 1 failed start, 1 stop, 1 restart of the server: two operations can overlap in every order, and a watchdog that was stopped can wake beside a new one |
| `gold_hedge` | do the book and the account stay together, and is a losing basket given up? | a grid of 4 prices, a progression of 0.01 and 0.03 lots and 3 levels, so that the third lies beyond the progression and the two rules for its lots differ (0.045 ordered, 0.04 or 0.05 booked); pauses at any time; 4 orders, and one failure, one close by somebody else and one restart each |
| `positions` | who may loosen a stop, what does the time exit close, do breakeven and time exit come? | open at 4, stop 1, target 14; prices at the stop, the entry, 1R and 3R. One refusal and one restart, so that a request can fail before, after and without a crash |
| `premature_exit` | *violation*: "prevents premature closure on engine restart" (167) | as `positions`, without refusals |
| `learning` | can two predictors disagree, can an engine learn from nothing (also when the gates raise), can a loss make the next order larger? | 2 symbols, 2 timeframes, 1 situation, models that say 0.3 or 0.7, results -1, 0 and 2; 4 results and 2 orders, windows of 3, one retraining and one restart: a result may leave the window, and a model may be replaced under two readers. Once the gates have raised there are at most two results (`FewAfterRaising`), which is what a model is trained on |
| `scalping` | do settings survive two processes, do their pages agree, does every strategy get its turn? | 2 strategies, one that works and one that can raise, 2 symbols, 3 toggles and 1 restart: two toggles of different processes overlap in every order, and one follows |
| `learns_direction` | *violation*: "1 = price went up" (`train_real.py`:143) | as `learning` |

Tickets and symbols are symmetric: no definition orders them. Every bound is on
events of the environment (orders, failures, restarts, days); no action of the
code has a bound of its own but for the size of its sets. `CHECK_DEADLOCK FALSE`
is stated because such a bounded system, or an engine that was stopped, may
really stop.

The four violations are findings of `PROJECT.json`. In words: (1) a scalp that
the engine's reconciliation or `_close_trade` has recorded is recorded once more
by `_sync_scalp_results`, so that two losing positions can look like a run of
three or four losses; (2) `/engine/start` sets `running` but makes no thread, so
once the thread has ended (it was stopped, or could not connect) the engine
reports that it runs and never begins a cycle; (3) a position that `start()`
finds is registered without an ATR and with an action, which is just what keeps
the code that would fill the ATR in from running, so the exit optimizer's target
is the current price and it closes the position as soon as its cooldown is over;
(4) the engine's training data calls a profitable sale 1, in a file whose answer
is read as the probability that the price rises.

What the passing runs show beyond the obvious:

* The cross-deduplication of `run_cycle` (blocked symbols, registration of open
  scalps, reverse reconciliation) does keep one position a symbol whatever
  crashes, closes or is abandoned in between (`NoDoubleUp`); each failed read,
  lost answer or outsider weakens this by one position at most. A scalp is
  recorded at most twice, any other position at most once, and either once more
  for each failed read (`CountedOnceOrTwice`): the engine takes an open position
  for closed, records what a partial close has realised, and registers it anew.
* A position is recorded, and partially closed, once, and once more at most for
  each call of `/engine/start` and each failed read (`CountsPaidFor`,
  `PartialsPaidFor`): both replace the entry that remembers it, the failed read
  by dropping the entry of an open position that the next cycle registers anew.
* The engine's copy of a stop is always the broker's, unless the scalper owns
  the position (`CopiesAgree`), and a stop is loosened only by whoever holds a
  stale copy (`OnlyStaleCopiesLoosen`). The time exit does force positions in
  profit out, but only once stop or entry were moved (after breakeven the
  distance is zero and no profit counts) or when it judges by the price of
  another symbol (`WinnersForcedOut`).
* Engines that nobody can stop are paid for by overlapping operations or server
  restarts, one each (`OrphansPaidFor`).
* The two predictors never disagree (`OneModelDecides`), but only because
  nothing can be learnt before the first signal, with which the second of them
  reads the file: only the engine's own orders are learnt from.
* An engine that starts without a model never gets one, because the gate asks
  for an edge that an untrained model never reports, unless an exception in the
  gates lets an order through (`ColdStaysCold`). That order is learnt from, and
  may lead to a first model.

* A strategy's setting survives what another process has in its cache
  (`SettingsSurvive`) unless the two have written at the same time, within the
  two seconds of a cache, or over a half-written file, or a write has raised,
  which leaves the change in the cache of the process that asked for it.
* Whatever raises, each enabled strategy is asked (`EveryStrategyAsked`), though
  not about every symbol: an exception ends its turn.

The assumptions of the `MC` modules say of the operators, over the inputs they
enumerate:

* `MCScalping`: the London/New York strategy can only raise, within its session,
  and every other strategy both stays silent and signals on some chart
  (`OverlapOnlyRaises`); no signal fails its own validation (`ValidationIdle`);
  two swings of one kind are never close (`SwingsApart`); `LatestBreak` is what
  the loops of `detect_bos`, written out in `Events`, return
  (`LatestBreakIsFirstEvent`); bricks follow the price (`BricksFollow`); lots
  risk half a per cent (`RiskBounded`); the score of quantum_ai and the
  scalper's direction lean to buying (`ScoreLeansUp`, `DirectionLeansUp`); groups
  that share a timeframe never disagree (`OppositeGroupsApart`); the dashboard's
  candidates are what the scalper would try (`CandidatesAreAttempts`); its sizes
  are 0.01 and 0.02, and when (`OneOrTwo`).
* `MCRiskManager`: the equity curve resumes (`StillCurveResumes`); both
  correlation checks are needed (`BothFiltersAreNeeded`); what the exposure
  limit, the heat and the spread filter come to (`SixNeedTenThousand`,
  `YenIsHot`, `SpreadsAccepted`); `RewardsTwiceTheRisk`, `WeightsAreShares`,
  `ParityOnlyShrinks`.
* `MCLearning`: silence of up to half a panel never turns its advice
  around (`HalfNeverReverses`); a debate never changes the action
  (`DebateKeepsAction`); `/full` allows a trade by agreement and probability of
  a rise alone, whichever way the vote went (`GatesIgnoreDirection`), while the
  engine asks for its direction (`EngineAsksDirection`).

**Fairness.** `RiskManager`, `TradingEngine` and `Learning` state safety only
and have none. `EngineLifecycle` assumes weak fairness of the engine's thread
and of an API thread that has begun a request: both are ordinary threads, sleeps
end (`CYCLE_INTERVAL`, 60 s after an exception) and calls of the terminal
return. `PositionManagement` assumes it of the steps of the cycle and of the
scalper's part, since the loop never stops calling `run_cycle`; that the price
stays where it is and that the engine is not paused are antecedents of its
properties. `LiveTrading` assumes it of a request that has begun and of the
watchdogs' steps; `GoldHedge` of a tick that has begun and, while no pause
ends the cycles before it, of the next one; `Scalping` of a handler that has
begun and of the expiry of a cache. Nothing is assumed of the world: nobody has
to stop or start an engine, no engine has to exit, positions need not close and
prices need not move. `StaleEntriesLeave` and `LossEndsBasket` hold only as long
as no cycle is paused, because a pause returns before the positions are managed
and before the tick of the gold hedge; a drawdown pause may last for ever.

### Observations

Facts about the code that came up in modelling and are in the models, without a
sentence of the repository that they contradict, or too small for a run:

* The daily limit is asked once, at the head of the cycle (3090); results
  recorded in the same cycle do not stop its orders, though the comment at 186
  says "Stop trading after -1.5% daily loss". The limit of the scalping package
  (`apps/scalping/engine.py`:68) divides `daily_pnl`, which sums the trades'
  percentages (1171), by the balance, so it is practically never reached.
* An API thread that saw the old date resets the new day's counters a second
  time, after the engine recorded a trade (`ApiResets`).
* The partial close moves `entry` to the current price but leaves the stop
  (4040); a position of the smallest lot is closed whole. The comment 4035 says
  "Close 50% at 1:1 R:R", the configuration 30% at 1.5R.
* `self.mt5.get_candles` does not exist, so `_recalculate_sl`,
  `_check_hedging` and `_get_regime_adjustment` fail silently each time (2427,
  2508, 2710).
* The scalper remembers a stop that the broker refused.
* While a drawdown, breaker or equity-curve pause lasts, no position is managed.
* In `live_trading.py`, the comment that the watchdog will correct a wrong
  control file (about 302) is not true after a restart of the server, which has
  no watchdog; the clearing of `trading_process` at the end of a stop can forget
  an engine that was started meanwhile.
* The hedge order is sent before `add_hedge` may refuse it; a basket is
  forgotten when *any* of its positions could be closed and kept for ever when
  none can.
* The model is retrained at every recorded trade once there are 20, not "every
  20 trades", and a newly trained model is used only after a restart. Trades
  closed by the broker reach neither Kelly's window, unless they are scalps, nor
  the profiles, nor the training data. After a restart results are credited to
  the profile "conservative".
* `min_score` of 2 is really 3, since 2 gives a confidence of 0.2 and
  `min_confidence` is 0.25. The analysts' boost counts those who are against the
  trade too. Kelly, session and streak multiply the lots after the cap per
  symbol, so that the cap is not one.
* `fundamentals.py`:125 sells pairs that begin with the dollar and buys those
  that end with it when the dollar index rises, under the comment "DXY rising ->
  USD strengthening"; for high yields it does the opposite (141). The macro,
  sentiment, options and on-chain analysts judge a pair of the dollar by the
  dollar alone, whichever side it is on.
* Several analysts lean to one side without a market: the quant buys a market
  that does not move, macro sells on a tie, Buffett buys what is calm,
  compliance can only sell, and the technical RSI of a flat market is 100
  (never below 30), that of the market analyst 50. The order flow analyst
  measures how far the microprice is from itself.
* README.md:191 says "ALL 8 gates must pass", but an exception behind the first
  of them is logged as non-blocking (3792) and the order goes out without an
  edge. The import at 3723 needs packages that `requirements` does not name:
  where they are missing this is every order. `GatesPass` has the exception, and
  `ColdStaysCold` its consequence.
* Toggles: `api/routes/scalping.py` sets `CONFIG` of a second copy of
  `unified_engine` (63-73), because the engine runs as `__main__`, and the engine
  never reads `toggle_state.json`, though the comments at 3, 183 and 200 say so.
  Of those switches only the strategies' work, in the engine's own process and
  until it restarts; `/api/v1/config/toggle` and `/scalper/toggle` do work.
* quantum_ai, the one strategy that is on by default, needs torch, which
  `requirements` does not name: without it each cycle of that strategy ends with
  an exception at its first symbol (`perceptron.py`:39). The London/New York
  strategy raises whenever it gets as far as an indicator. The strategies run
  only in cycles that run the multi-timeframe scalper (3154-3165), on H1 charts
  whatever they ask for, and may open one symbol again and again: orders are
  logged as open though they failed, and no trade ever becomes closed.
  `max_concurrent_scalps` and `min_rr` are read nowhere, two magic numbers are
  not the documented ones, and 20 pips are 0.0020 in yen too.
* The spread filter multiplies points by ten points: a dollar pair is refused
  from 2000 pips, one in yen from 15. Heat and exposure take every lot for
  100 000 dollars, so that yen is a hundred times as hot, and a sixth position,
  however small, needs a balance of more than 10 000. Risk parity gives a yen
  pair nothing.
* `CORRELATIONS` names NZDUSD in two lists and gives it none, so the two checks
  of it count differently. The "20-day MA" of the equity curve is over 20
  cycles.
* The multi-timeframe scalper orders 0.01 or 0.02, whatever its four factors.
* `/full` of the API server asks the gates about buying at 0.5 whatever the vote
  was. A debate that confirms a vote can make it less sure. `ResearchManager` and
  `SituationSummariser` are not used.

## 5. Proofs

Every theorem is of the specification, for all values of the constants that
satisfy the named assumptions of its module.

Every invariant and every action property that a passing run checks is a
theorem; the runs found the invariants cheaply, and still show that the
interesting cases happen. What is model-checked only is named at the end.

**`RiskManager_proofs`**, for every account, set of results, limit, cooldown,
rate and calendar:

* `TypeCorrect` (`TypeOK`), inductive by itself. The step lemma has one step
  per action; the breaker's operators have a lemma each.
* `ClosedIsBelowLimit`, inductive together with `TypeOK`: `BreakerStep` says
  that each operator takes a breaker below its limit to one that is below it.
* `BreakerImplementsContract`: `RiskManager` refines `BreakerContract` under
  the mapping of `Contract`; initial states map to initial states and every
  step to a step of the contract or a stutter.
* `DrawdownIsNeverNegative`: every action that raises the balance raises the
  peak with it, in the same step.
* `PauseIsLiftedByRecovery` (`PauseLiftsByRecovery`): needs the former to rule
  out a negative drawdown, and that the peak never falls.
* `DailyLimitsLatch`: an action property.
* `LedgersAlwaysAgree` (`LedgersAgree`): totals, wins, losses and the counters of
  the day are those of the trade log since the reset they belong to, while an API
  thread resets them beside the engine, also in the middle of
  `record_trade_result`. What the counters stand for is `Counted`, the log but
  for the one result that is logged and not counted yet; a reset in that gap
  leaves the result in the log before it and counts it in the day after
  (`CountedBefore`, the history `straddled`). The profit is a running total, a
  recursive function over the log (`RunningTotal`); that it is what its equations
  say, and that a trade at the end adds just its own result, is proved by
  induction over the log (`RunningTotalAdds`, `RunningTotalAppend`). The
  strengthening (`Ledgers`) says that the last reset lies within the log, and
  that a result being counted is the last of it (`LastIsRecorded`).
* `OnlyEarningsExtracted` (`ExtractedWasEarned`): what has been extracted had been
  earned at some time, also when losses follow; for rates up to the whole profit.
* Of the operators of `OrderFilters`, for all inputs: `RewardIsTwiceTheRisk`,
  `BlendKeepsAnOrder` and `ParityWantsNothing`, which the assumptions of
  `MCRiskManager` evaluate for some (`RewardsTwiceTheRisk`, `ParityOnlyShrinks`).

**`TradingEngine_proofs`**, for all tickets, symbols, results and limits, in
four parts:

* `TypeCorrect`: one step per action, and a lemma for each helper that several
  actions share (`Fills`, `Records`, `RegistersMissing`, `Reads`). That a held
  entry names a real ticket is part of `TypeOK`; without it a reconciled entry
  could record a result for no position, and the invariant would not be
  inductive.
* `OnlyClosedRecorded` (`RecordedOnlyClosed`) and `CountedAtMostTwice`
  (`CountedOnceOrTwice`). The invariant `Results` keeps a budget for each
  ticket: the times it has been recorded, plus one for each place from which it
  may still be (the registry while the cycle can reconcile it, the scalper's
  open and unsynchronised trades, a list read before it closed, an entry that a
  failed read is about to drop), is at most two for a scalp, one for any other
  position, and the number of faults more.
  `Filed` says which of these places can name a ticket at each location of the
  cycle; without it a closed position could re-enter the registry.
* `OnePositionPerSymbol` (`NoDoubleUp`) and `MainSeesAll`
  (`MainSeesEveryPosition`). The invariant bounds, for each symbol, the open
  positions, plus one if the registry is blind to one of them and one if a
  pending step is about to drop its entry, by one and the events that pay for
  more: failed reads, lost answers and outsiders. Where the main engine trades, every scalp is
  registered.
* `PortfolioStaysBounded` (`PortfolioBounded`), although the code compares the
  limit with the registry and the theorem is about the broker. A symbol is
  *secure* while the registry sees what it holds and no pending step is about to
  drop its entry. Every open position is set against a secure symbol or against
  the allowance that faults and outsiders pay for (`Bounded`); an order
  makes one more symbol secure, a step that makes one insecure either follows a
  close or a fault, and a fault adds the whole limit to the allowance. Where an
  order is sent, secure symbols are registered, and there are fewer than the
  limit of those.

**`EngineLifecycle_proofs`** proves `TypeCorrect`, `CountedOnce`
(`CountsPaidFor`) and `PartialOnce` (`PartialsPaidFor`). The invariant counts,
for each position, the starts that may still promise it another entry, the one
the engine's thread owes a position it finds without (`First`) and the entry of
an open position that a failed read is about to drop (`Doomed`); only the
engine's thread opens positions and drops entries.

**`PositionManagement_proofs`** proves `TypeCorrect`, `CopiesCorrect`
(`CopiesAgree`), `StopsTighten` (`OnlyStaleCopiesLoosen`) and
`TimeExitsLosers` (`WinnersForcedOut`), for all prices and distances. The
strengthening says that the two copies agree while no scalper is involved, at
every step of a cycle, and that an entry that has not been moved still has the
stop it was opened with.

**`LiveTrading_proofs`** proves `TypeCorrect`, `OrphansArePaidFor`
(`OrphansPaidFor`), `StoppedIsStopped` (`StoppedMeansStopped`) and
`WatchdogsArePaidFor` (`WatchdogsPaidFor`), for any finite number of threads,
watchdogs and processes. Orphans alone are not inductive: what is bounded by
`overlaps + reboots` is orphans, and the operations under way beyond the first
that may still produce one, and the engine that `trading_process` names while a
stop is about to forget it. `InOrder` describes the states without overlaps.

**`Learning_proofs`** proves `TypeCorrect`, `OneModel` (`OneModelDecides`),
`NeverLearns` (`ColdStaysCold`) and `LossShrinksOrders` (`LossMakesNoBigger`),
for all models, situations, results, scores and windows. The invariant says that only a model is ever saved; that until
`ml_rank` has read the file there is no signal, order or sample, and the file is
what the gates were made of (`OneFile`); that half a file is paid for by an
interrupted save; and that without a model no order passes the gates (`Cold`),
because a predictor without one answers one half (`NoEdge`), until an exception
in the gates lets an order past them.

`LossShrinksOrders` is about arithmetic over windows. A result that counts
either leaves Kelly's results alone or moves the window by one
(`WindowMoves`): the oldest result leaves, the loss enters. Sums over the wins
and over the losses of a list are recursive functions (`SumOver`), for which
induction shows what an appended loss adds (`LossAdded`) and a forgotten win
takes away (`WinForgotten`). So there are no more wins, in no fewer trades, not
more is won and not less lost; and then Kelly's fraction, within its limits, is
no larger (`KellyFalls`, by cross-multiplying the two quotients). The limits
matter: a loss also makes the list longer, and a negative fraction of a longer
list is less negative. Streak, halved risk and rounding are monotone
(`LotsFall`). That the window is no longer than the list that is kept
(`KellyWindow <= Keep`; 20 and 50 in the code) is an assumption; without it a
loss could be cut off at the other end.

**`GoldHedge_proofs`** proves `TypeCorrect`, `BooksMatch`, `StraysArePaidFor` and
`BasketsAreOpen` for every grid, progression and number of levels. The levels
that a close has still to come to are set apart (`Pending`): open positions that
are not pending are counted by refused hedges, failed calls and `MaxLevels` for
each restart; pending ones that are not open by what others closed; tickets are
given in order. `Booked` says of each level what the account has under its
ticket: the same direction; lots that are those of the progression on both sides
as far as it goes; and beyond it, where the EA orders half again as much as the
last entry and the book rounds a multiple of the last level, half a hundredth of
difference at most at the first level (`HalfAgain`), if the multiplier is the
default that the EA takes for granted. From the second level beyond on the two
rules go apart, as they do with another multiplier: nothing is claimed there,
and the default of 5 levels and 5 entries does not get there. The type of the
basket's peak follows from that of its profit, a recursive function over its
levels (`PnlTyped`).

**`Scalping_proofs`** proves `TypeCorrect`, `EveryStrategyIsAsked`
(`EveryStrategyAsked`) and `SettingsAreKept` (`SettingsSurvive`), for all sets of
strategies, keys, switches and answers, and any number of toggles and restarts.
`Turns`: what has been on since the cycle began is on, and once the strategies
run it has been asked or is among those left; it needs that reloading, a
recursive function over the loadable strategies (`Reloaded`), leaves out none of
them. `Sound`: unless something was damaged, at most one process is between
loading and writing, what it will write is what was wanted last with its own
change, the file is that or torn while it is written, and a cache that still
counts and has not been overtaken says the same.

### What the proofs rest on

The named assumptions of the modules on their constants, which TLC evaluates in
every run, the library's theorems on finite sets, functions and sequences, and
well-foundedness of the naturals (`WellFoundedInduction`). The library's
induction rules take an operator as a parameter, which the provers cannot
instantiate; here induction goes over sets instead: a set of naturals that is not
empty has a least element (`LeastNatural`), so a set that contains 0 and with each
of its elements the next contains all (`SetInduction`). The set is the one of the
lengths for which a recursive function has the values its equations say. That is
why the models that are proved about have recursive functions and no RECURSIVE
operator.

Model-checked only:

* liveness under fairness, which needs ENABLED: `ServesWhileRunning`,
  `StaleEntriesLeave`, `DeadEngineRestarts`, `StopEndsEngine`, `LossEndsBasket`,
  `TimeExitComes`, `BreakevenComes`, `StatusesAgree`;
* the four violations, each a behaviour that TLC exhibits;
* what `Consensus` and `Analysts` compute, through the runs that use them (that
  confidences stay within 0 and 1 is proved, as part of `TypeCorrect` of
  `Learning`);
* what `Advice`, `PriceAction`, `QuantumAI`, `ScalpStrategies`, `ScalperScan` and
  the rest of `OrderFilters` compute, by the assumptions of the `MC` modules:
  mostly folds and filters of the community modules over charts and panels, which
  take an operator as an argument.

## 6. Not modelled

* **The engine's own indicators, ML features, LLM, sentiment filter, calendar.**
  They compute numbers from prices and texts and keep no trading state. What they
  can do to an order is in `Analysts`, `Consensus` and `Learning`: a reading, a
  score, a probability, a refusal. (The indicators of the scalping strategies are
  modelled, in `PriceAction`.)
* **Execution package and Celery tasks.** Deprecated (the docstring of
  `execution/risk_manager.py` says so) and not runnable: they call
  `Position.objects.count` and `Trade.objects.create`, which the in-memory
  stand-in of `django_app/models.py` does not have, and import a Django user
  model that is not there. `SimulatedBroker` is used by tests only.
* **LLM client.** Its limiter lets callers that waited together go on together
  (`apps/llm/client.py`:29-50) and the engine makes a client for each use, each
  with a limiter of its own; no order depends on either.
* **What learns in the scalping strategies.** `adapt_weights` of QuantumAI,
  `store` of its memory and `train` of its perceptron are called by nothing that
  trades, so memory and perceptron are inputs. So is `calculate_adjusted_weights`
  of risk parity and the memory of the API server's consensus.
* **RL execution plans** (3677-3692) are random and only logged.
* **Backtesting, paper trader, dashboards, data providers, cache,
  authentication, Django models, frontend, deployment.** Offline arithmetic, reporting or plumbing without trading state.
* **Restarts and the breaker.** That a restart forgets an open breaker and a
  daily limit is modelled (`Restart` of `TradingEngine`); no sentence of the
  repository promises otherwise, so no property says so.

The models therefore cover the state-changing code of the live engine, the
scalpers, the process manager and the hedging EA, and what decides about their
orders; about a third of the repository's lines of code.

What could follow: the safety half of the liveness properties (which step a
loss, a dead engine or a stale entry forces next), of which only the fairness is
out of the prover's reach.
