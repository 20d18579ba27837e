# Verification of coinex-bot

TLA+ specifications of the trading bot in `src/`, TLC models of them on small
instances, and TLAPS proofs of the properties that matter most for every
instance.  Specifications are translated from the Go code; `PROJECT.json` maps
each definition to the lines it stands for.

    tlc -workers 2 -config engine_spot.cfg MCTradingEngine     a run (cfg, module)
    tlapm TradingEngineProofs.tla                              the proofs of a module

## 1. The system

A single Go process trades one market (`cmd/bot`, `internal/engine`) or several
(`internal/multimarket`).  Each engine ticks once a minute: it refreshes candles
over REST, takes a snapshot of the live order book, lets the strategies vote, and
places a limit order with a stop-loss (SL) and a take-profit (TP).

| Component | State it keeps | Operations that change it | Talks to |
|---|---|---|---|
| Trading engine, `internal/engine/engine.go` | `openOrders` and `SignalLog` (under `mu`), `stopCh`; locals of `Run` (back-off) and of one `manageTrade` goroutine per order | `Run`, `tick`, `executeSignal`, `manageTrade`, `recordClose`, `removeOrder`, `Stop` | client, live book, journal |
| REST client, `internal/api/client.go` | none | `PlaceSpotOrder`, `PlaceFuturesOrder`, `CancelSpotOrder` (and reads) | exchange |
| Exchange (external) | the orders | accept, fill, cancel | everybody, through requests |
| Instance lock, `cmd/bot/main.go` | `coinex-bot.lock` | `acquireLock`, `releaseLock`, every way out of `main` | operating system |
| Rate limiter, `internal/api/rate_limiter.go` | `tokens`, `lastRefill` (under `mu`) | `Wait` | its callers (none in the repository) |
| WebSocket feed and live book, `internal/api/ws_feed.go` | connection, handlers, book (under `mu`) | `Connect`, `Subscribe*`, `readLoop`, `LiveOrderBook.Handle`, `mergeLevels` | exchange; engines read `Snapshot` |
| Candle buffer, `internal/api/candle_buffer.go` | the last bars of a market | `Handle`, `upsert`, `Seed` | feed, engines |
| Multi-market engine, `internal/multimarket/engine.go` | one worker goroutine per market | `Start`, `tick`, `executeSignal`, `closePosition`, `Run`, `Stop` | position manager, breaker, client, feed |
| Position manager, `internal/position/manager.go` | `positions`, keyed by market and side (under `mu`) | `Open`, `Close`, `UpdatePrices` | workers |
| Circuit breaker and monitor, `internal/health/monitor.go` | four atomics | `Allow`, `RecordTick`, `RecordError` | workers |
| Journal, `internal/journal/journal.go` | an NDJSON file, `trades`, `stats` (under `mu`) | `Open` with `replay`, `Record`, `Close` | `manageTrade` goroutines |
| Telegram notifier, `internal/notify/telegram.go` | a bounded queue | `enqueue`, the worker, `Stop` | monitor, engines |
| Backtester, `internal/backtest/backtest.go` | equity, open position, trades of a replay | `Run`, `RunAll`, `buildResult` | strategies |
| Optimizer, `internal/optimizer/optimizer.go` | windows, results | `Run`, `buildWindows`, `bestParams` | backtester |
| ML ensemble, `internal/ml/ensemble.go` | models, sample buffer | `Train`, `MaybeRetrain`, `Predict` | strategies |
| Indicators, `internal/indicators` | none | 16 functions from candles to series | strategies |
| Strategies, `internal/strategies` | a registry | `Evaluate` of 22 strategies; `aggregateSignals` of the engines weighs their votes | indicators, engines |
| Config, dashboards, tools | none, or read once | printing | |

### What is hard about it

* **Goroutines around `openOrders`.**  `executeSignal` reads `len(openOrders)`
  without the lock, and an HTTP request goes by before the order is registered;
  meanwhile `manageTrade` goroutines delete from the map.
* **Three steps per exit.**  An exit is journaled, cancelled on the exchange and
  removed from the map in three steps whose errors are dropped, while SL/TP, the
  4-hour timer and the shutdown race for it.
* **Requests.**  A POST whose answer is lost has placed an order; a DELETE may not
  arrive; a futures order is cancelled on the spot endpoint.
* **Shared positions.**  Workers ask `CanOpen`, place an order and then call
  `Open`; `closePosition` acts on copies of positions.
* **Lock-free breaker.**  Four atomics updated one by one by every worker.
* **Depth messages.**  Each is the full depth and is merged like a change: levels that
  have gone, and the second spelling of a price, stay in the book.
* **Crashes.**  A write to the journal or the lock file can be cut short; the next
  process must cope with what is left, and with reused process ids.
* **Series.**  Indicators drop the candles they need to warm up, so two series of one
  market differ in length and are combined by index; the last bar is still moving; an
  answer holds 200 candles, so the beginning of every average moves along; what divides
  may be zero, and a panic in a strategy's goroutine ends the process.
* **Endings.**  Back-off, sleeps and requests must not keep `Run` from returning
  after SIGTERM or `Stop`; an order must not keep its slot for ever.

### What makes each part correct

| Part | Property |
|---|---|
| Engine | at most `max_open_orders` orders are tracked and rest on the exchange; an order is tracked exactly while a goroutine manages it; one journal line per closed trade, at a price and with a P&L of the sign that its reason says; a removed order is off the book; every order leaves; shutdown ends `Run` |
| Multi-market | every resting order is known to somebody, unless a request was lost or the last position was taken meanwhile; a worker closes what its own price has triggered, all of it and nothing else, and cancels the order of what it has closed; shutdown ends all workers |
| Breaker | trips at the threshold, holds for the timeout, closes after the probes, does not stay open for good |
| Live book | always has all the levels of the depth it was told of last, on both sides, the present ones once all messages are handled; what else it shows was quoted before |
| Indicators | match their definitions; end at the latest bar and combine values of the same bar; never change the value of a closed bar; trailing stops stay on their side |
| Strategies | vote the opposite way in the mirrored market; panic only for want of data |
| Candle buffer | has the latest candles, each once and in order, once all messages are handled |
| Journal | statistics and drawdown are those of the trades; a restart finds what memory had; a torn write costs one trade at most |
| Lock | one instance at a time; the file names it |
| Backtester | the reported trades account for the equity, end at the first bar beyond a level and do not overlap; the drawdown is the largest; ruin is final |
| Optimizer | every combination is tried, every window reported with its own best; no more trials at once than slots; `Run` returns |
| Limiter | a bucket and the income of a window at most; nobody sleeps beside a token |

## 2. Modules

| Module | Models | Remarks |
|---|---|---|
| `Exchange` | the exchange's orders | external; shared by both engines with `INSTANCE` |
| `TradingEngine` | `engine.go` with the trading calls of `client.go` | `run`, `backoff`, `tick` are the `Run` goroutine and its locals; `mgr[o]` and `trade[o]` the `manageTrade` goroutine of order `o`; `openOrders`, `records`, `exit` the map and the journal's lines; `mid` the live book; `qty` is `base_qty` |
| `TradeLifecycle` | nothing: what the engine promises | new, open, settled, released or abandoned; `TradingEngine` refines it |
| `TradingEngineProofs`, and the other `*Proofs` | | theorems about the module of that name: `Journal`, `MultiMarket` (with `PositionManager`), `MarketFeed` (with `CandleBuffer`), `Backtest`, `Optimizer`, `Signals` (with `Strategies` and `Indicators`); `TradingEngineProofs` is also about the guards of the engine's process, `InstanceLock`, `RateLimiter` and `CircuitBreaker`; `MirrorProofs` continues `SignalsProofs` |
| `Journal` | `journal.go` | `disk` and `tail` are the file; `trades` and `stats` the memory; every method runs under `mu`, so it is one step |
| `CircuitBreaker` | the breaker of `monitor.go` and the workers' use of it | one step per atomic operation; times are ages; its names are its own, like `RateLimiter`'s |
| `InstanceLock` | `main.go` | one step per file operation; its names are its own, like `RateLimiter`'s |
| `RateLimiter` | `rate_limiter.go` | whole units instead of floating point; an observer counts a window opened at any moment; its names are its own, so that `TradingEngineProofs` can extend the engine and its guards together |
| `CandleBuffer` | `candle_buffer.go` | the buffer and what `upsert` and `Seed` make of it |
| `MarketFeed` | `ws_feed.go`, and `Start` of `multimarket/engine.go` as far as it seeds the buffer | the exchange's market and bars, the messages on the way, the connection, the book with its map keys; EXTENDS `CandleBuffer`, whose klines share the connection |
| `Backtest` | `backtest.go` | one step per bar; amounts in whole units |
| `Optimizer` | `optimizer.go` | the goroutine of `Run`, one per trial, one per out-of-sample run; the semaphore is the number of them that hold a slot |
| `Indicators` | `indicators.go`, `ichimoku.go` | decimals are integers scaled by `Scale`, oscillators fractions in lowest terms, deviations compared by their squares; recursions are folds |
| `Strategies` | `all_strategies.go`, `aggregateSignals` | an operator per vote, "PANIC" where the Go code would panic; `P` holds the registered parameters |
| `Signals` | the first half of `tick` in `engine.go` | the market goes on by a bar or moves the open one, then the engine fetches, computes, votes and weighs; EXTENDS `Strategies`, which EXTENDS `Indicators` |
| `PositionManager` | `manager.go` | each operation atomic |
| `MultiMarket` | `multimarket/engine.go` | EXTENDS `PositionManager`, INSTANCEs `Exchange`; a step is what a worker does between two calls that let others in |
| `MC*` | | values for TLC |

An operation of the code is one action, with everything it changes; it is split
only where another goroutine, the exchange or a crash can come in between.  Data is
reduced to what the properties tell apart: an order is its id, a trade its profit and
its strategy, a price one of two or three numbers.  In the engines' models the vote is any
signal; `Signals` says which one.
Definitions called "a mutant" are deliberate mistakes, used to see that a property
notices them; no specification uses them.

## 3. Runs

| Run | Instance | States | What it shows |
|---|---|---|---|
| `engine_spot` | a spot or a paper bot, 2 orders, limit 1, prices 1 and 2, SL and TP of 50 %, a quantity of 2, no faults | 215 k | `RestingOrdersTracked`: the exchange agrees with the map; `JournalIsRight`: the journal does; `LifecycleSpec`: refinement of `TradeLifecycle` |
| `engine_faults` | spot, futures or paper, 2 orders, limit 1, every fault, `base_qty` a number or not | 124 k | `OpenOrdersRight` with the unlocked, stale length; `OrdersLeave`, `ShutdownReturns` under fairness |
| `journal` | 5 trades (two wins, a break-even, two losses), crashes and torn writes | 138 k | `StatsMatchTrades` (with the drawdown), `ReplayRestores` |
| `circuit` | 1 to 3 workers, the third without candles; threshold 2, 2 probes | 417 k | `HaltsAfterThreshold`, `ReopensInSteps` for a single user; `Recovers` for any number |
| `lock_serial` | 3 starts, 3 process ids, one of which other programs use | 37 k | `OneInstance` when starts do not overlap |
| `rate_bucket` | 2 callers, a bucket of 2 tokens, 9 units of time | 197 k | `RateBound` |
| `feed_full` | 2 prices, one with two spellings, 3 bars in a buffer of 2, 2 messages on the way | 2.0 M | `BookFollows` for full depths, lost connections and failed subscriptions included; `CandlesFollow` for klines and the REST answer |
| `multi_two` | 2 workers in 2 markets, 2 orders, room for 1 or 2 positions | 439 k | `EveryOrderTracked`, `NoExitMissed`, `ClosesWhatHasTriggered`; `ShutdownReturns` under fairness |
| `backtest` | 5 bars, 3 prices, any signals, SL 50 %, TP 60 %, costs of 1 % each | 60 k | `LedgerBalances`, `LevelsRespected`, `DrawdownIsLargest` |
| `optimizer` | none, 1 or 3 windows, 2 parameter sets, 2 slots, cancelled at any time | 130 k | `BestIsChosen`, `ReportIsComplete`; `RunReturns` under fairness |
| `signals` | up to 5 bars of 6 shapes with a book each, then a sliding window of 5; the shortest periods | 7 k | `MatchesReference`, `NoRepainting`, `StopsOnTheirSide`, `MirrorSymmetric`, `DiesOnlyWithoutData` |
| `engine_positions` | 1 order | | **violated**: `ClosedAtSLTP` |

Every property of a run that passes has a mutant of the code that violates it
(`PROJECT.json`, "mutants").

### Bounds

* *Orders* (`OrderIds`).  Two orders are one more than the limit of one, so the map is
  full, is emptied and is filled again while managers race.  Ids are used once, which
  is what bounds a run; no tick starts when none is left.
* *Prices* 1 and 2 with levels of 50 % make each move an exit for one side and no
  exit for the other, and staying is no exit; 0 is a book with an empty side.
  The take-profit of 60 % in `multi_two` is reached from 1 to 2 but not from 2 to 1.
* *Back-off* 5 to 8 seconds reaches the cap in one doubling.
* *Time* is bounded in `RateLimiter` (`MaxTime`), which covers a refill of the whole
  bucket; in `CircuitBreaker` it is kept as ages up to the reset timeout, so it is
  not bounded at all.  Counters beyond their threshold are not told apart there.
* *Messages on the way* (`MaxInFlight`) are two, so that the book is behind by more
  than one depth.
* *Levels.*  A quantity of one, or none, is enough for a level to come, go and come back; one of the
  two prices is written with trailing zeros (`Padded`).  The limit of 20 levels per side
  (`multimarket/engine.go:120`) is not reached.
* *Candles.*  Three bars in a buffer of two evict one; a message is never older than the
  buffer is long (`MaxInFlight <= MaxLen`; in the code 300 bars), and the history starts
  with two bars (`History`), a full buffer.
* *Backtest.*  Five bars are enough for two trades, a flip, a forced close and, with prices
  from 100 to 300 and 90 % of the equity in a short position, for ruin.
* *Signals.*  Five bars are enough for two values of each series but one with the shortest
  periods that differ from each other (`MCParameters`); only the vote of `stoch_rsi` needs seven
  and stays FLAT here.  The six bars (flat, up, down, back from up, one without trades, one
  traded at price 0) go with four books: balanced, bought, sold with a wide spread, and one-sided.
  Each of the other votes comes out LONG and SHORT (`arb_spread` only LONG, as in the code), and
  `ichimoku`, `vwap_revert` and `momentum` each panic.  `Scale` is 6912 = 2^8 3^3, a
  multiple of everything that five bars of averages divide by, so arithmetic is exact;
  `Over` fails where it would not be.
* *Optimizer.*  With three windows two out-of-sample runs can still be going while the third
  window is searched; with two slots one of them waits.
* Deadlock checking is off where the system stops for good: every instance has ended
  (`lock_serial`), every worker has returned (`multi_two`), the replay or the search is over
  (`backtest`, `optimizer`), a strategy has panicked (`signals`).

Symmetry over order ids is used only in runs without liveness properties.

### Fairness

* `TradingEngine!FairSpec`: weak fairness of the steps of `Run`, whose requests end
  with the client's 10 s timeout and whose sleeps are bounded; strong fairness of
  the two returns, because `select` picks at random among the ready channels and a
  ready `ctx.Done()` or `stopCh` is looked at again after every tick.  Each
  `manageTrade` goroutine has weak fairness for its 4-hour timer and what follows it,
  none for SL/TP: the market owes nobody a price.
* `CircuitBreaker!BreakerFairSpec`: workers tick every minute and time passes.
* `Optimizer!FairSpec`: weak fairness of the goroutines together; a backtest ends.
* `MultiMarket!FairSpec`: a tick ends (its calls are bounded like the engine's), and
  strong fairness of the return, as above.

Nothing is assumed of the exchange, the network or the market.

## 4. Divergences the models show

Kept as a run:

* `engine_positions`: at SL or TP `manageTrade` records the trade, cancels the entry
  order and returns.  If the order had been filled, its position stays open; the
  comment at `engine.go:316` says that it "closes at SL/TP".

Others met while modelling; changing the constant named in a configuration, or
stating the property, shows them within seconds:

* `executeSignal` drops the error of `posMgr.Open` (`multimarket/engine.go:303`), and `closePosition` that of
  the cancel request (line 328): the order of the worker that loses the race for the last position, and one whose
  cancel request is lost, rest on the exchange untracked.  Both happen in `multi_two` (there is room for one
  position in half of it, and requests fail once the context is cancelled); `EveryOrderTracked` says that an order
  is lost in these ways (`lost`) and no others.
* `SubscribeDepth` asks for the full depth with each push (`ws_feed.go:70`), which says nothing of the
  levels that have gone, and `Handle` merges it like a change, although the comment at `ws_feed.go:167` says
  "Full snapshot replaces".  Levels that have gone stay for good, and the book crosses once the market has moved;
  a subscriber's book is not the exchange's (`BookLevels(s) = Levels(market, s)` fails in `feed_full` after
  two depths).  `BookFollows` says what is left: nothing is missing, and what is too much was quoted once.
* A price with two spellings (`Padded`) is in the book twice: an update of "100.50" does not find the level
  "100.5" that the book has made of it, and of the two quantities either one survives the next message
  (`mergeLevels` ranges over a map); hence the exception for such prices in `BookFollows`.
* A kline that is handled between the REST answer and `Seed` is lost
  (`multimarket/engine.go:125`): the state `seed = "gap"`, which
  `CandlesFollow` has to except.
* No trade of a backtest reports its entry fee: the sum of the trades' P&L is more than the
  equity has gained (`LedgerBalances` needs `EntryFees`).  The equity curve has no point for
  the forced close, so the drawdown and the Sharpe ratio do not see it.
* Out-of-sample windows of 50 bars (`optimizer.go:118`) are shorter than the 60 bars of
  warm-up of the backtest (`backtest.go:39`): with the defaults no out-of-sample run trades.
* A cancelled search reports windows whose parameters are nil and whose metric is -1e18, and so does one whose grid
  is empty, because a range ends before it starts (`BestIsChosen` has to except both).
* `engine_spot` with `Faults <- AllFaults`: a lost reply leaves an order on the exchange
  that the limit does not count, and a failed cancel one that nobody knows.
* `engine_spot` with `Modes <- AllModes`: futures orders are never cancelled
  (`CancelSpotOrder`, `engine.go:370`).
* An order that the client makes up in paper mode has no amount (`client.go:226`, `client.go:253`), so every
  paper trade is journaled with the quantity 0 and the P&L 0, whatever the price did, and `updateStats` counts
  each as a loss (`journal.go:236` asks for a positive P&L).  `JournalIsRight` says so, and speaks of the price for what
  a stop-loss and a take-profit are.
* The percentage in the journal is the move of the price for either side (`engine.go:329`): a SHORT that took
  its profit has a negative one (`move` in `JournalIsRight`).
* An answer to an order that lacks an amount makes `parseOrder` panic (`RequireFromString`, `client.go:371`); such answers are
  not modelled, the process would end.
* A timeout with an empty side of the book journals an exit at price 0
  (`engine.go:369` has no check like line 376).
* `circuit` without `SoleUser`: a success reported late stores Closed over a fresh trip
  (`monitor.go:95`), a stale time stamp lets `Allow` go half-open at once, and skipped
  ticks count as probes.
* A process of another user that has the id of the lock file answers EPERM to the signal, and `acquireLock` takes the
  file for stale (`main.go:29`).  That is right for a foreign program; `OneInstance` assumes that all bots are
  one user's (`Users`).
* `lock_serial` with `Together = TRUE`: two starts at once both run; the file is read,
  removed and written in separate steps.  With a single process id (the container
  of `docker-compose.yml`, where the bot is process 1) a restart after a crash takes its own
  id for another instance.
* After a read error the feed dials again, once, and does not subscribe again (`ws_feed.go:99`), and a failed
  subscription is dropped (`multimarket/engine.go:120`): the book stands still at the depth it was told of
  last, which `BookFollows` says and `UpToDate` excepts.
* `rate_bucket`: a full bucket and its refill let almost twice the rate through within a
  second; `RateBound` states what does hold.  `Client` never calls `Wait`.
* Two workers of the same market (`MarketOf` constant, spot and futures) see each
  other's positions and violate `ClosesWhatHasTriggered`.
* Without candles (a new market, an empty answer) `ichimoku` reads `candles[-1]` and the bot
  panics (`all_strategies.go:53`); twenty candles without volume, or traded at price 0 only, make
  `vwap_revert` divide by a VWAP of zero (line 191), and a close of 0 makes `momentum` divide by it ten
  candles later (line 216).  `DiesOnlyWithoutData` says that a panic needs one of these: no candle, no
  volume, or a close of 0.  `grid` (line 269) survives such a close: its logarithm is infinite or
  NaN, and what that is as an `int` depends on the architecture (on amd64, which `Dockerfile:18`
  builds for, it is negative: no signal).  The multi-market engine asks for 60 candles first.
* In a market that stands still `rsi_mean_revert` and `hull_ma` vote SHORT (an RSI of 100, an
  average that does not rise); ties of `dmi_adx`, `parabolic_sar` and the consensus go SHORT, and
  `supertrend` starts long: the exceptions `Tie` of `MirrorSymmetric`.
* Equal sums of confidences: floats are added in the order in which the strategies' goroutines
  end, and the sums can differ in the last bit (for instance .75 + .68 + .72 against .70 + .71 + .74), so the
  consensus is not determined (`Aggregate` is a set).
* `bollinger_bands` and `mean_revert_z` are registered with the same period and width, and
  `breakout` and `donchian` with the same window: each pair always votes together and counts twice.
* The averages are seeded with the oldest candle of the answer.  When it drops out, all
  series but those in `Windowed` change past values, and a cross can appear or vanish without a trade
  (`NoRepainting` has to except `Slide`).  The first side of the parabolic SAR depends on the second
  close, which is still moving when there are two candles.
* `ml_ensemble` registers itself after the engine has collected its strategies
  (`engine.go:58`, `engine.go:74`), and nothing calls `AddSample`: it never votes.
* The alert for a high error rate needs 31 errors within a minute (`monitor.go`), and a
  worker ticks once a minute; `Monitor.Run`, the watchdog, is never started.
* `Journal.Stats` shares its map with the journal; nothing calls `ExceedsExposure`;
  the multi-market engine is built nowhere and never journals.

## 5. Proofs

`TradingEngineProofs`, for every set of order ids, limit, set of prices, threshold, quantity, mode and
fault, from `ConstantsOK` alone:

* `TypeCorrect`, `NoLeakedOrder`, `OneHonestLine`: `TypeOK`, `OpenOrdersRight` and `JournalIsRight` are
  invariants.  None is inductive.  The invariant `IInv` adds
  - `Capacity`: between the unlocked read and the registration there is room for one
    more order.  Only `Run` adds to the map, so the length can only have
    fallen since the last lock; a stale value errs on the safe side.
  - `LocalsOK`: what `Run`'s locals hold at each point, in particular that the order to
    be registered has no manager yet.
  - `TradesOK`: a managed trade has an entry price, a side and a quantity, and no journal entry
    before its exit.  With `ThresholdIsAMove` and `SignOfProduct` this gives the signs of the move and of the
    P&L (`NewExitIsHonest`).
  `ManagerMoves` and `OthersKeepManagers` say once what the nine manager and
  fourteen other actions do to the variables the invariants speak of.
* `ImplementsLifecycle`: if no journal write fails, each step is a step of `TradeLifecycle`
  or leaves its variables alone, with `StageOf[mgr[o]]` for the stage, `records` for the lines
  and the size of `openOrders` for the count.  `Open` of the specification needs room, which is
  `Capacity`.
* `NothingRestsUnknown`: `RestingOrdersTracked`, if `RequestsArrive`: no reply is lost, no
  cancel request fails, and no futures orders, whose cancel goes to the spot market.  The
  invariant `BookOK` says that until the context is cancelled an order that rests is in the
  map or about to be put there, that a cancelled one does not rest, and that
  a paper bot has nothing on the exchange; `KnownBounded` counts what is known by `Capacity`.

In the same module, about `RateLimiter`, for every bucket, rate and number of callers:

* `LimiterTypeCorrect`, and `RateIsBounded`: `RateBound` is an invariant.  It follows from `Paid`
  (since the first refill of the window, tokens granted and tokens left are paid for by a
  full bucket and the income) and `NoneBefore` (no grant precedes that refill, because
  each grant refills first).

There also, about `InstanceLock`, for any number of starts and process ids, of which none reads like an
empty file or no id: `LockTypeCorrect`, and `LockExcludes`: `OneInstance`, if starts do not overlap
(`~Together`; the runs show two bots if they do).  `LockInv` adds that one process at a time is in `acquireLock`,
that live processes have different ids, that each has one, and `HolderFound`: while a
bot runs the file has its id, and whoever starts gets as far as signalling it.

And about `CircuitBreaker`, for any finite set of workers, threshold, timeout and number of probes:
`BreakerTypeCorrect` in every interleaving; `HaltsForOne` (`HaltsAfterThreshold`) and `ReopensForOne`
(`ReopensInSteps`) for a sole user, which is what these properties speak of.  `SoleInv` relates the program
counter of the sole user to the atomics: from finding the circuit open to the swap the state and the
time stamp stay as read (`WhileOpen`), half-open counts no more successes than requests
(`WhileHalf`), and a success zeroes the failures before it can close the circuit (`Halted`).

`MultiMarketProofs`, for any number of workers, markets, orders and positions:

* `TypeCorrect`: `TypeOK`, with the limit on positions, for all workers and faults.
* `ExitsAreSeen` (`NoExitMissed`) and `ClosedAtALevel` (`ClosesWhatHasTriggered`), if no two workers
  have the same market (`OneWorkerEach`; section 4 shows why).  `OwnInv`: the copies a worker
  acts on are still true of its open positions (`CopiesAreCurrent`), what is beyond a level is copied or
  not yet looked for (`Watched`), and the slot it has found free stays free (`SlotIsFree`), all
  because other workers only touch the positions of other markets.
* `OrdersAreTracked` (`EveryOrderTracked`), on the same assumption, for any limit, any faults and any futures
  markets.  One lemma for each step that passes an order on: from the request into the worker's hands, from there
  into a position, from a position back to the worker that cancels it, and away from it.  `SlotIsFree` is why a
  refused `Open` can only be due to the limit.

`JournalProofs`, for any set of trades, any profits and strategies, and files of any length:
`TypeCorrect`, `StatisticsMatch` (`StatsMatchTrades`) and `RestartRestores` (`ReplayRestores`).

* `Good(stats, trades)` is what the statistics are, part by part: `Totals` and `ByStrategy` (sums over
  sets of positions), `Extremes`, `Streaks` (the longest run of wins, and the one that is going on) and `Drawdown`.
  `StatsGrow` shows that `updateStats` keeps it when a trade is appended, whatever came before; since a replay does
  the same line by line, `ReplayedAll` gives it to a journal that has been reopened.
* `IInv` adds to `Good` that memory is the replay of `Lines`, the whole lines of the file, as long as no
  write has been cut short, and that what was acknowledged but is not among them (`Lost`) is
  at most one trade for each write that was; a tail without a newline counts as one that may still
  be lost, because the next record is glued to it.  `ReplayRestores` alone does not say
  how the file ends, and so is not inductive.

`MarketFeedProofs`, for any prices, quantities, buffer and number of messages on the way:

* `NothingIsMissing` (`BookFollows`), however prices are spelled.  `LinkInv` are the types and what the connection
  implies (`subs` is empty unless it is up).  `BookInv` says of each price and side what is under its two texts
  (`PriceRight`: for a price with one spelling the last quantity that was quoted, for one with two at least the
  present one), and that the last depth on the way, or else the one handled last, is that of the present market
  (`WillShow`).  `BookFollows` alone is not inductive: it forgets that a second spelling was quoted.
* `TypeCorrect`, and `CandlesSetRight` (`CandlesFollow`), however prices are spelled.  `CandleInv` has three parts.
  `Stream`: klines are on the way in the order of their bars, none is skipped up to the newest bar, the last of a bar
  has its present close, and none is of an older bar than there are messages behind it.  `Buffered`: the
  candles are successive bars, and whatever differs from the bars or is missing will be set right
  by a kline on the way (`Follows`), none of which is too old for the buffer (`InReach`); after a gap
  only their order is left (`Increasing`).  `Answered`: the same of the answer on its way, until a
  kline overtakes it.  `InReach` is where `MaxInFlight <= MaxLen` is needed: a kline for a candle that
  the buffer has already dropped would go to its end.

`BacktestProofs`, for any prices, signals, levels, costs, sizes and number of bars:

* `LevelsAreRespected` (`LevelsRespected`).  `LevelsInv` says of each trade what the property says, in terms of the closes
  so far (which a new close does not change), and of the open position that no close since its entry is at
  or beyond a level and that the last trade had ended by then.
* `TypeCorrect`, and `BooksBalance` (`LedgerBalances`).  `AccountInv` adds to the balance that the entry fee of an open
  position has been paid (`Account`), and that an account without equity stays as it is
  (`RuinIsFinal`).
* `DrawdownIsFound` (`DrawdownIsLargest`): the loop of the report keeps the highest point so far and a drawdown that
  none is larger than and that some two points have (`LoopState`); that larger is transitive
  between fractions is a lemma about products.

`OptimizerProofs`, for any parameter ranges, candles, workers and scores:

* `TypeCorrect`: `TypeOK`, with the slots of the semaphore.  That those who hold one can be counted, among however many
  windows, needs `Passed`: only windows that `Run` has passed have an out-of-sample goroutine.
* `BestChosen` (`BestIsChosen`).  `Trials` says that the channel has each trial once, and all that have ended unless the
  search was cancelled; so when all have, it is a permutation of the grid.  `GridLists`: the recursion over the
  ranges lists each combination of values once (`CrossLists`, range by range; `ValuesAre` for a
  range).  `BestIs`: the loop of `bestParams` ends with a set that scored no worse than any it has seen.
* `ReportComplete` (`ReportIsComplete`).  `Reported`: one result for each out-of-sample run that has ended, with its window's
  choice; `Sorted`: in the end they are in order.  `StartsAre` counts the windows that fit, and `SumsAgree` shows that
  the sum over the sorted results is that over the windows.

`SignalsProofs`, for any candles, books and scale, and any parameters that `ParametersOK` admits: every window has a
candle, a fast period is at most the slow one, half a period at most the period, `kijun` at most `senkou`, as in
`all_strategies.go:16-39`:

* `TypeCorrect` (`TypeOK`) and `NoOtherPanic` (`DiesOnlyWithoutData`): every vote is a side, or a panic for
  want of candles or of volume, or after a close of 0 (`NoVolume`: a VWAP of 0 comes from nothing else).  This takes the length of each series: a strategy that looks at the last or the one
  before finds it whenever its guard on the number of candles has let it through.
* `ClosedBarsAreFinal` (`NoRepainting`).  Two lists of candles that `Agree` on their first *n* elements have series that agree on
  the values of those candles (`SeriesKept`); when the oldest candle drops out, the series in `Windowed` lose their first
  value and keep the others (`SeriesSlide`).  `EveryStepTicks` says what a step does to the candles: one more, the
  last one moved, or the oldest gone; the loops of `indicators.go` that append are folds whose results are `Grown`
  element by element (`FoldOf`, `StepByStep`), so what they have appended never changes.
* `AveragesMeetTheirDefinition`: the moving average is the mean of its window and the middle of the Keltner
  channel the exponential average of its bar, two parts of `MatchesReference` that need no more assumptions.
* `StopsHold` (`StopsOnTheirSide`).  The SAR never passes the extreme of its trend (`IsSAR`, inductive along the
  bars), so a stop that a bar does not hit stays outside of it (`Outside`) and moves towards it only.  The Supertrend's
  two bands only close in on the price until a close breaks one (`FollowsUp`); that the band of the latest candle holds its
  close needs `StopParameters`: the ATR counts the candle's own range for `2 / (period + 1)`, so the band is wide
  enough for any candle if `4 * factor >= period + 1`.  The registered 3 and 10 satisfy it (12 and 11), and hardly:
  with a period of 12 the stop of a trend can be on the wrong side of the close, after a bar that is much longer
  than those before.
* `ReferenceMatched` (`MatchesReference`).  `EMAIsWeighted`: *m* bars after its seed, `(n+1)^m` times the average is the
  weighted sum, by induction on *m*, multiplied out in `TotalGrows` and `MultipliedOut`.  `LinesOfBars`: the
  difference of two series of different lengths is that of the averages of each bar (`AverageOfBar`: a value of a
  series is the average of the closes up to its bar), so `LinesHold` for MACD, signal and Hull; `BandOfBar` and `MovesOfBar` count
  bars from the end.  `MidpointFound`: the Ichimoku lines are half of a highest and a lowest price of their windows.  Each oscillator is `Bounded`: `GcdIs` and `FracIs` say that `Frac` reduces a
  fraction to lowest terms without changing it, `PlusEquals` to `DividedEquals` what sums and quotients of
  fractions come to, `HighestFound` and `LowestFound` what `Stoch` subtracts, so that it never divides by zero; RSI, ADX and %R
  are shares of sums that `WilderOnGrid`, `SmoothOnGrid` and `ChannelFound` show to be no smaller than the part.

`MirrorProofs`, of the same: `MirrorHolds` (`MirrorSymmetric`).  The argument is the same for each indicator: its value for
a market and its value for the image add up to a constant (`AddUp`; `2 * Centre` for a price, `Level` for a scaled
one, 0 for a difference of averages, 1 for a share), or are equal (`TrueRangesTurned`), or change places (the gains
and losses of the RSI, the two directional movements).  A sum, an average and a fold keep that, so comparisons change sides
and the vote is the opposite one: `IchimokuTurned`, `RSITurned` and so on, a lemma for each of the seventeen strategies in
`Even`, and `EvenStrategiesTurned` for all of them.  The proofs meet the exceptions
of `Tie` and no others.  `RSITurned` leaves a market in which no close has ever moved: gains and losses once averaged in
never fade to nothing.  `ParabolicTurned` shows the two stops on different sides from the first bar on, if the first two closes
differ.  `SupertrendTurned` shows that two trends that both begin long part at the first break of a band and never meet again.
`Voted` adds to the invariants that the book is one of a sight.  The theorem assumes besides `ExactScale`, `ProperBars` and
`StopParameters` what symmetry means for the parameters (`EvenParameters`: the thresholds of RSI and of %R add up to 100,
the two factors of `dual_thrust` are equal, `tenkan` is at most `senkou`, an RSI of two candles or more, no
width or depth is negative), which the registered ones satisfy, and that no price is above `2 * Centre`, so
that the image has prices at all (`EvenMarket`).

`Invariant` says that the series and the votes are those that the candles give, and that a candle is one; the lemma
`CandlesAreSeen` adds that each candle is one of the exchange's.  `StopsHold`, `ReferenceMatched` and
`MirrorHolds` assume of these (`ProperBars`) that a close is within the range of its bar, as the exchange
defines it, and of the scale that what is divided comes out (`ExactScale`): 1 to `Scale` has a chain of `2 * MaxBars + 2` multiples, each by all of the `Divisors`, as long as the
longest chain of divisions, an average of averages.  Such a scale exists for all periods (a power of a common
multiple); with it `Over` is a quotient, and each value of an average is a multiple of one rung further down
(`OnLadder`).  `ReferenceMatched` also assumes that the width of the Keltner channel is not negative.

The loops of the reports, of `updateStats`, of `replay`, of the optimizer and of the averages and trailing stops are folds over sequences of any length.
The library's induction theorems take a predicate, which no prover here can instantiate; the lemma
`NatSetInduction` takes a set of numbers instead, and follows from the library's theorem that
strict inclusion of finite sets is well founded.  With it `FoldExists` to `FoldAppend` show that a fold of
`SequencesExt` is what a loop computes (the fold of `s` and `x` is a step on the fold of `s`), for
each of the steps the models take, and `SumsExist` to `SumSame` that a sum over a finite set does not depend on the
order in which `CHOOSE` takes its elements.

Only model-checked:

* liveness (`OrdersLeave`, both `ShutdownReturns`, `Recovers`, `RunReturns`), which needs fairness
  and ENABLED.

## 6. What is not modelled

* The ML ensemble: it is never reached with data (section 4), and its models are floating-point
  numerics.  Rounding of decimals and floats in the indicators: the models compute exactly.
* The watchdog, `ErrorTracker`, `LatencyTracker` and `CircuitBreaker.Reset`: they feed logs, or
  are called nowhere.
* The ping loop, the trade stream, the order of handlers of the feed; data races on `f.conn`.
* CSV export, daily P&L and Sharpe ratio of the journal; CAGR, Sharpe ratio, CSV and synthetic
  candles of the backtester: numerics and formatting.
* The Telegram queue: output only, what it drops changes nothing in the bot.
* Configuration, dashboards, command-line tools and container files.

## 7. Plan

Order of work: what handles orders first, then what it relies on, then the tools.

1. Done: `Exchange`, `TradingEngine` in its spot, futures and paper modes, with its abstract
   `TradeLifecycle`.
2. Done: `Journal`, `CircuitBreaker`, `InstanceLock`, `RateLimiter`.
3. Done: `PositionManager` and `MultiMarket`, which composes it with `Exchange`;
   `CandleBuffer` and `MarketFeed`, which composes them on one connection.
4. Done: `Backtest`, `Optimizer`.
5. Done: `Indicators`, `Strategies` and `Signals`, which composes them with the candles of a tick.
6. Done: the theorems of section 5.
7. Models that remain worth writing: the error tracker and the watchdog of `monitor.go` over
   `CircuitBreaker`'s time, once something starts them; an atomic breaker (closed, open,
   probing) that `CircuitBreaker` implements for a sole user; a log of acknowledged trades that
   `Journal` implements while no write is torn.
