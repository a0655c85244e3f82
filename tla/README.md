# WickHunter in TLA+

WickHunter is a BUY-only trading program for one instrument: it watches
one-minute (M1) candles for a sweep below the previous day's low, arms a BUY
after a bullish signal candle, enters only in the next minute, and closes the
long at its stop, its target or the end of the session. Money is at risk when a
process dies between two steps, when a broker call has no answer, or when two
threads touch the same ledger. That is what these modules are about.

Paths of the source below are relative to `src/wickhunter/` unless they start
with `docs/`, `scripts/` or `tests/`; "the README" in a module's comment is the
repository's own `README.md`.

## 1. Inventory

| Part | State it keeps | Operations | Hard behaviour | What makes it correct |
|---|---|---|---|---|
| Trade ledger (`ledger.py`) | the JSONL file | `append`, `events`, `snapshot` | torn appends, two writers' order of stamps | a readable file is the whole history; the snapshot means what it says |
| Live runtime (`runtime.py`) | coordinator, monitor | construct, `start`, `heartbeat` | crash and restart at any point | recovery loses no order and repeats none |
| BUY coordinator (`live.py`) | `armed`, `receipt`, `halted`, engine, risk state | `reconcile_startup`, `recover_pending_buy`, `on_completed_candle`, `on_tick`, `on_heartbeat` | broker call between two ledger lines | intent before order; one intent at a time; daily limit |
| Long monitor (`position.py`) | `position_snapshot`, `halted`, `closed` | `reconcile`, `recover_pending_close`, `on_price` | retry of a close with another result | one position is sold once |
| Execution port (`ports.py`) | the broker's orders and account | submit, find, close, position | answers lost, fills late | idempotence by client id |
| Groww adapter (`groww.py`) | `_buy_receipts`, `_close_receipts` | `submit_buy`, `close_long`, `find_buy_order`, `find_close_order`, `position` | every port call is two to four API calls; orders fill, calls raise and the process dies between them | one order per client id; receipts backed by fills; never short |
| Reconciliation (`reconcile.py`) | none | one comparison | stale as soon as made | BUYs only over an account the ledger explains |
| Engine and rules (`engine.py`, `rules.py`, `models.py`) | state, sweep, signal, counts | `on_candle` | boundaries, gaps in the feed | geometry of every BUY; when a sweep ends |
| Safety (`safety.py`) | none (reads the ledger) | kill switch, `recover_risk_state` | stamps that run backwards, dates | a halt holds; counters survive restarts |
| Risk guard (`risk.py`) | `RiskState` | `check_buy`, `record_close`, `reset_day` | reset at the wrong time | limits per date |
| Feed health (`heartbeat.py`) | `last_tick`, `halted` | `observe`, `check` | two threads | stale feed means no BUY |
| Candle builder (`candles.py`, `fyers_m1.py`) | the open minute | `add`, `flush` | late ticks, no trade in a minute | the candle comes before the tick that completes it |
| Paper pipeline (`fyers_paper.py`, `scripts/fyers_paper.py`) | session, armed BUY, engine | `recover`, `on_candle`, `on_tick`, `heartbeat` | two threads, rollover, restart, session end | memory equals ledger; fills only in their minute |
| Paper broker (`paper.py`) | position, risk state | `submit_buy`, `process_tick`, `close_session` | check and append are apart | as above |
| Intents and replay (`intents.py`, `replay.py`, `tick.py`) | pending intents, broker, ledger | `replay_buy_intents`, resume | session boundary, expiry, waiting intents, a kill between two appends and `--resume` | the trades are those the documents describe, crash or not |
| Risk recovery (`safety.py`, `risk.py`) | none: a fold over the ledger | `recover_risk_state` | two notions of date, day boundaries, streaks over days | it rebuilds what the process held |
| Backtest (`backtest.py`, `execution.py`) | open trade, equity, risk state, list of trades | `run` | both levels in one candle, slippage, limits over sessions | its accounts agree; first touch; a streak shuts the run |
| Session levels (`data.py`, `fyers_m1_strategy.py`) | range of the session, next levels, engine | `prepare_sessions`, `on_candle` | rollover, a session without a range | online and offline trade the same levels |
| Market data adapters, research, CLI | none or sockets | input and output | - | not modelled: no state that outlives a call |

How they interact. The market-data side calls `on_completed_candle` /
`on_candle` and `on_tick` in the order candle, then the tick that completed it.
Those handlers call the engine, the risk guard and, for a live BUY, the
execution port, and append to the ledger before and after. The monitor calls the
port to close. Every restart rebuilds all of it from the ledger and from what
the port can find by client order id. In live use the caller is one thread; the
paper script has two, and they share the kill switch (in the ledger) and the
feed health.

## 2. Modules

| Module | Models | Notes |
|---|---|---|
| `Ledger` | `ledger.py`, the ledger side of `safety.py` | a ledger value is what `snapshot()` and `recover_risk_state()` fold out of the file; one operator per event |
| `LedgerFile` | the file itself | appends cut short; `Snapshot` folds the events with the operators of `Ledger`, as a function of how many lines it has read |
| `ExecutionPort` | `ports.py`, `reconcile.py`, and the broker | contract of the port; fills, sales and exits happen some time after acceptance |
| `LiveProcess` | what both handlers share | clock, program counter, ledger |
| `BuyCoordinator` | `live.py` | one action per handler; `on_tick` is cut at the broker call |
| `LongPositionMonitor` | `position.py` | `on_price` is cut at the broker call |
| `LiveRuntime` | `runtime.py` and the composition | start, crash, operator, broker, clock; the properties |
| `LiveRuntimeClaims` | - | statements of the documents that the live code does not keep |
| `BuyLifecycle` | abstract specification | what happens to one setup: new, intended, dropped, bought, closed; orphaned, where `MayOrphan` says an order can be accepted without the caller learning of it |
| `Engine` | `engine.py`, `rules.py`, `models.py` | integer prices, ratios without division |
| `EngineContract` | abstract specification | the engine as the coordinator and the pipeline see it |
| `CandleBuilder` | `candles.py` | times only: which candle a tick completes; a session starts and ends within its date |
| `Groww` | `groww.py` and the API behind it | one step per API call |
| `Risk` | `risk.py` | `RiskState` as a record, its operations as operators |
| `RiskRecovery` | `recover_risk_state` | a fold over the lines, as a recursive function; the two datings of the code are two constants |
| `Replay` | `replay.py`, `paper.py`, `tick.py` | one step per appended line, crash and resume; a reference definition of the trades |
| `Sessions` | `data.py`, `fyers_m1_strategy.py` | both ways to the levels of a session, over the same candles |
| `Backtest` | `backtest.py`, `execution.py` | over `Sessions`, `Risk` and the contract of the engine |
| `PaperPipeline` | `fyers_paper.py`, `paper.py`, `fyers_m1.py`, `scripts/fyers_paper.py` | two threads, one append per step |
| `MC...` | - | instances for TLC |
| `Totals` | - | the total of a sequence of integers, for `Groww`, `Backtest` and `Replay` |
| `Induction` | - | lemmas about least numbers, recursive functions and totals |
| `LiveRuntime_proofs`, `LedgerFile_proofs`, `Engine_proofs`, `PaperPipeline_proofs`, `Replay_proofs`, `Groww_proofs`, `Backtest_proofs` | - | theorems and proofs, each over the module it is named for |

**Naming of data.** A setup is named by the end of its signal candle: that is
the time of its BUY order, and the client order id is a hash of the signal. A
close is the pair of setup and exit result that its client id hashes. Prices are
zones against trigger, stop and target, except in `Engine`. Times are small
integers; `DayOf` (live) or `Date` (paper) gives their trading date.

**Atomicity.** A handler is one step up to its first broker call or, where it
appends twice, its first append: until then it only changes memory that a crash
forgets anyway. `pc` says where the process stands; the broker, the clock, the
operator, a crash and (paper) the main thread act between the steps.

**Live state and code.** `armed`, `receipt`, `halted` and `engine` are the
fields of `BuyCoordinator` (`"WAIT"` stands for both WAIT states), `trades` is
`risk_state.trades_today`, `lastTick` is `feed_health.last_tick`. `monitor` joins
the flags `halted` and `closed`; `monitored` is the order id of
`position_snapshot`. `accepted`, `filled`, `open`, `sold`, `selling` are the
broker's account: `find_buy_order` is `accepted[s] # None`, `find_close_order`
is `sold[c] # None`, `position()` is `open`. The phase of a setup, for
`BuyLifecycle`, joins both records: an accepted BUY that the ledger neither holds
as its intent nor records as filled is `orphaned`.

**Paper state and code.** `pc` follows `FyersM1Stream._on_tick`: `candle`
(`on_candle`), `end` (the session's end in it), `tick` (`on_tick`), `submit`,
`fill`, `ack`, `rejected` (the appends of a BUY). `heartbeat` is where the main
thread is inside `heartbeat()`: it has read a stale age, or is about to engage the
switch because it has written `feed_health.halted` or, with a fresh age, found it
still set (`heartbeat.py:39`). A strategy decision
(`engine.on_candle`) is an input: the contract is that of `EngineContract`. A
setup is not armed twice: a fresh engine needs a sweep candle and a later signal
candle, which no feed that is late by less than a minute can deliver again after
a restart; the guard of `OnCandle` says so.

**Groww state and code.** `call` is the port call under way and where it stands:
`lookup` (`get_order_status_by_reference_id`), `detail` (`get_order_detail` of an
order the lookup named), `position` (`get_position_for_trading_symbol`), `place`
(`place_order`), `confirm` (the detail of the order just placed). `orders` is
what Groww holds, in the order it accepted them; `receipts` the two dictionaries,
lost in a restart. A detail may lack `filled_quantity`: a lookup then finds
nothing, and the receipt of an order just placed takes the whole order as filled
(`groww.py:87-89`, `groww.py:183`); `told` in a receipt is history and says that
its quantity is an answer of Groww's and not that default. `blind` and `overlapped` are history: the ids for which a
lookup answered "absent" although an order was placed, and whether `position()`
was read while an earlier SELL still filled.

**Replay state and code.** `ticks` and `intents` are the arguments, the same in
every run of a behaviour; `at`, `next`, `pending` and `previous` are the loop's
variables (`pending` as the set of indices of the intents in the list, whose
order is theirs), `turn` the first intent the Python iterator has not passed in
the list it removes from. `events` is the ledger file as a sequence of lines. A step ends where a
line is appended, since a crash between two lines is all a resume can see.
`strayed` remembers that some resume was not a clean one (see below). `switch`
is the last kill-switch line of the ledger: it is kept apart from `events` because
no other fold looks at it, and because an operator stamps it when it is written,
after every recorded tick, so that `recover_risk_state` as of the last tick
refuses the next resume (`replay.py:98`, `safety.py:59`). A replay that does not
resume begins with a new ledger; the broker would refuse every BUY over an open
position an older one holds (`paper.py:79`).

**Backtest state and code.** `pending` is the open trade, `book` is
`result.trades`, `ended` says that the loop over the candles of a session is
over. The engine appears as its contract: `EngineContract` for its states, and
for a BUY any entry and stop that satisfy `BuyGeometry`, both of which
`Engine_proofs` proves of `Engine`. `stream` is the object `FyersM1Strategy`,
fed the same candles as `prepare_sessions`.

## 3. Runs

All runs but `groww_adapter` end at a horizon (`MaxTime`, `MaxMinutes`,
`MaxLines`, `MaxDays`, the last tick), so deadlock is not checked there: the last
state has no successor by construction of the bound, or because a replay is done.
The adapter can always be restarted, and its run does check it.

### Passing

| Run | Properties | Bounds, and why they are enough |
|---|---|---|
| `live_crash` | `TypeOK AcceptedIsDurable DailyLimit NoBlindBuy KeepsLifecycle PendingResolves` | fair specification; signals at 1 and 3 of one date, horizon 5, minutes of 2, two crashes: a crash before and one during recovery of the same order, a late fill, an expiry and a second setup all fit. The broker may exit by itself, an operator halts and releases; calls return |
| `live_faults` | `SoldOnce AcceptedCloseIsDurable KeepsLifecycle HaltBlocksBuy` | horizon 6 and minutes of 3, so that a BUY whose submission raised can be submitted again in its own window; calls raise before or after the broker acted; two crashes; two trades a day, so a pending close can belong to another position; only the runtime engages the switch |
| `engine_rules` | `TypeOK BuyGeometry SweepLowCovers SustainedDownsideEnds GivesUpOnSustained KeepsContract` | prices 0..6 around PDL 2 and PDH 6, five minutes with gaps: sweep, two closes below, a reclaim, a signal and a confirmation fit; limit 2, reward to risk 3/2 |
| `ledger_file` | `TypeOK NoSilentLoss SnapshotMeansHistory` | four lines of the nine events `snapshot()` names, `SESSION_END` included, which no code of the repository writes and `docs/live-runtime.md:24` promises, and of two of those it skips (`PAPER_BUY_ACK`, `REJECT`; the others are stamps like these); two buys, two closes, two stamps |
| `paper_restart` | `TypeOK MemoryIsDurable AlwaysRecoverable DailyLimit KeepsLifecycle` | dates of four minutes with a session of three from their start, the next date's first candle, one crash in either thread's steps, two setups, limit one trade |
| `paper_delay` | `FillsInItsMinute` | a session of three minutes that opens one minute into its date; ticks late by up to one unit (a minute has two), out of order, past the session's end and up to midnight; an operator who halts and releases |
| `replay_trades` | `TypeOK FilledOnce RecoveredAgrees TradesAsSpecified` | every price path over 1..4 of five ticks, of one date or two; six lists of two or three intents: one after the other, waiting together, on both sides of the date, only on the second date, waiting over the boundary, arriving after the last tick of the date; two crashes between any two appends; limits of two trades, two losses in a row and a sixth of the equity, each of which is reached; an operator engages and clears the switch at any moment |
| `groww_adapter` | `TypeOK OneOrderPerId ReceiptsBacked NeverShort` | two BUY and two close ids (interchangeable, so symmetry is sound), up to two units, three orders: a repeated id, a partial fill and a SELL that overlaps another fit. Restarts are not bounded |
| `backtest` | `TypeOK BooksAgree LevelsAgree ExitIsFirstTouch StreakStaysShut` | three sessions of one to four candles over prices 0..5, so that entry, an untouched candle and an exit fit in one session and a streak carries into the next; a slippage of one on both sides; limit one loss in a row, two trades, a fifth of the equity |

What they show, in words:

- `AcceptedIsDurable`: an accepted BUY is filled or pending in the ledger, at
  every moment. `NoBlindBuy`: when a BUY is accepted, every long of the account
  is one the ledger knows, although reconciliation looked only once.
- `DailyLimit` is counted over broker acceptances (live) or ledger fills
  (paper), so a restart or rollover that miscounts breaks it.
- `SoldOnce`, `AcceptedCloseIsDurable`: a close that failed, or whose answer was
  lost, is never repeated under another id and never forgotten.
- `HaltBlocksBuy`: while the ledger is halted by the runtime, nothing is
  submitted.
- `KeepsLifecycle`: both runtimes implement `BuyLifecycle`. The live refinement
  reads the phase from broker and ledger, the paper one from the ledger alone.
  `MayOrphan` is `PortRaises` there and `FALSE` here: in `live_crash` and on paper
  a bought setup is never dropped. In `live_faults` it can be: after a
  `submit_buy` that raised, the accepted BUY is still armed and a later tick
  writes it off (`live.py:173-210`). What the run shows of such an orphan is that
  it is never sold, intended or bought again; with `MayOrphan <- FALSE` the run is
  violated.
- `PendingResolves`: no intent stays pending for ever, except behind a halt or a
  ledger the next start refuses.
- `MemoryIsDurable`: between two callbacks memory is what a restart would
  rebuild. `AlwaysRecoverable`: `main` can be started again at any moment.
- `FillsInItsMinute`: a BUY fills only in the minute after its signal, however
  late the ticks are and whatever the main thread does.
- `NoSilentLoss`, `SnapshotMeansHistory`: see `LedgerFile`.
- `FilledOnce`: over any number of resumes, fills and closes alternate and no
  intent is used twice. `RecoveredAgrees`: what a resume would rebuild is what
  the process holds. `TradesAsSpecified`: a finished replay leaves no position
  open in the ledger, and the closes of the ledger are exactly the trades of
  `RefTrades`, a definition of the documents' rules with no loop and no state, if
  no operator used the kill switch meanwhile.
  They are compared as sets of trades, each with its intent, its entry and exit
  ticks and its profit; `FilledOnce` adds that the ledger has one of each. The
  last two hold over *clean* resumes only; what happens over the others is told
  below.
- `OneOrderPerId`: the only way to a second order of one client id is a lookup
  that did not find the first. `ReceiptsBacked`: no receipt claims more than was
  filled, or than was ordered where Groww's answers did not say what was filled. `NeverShort`: a close sells what is held, unless it was read while an
  earlier SELL still filled.
- `BooksAgree`: equity, the risk state and the list of trades tell the same
  story. `ExitIsFirstTouch`: a WIN means no candle since the entry touched the
  stop. `LevelsAgree`: the streaming strategy trades on the levels of
  `prepare_sessions`. `StreakStaysShut`: a full streak ends trading for good,
  since no `reset_day` clears it.

Fairness (`FairSpec`): weak fairness of a started handler's next step (Python
runs on) and of a restart (the program is run under supervision, or an operator
starts it again), and of the clock; strong fairness of ticks: the market trades,
and callbacks run in the order in which their events arrive, so a stream of other
callbacks does not keep a tick out for good. Nothing is assumed of the broker,
the operator, candles or crashes.

### Runs that find a disagreement

Each checks one statement of the documentation and TLC shows a behaviour of the
code that breaks it.

- `claim_no_entry_while_long`: a BUY fills; the process restarts; `receipt` is
  `None` again, a new candle arms and a tick submits while the ledger holds the
  long (`live.py:122`, `docs/live-runtime.md:45`).
- `claim_recovers_buy`: the process dies after the broker filled the BUY and
  before `BUY_FILLED`; the next `start` sees a broker position the ledger lacks
  and returns before `recover_pending_buy` (`runtime.py:67`,
  `docs/live-runtime.md:14`).
- `claim_session_limit`: a replay of a session that UTC midnight divides is
  killed and resumed; the resume counts the day's trades by UTC date and enters
  a second trade under a limit of one (`replay.py:98`, `README.md:160`).

Stated in the modules and broken by the code in the same way; to see one, put it
in the place of the property of the run named here:

- `LedgerStaysRecoverable` (`ClaimRecoversBuy.cfg`): the runtime appends a broker
  time behind a later stamp; `recover_risk_state` without `as_of` calls the later
  one a future event and every further start raises (`safety.py:59`,
  `docs/live-runtime.md:11`).
- `LiveMeetsRewardRisk` (`EngineRules.cfg`): the live coordinator arms with any
  reward above zero (`live.py:132`, `docs/rulebook-v0.1.md:107`).
- `FinalCandleLiquidates` (`PaperRestart.cfg`): nobody trades at 15:29, the final
  completed candle is an earlier one, and the position is carried
  (`fyers_paper.py:147`, `README.md:174`).
- `SubmitsOnce` (`GrowwAdapter.cfg`): a lookup that raises, for whatever reason,
  and an order with nothing filled yet both count as absent, and the id is placed
  again (`groww.py:109`, `groww.py:122`; `ports.py:49`).
- `ReceiptsAreFills` (`GrowwAdapter.cfg`): `submit_buy` returns a receipt for an
  order with nothing filled, which the coordinator records as `BUY_FILLED`, and
  both `submit_buy` and `close_long` take the ordered quantity for filled when no
  answer says otherwise (`groww.py:87`, `groww.py:183`, `ports.py:53`).
- `OneEnginePerSession` (`BacktestRun.cfg`): after a session without a range the
  stream keeps the old engine and its levels, raises on each further candle and
  never rolls over again (`fyers_m1_strategy.py:47`); the same session makes a
  backtest raise and lose the whole run.
- `ClosedInItsSession` (`ReplayTrades.cfg`): a resumed replay has no previous
  tick, so a first tick of a later date is not a boundary and the position is
  carried into it (`replay.py:121`, `docs/paper-trading.md:20`).
- `IntentsStayInSession` (`ReplayTrades.cfg`, also without a crash): an intent
  that lies between the last tick of a date and the first of the next becomes
  pending just after the boundary cleared the others, and may fill
  (`replay.py:133-136`, `docs/paper-trading.md:20`).
- `RecoveredAgrees` (`ReplayTrades.cfg`, `StampDate <- MCUtcDate`): losses are
  dated by the offset their stamp is written in, trades by the zone given
  (`safety.py:69`), so a file written in another offset recovers another day.
- `StartupRecoversClose` (`ClaimRecoversBuy.cfg`): the same order of `start`
  loses a sale (`docs/live-runtime.md:16`).
- `RestartCountsItsOwnDay` (`ClaimRecoversBuy.cfg`, `DayLength = 5`): a restart
  counts the date of the last line (`runtime.py:47`, `docs/paper-trading.md:28`).
- `AgreementPasses` (`ClaimRecoversBuy.cfg`, `ReportsLevels = FALSE`): the Groww
  adapter reports no stop and target, so agreement never passes
  (`groww.py:255`, `live.py:65`).
- `HaltBlocksBuy` (`ClaimRecoversBuy.cfg`, `OperatorHalts = TRUE`): a switch
  engaged by hand does not reach a running coordinator (`live.py:167`,
  `docs/paper-trading.md:30`).
- `AcceptedIsDurable` (`ClaimRecoversBuy.cfg`, `PortRaises = TRUE`): `submit_buy`
  raises after acceptance, the intent expires, the order is in no record and its
  setup is orphaned
  (`live.py:173`, `docs/live-runtime.md:3`).
- `ConfirmedInNextMinute`, `SignalTouchesLow` (`EngineRules.cfg`):
  the engine confirms on the next candle it gets, and drops the second half of
  the low-touch rule (`engine.py:76`, `engine.py:65`; rulebook lines 72 and 51).
- `AckedAppendIsReadable` (`LedgerFileCheck.cfg`): an append after a torn line
  returns and leaves a file nobody can read (`ledger.py:28`, `ledger.py:20`).
- `HaltBlocksFill` (`PaperRestart.cfg`): the heartbeat engages the switch
  between the broker's check and its append (`paper.py:81`,
  `docs/paper-trading.md:30`).

What a resume of a replay can do besides, which is why `CleanResume` is a
condition of two properties: with no tick left the position stays open in the
ledger, since the last close needs a previous tick (`replay.py:156`); a position
of another session than the first tick of the *file* is refused
(`replay.py:108`); intents that waited when the process died are dropped
(`replay.py:115`); counters are those of the last tick's date, not of the date
the resume goes on in (`replay.py:98`). And without any crash, the loop over the
pending intents removes from the list it runs over, so the intent after a removed
one loses its turn at that tick (`replay.py:140`): `TradesAsSpecified` is about
intents that do not wait together (`Disjoint`) and that come up on their own date
if they can fill on a later one at all (`ComeUpInTime`), while `FilledOnce` and
`RecoveredAgrees` cover the others.

Read in the code and not stated as a property: `record_close` raises once equity
would reach zero, after the close line is written (`risk.py:53`); the rollover
close of the paper pipeline is stamped with the new date (`fyers_paper.py:248`);
`metrics.py:22` lets a trade with no profit end a losing streak, `risk.py:55`
does not; `int(quantity)` in `groww.py:62` truncates.

## 4. Theorems

Proved with TLAPS for every value of the constants that satisfies the named
assumptions: no bound on times, setups, lines, ticks, orders, crashes or prices.
Every safety property and refinement that a passing run checks is stated by a
theorem.

**Live runtime** (`LiveRuntime_proofs`; the invariants stand in `LiveRuntime`).

- `TypeCorrect`. `TypeOK` is not inductive: `submit` with `armed = None` would
  append a fill of `None`. `LocalsInv` says what the locals of a running handler
  hold, and `TypeOK /\ LocalsInv` is.
- `DurableBuy`: `AcceptedIsDurable` when the port does not raise. Two
  strengthenings: `IntentInv` (memory and ledger agree on the pending intent, an
  intent lies in the past, an order has an intent) and `UnsentInv` (an armed BUY
  that may still be dropped was not sent). The broken variant above is exactly
  the loss of `UnsentInv`.
- `HaltIsHeld`: `HaltBlocksBuy` when nobody else engages the switch, from
  `HaltInv`: a halted ledger means a halted coordinator.
- `ImplementsLifecycle`: `KeepsLifecycle`, for every port, raising or not. Uses
  `IntentInv` and `BoughtInv` (a position, a monitor and a sale only exist for an
  accepted BUY); each action is shown to be one abstract step or a stutter. That a
  dropped intent was not accepted follows from `UnsentInv`, so with a port that
  returns nothing is orphaned; that an orphan is never sold, from `FilledInv`.
- `DurableClose` and `SoldAtMostOnce`, for every port. `FilledInv`: what is held,
  watched, pending to close or closed was filled. `CloseInv`: a close under way
  is the one pending in the ledger, and what was closed is neither held, watched
  nor pending, so that no second result of the same setup is ever sent. The
  answer of the broker is not needed: the pending intent alone forbids it.
- `NeverBuysBlind`: `NoBlindBuy` when the port does not raise. `ExplainedInv`
  follows the account through a start: after reconciliation it holds nothing the
  ledger does not, during `accept` and recovery nothing but the one BUY they are
  about to record. A port that raises after accepting breaks it at once.
- `LiveDailyLimit`: `DailyLimit` when the port does not raise. `StampInv`: no
  stamp lies in the future and a fill carries its broker time; `CountInv`: the
  counter of a running process covers the fills of today and of every later date,
  and a BUY about to be sent leaves room under the limit. It needs that dates
  never run backwards (`PortAssumption`), which a calendar satisfies.

**Ledger file** (`LedgerFile_proofs`). `FileTypeCorrect`, `NothingLostSilently`
(from `FileInv`: a file that does not end in a newline has a last line, which the
next append makes unreadable) and `SnapshotTellsHistory`: the fold of
`snapshot()` over a history of any length, of every event it names and of two it
skips, says what `Means` says without a fold.
By induction over the lines, with `Meant` as the claim about the first `n`.

**Engine** (`Engine_proofs`). `EngineTypeCorrect`, `EngineBuyGeometry`,
`EngineEndsDownside`, `EngineStopCovers`, `EngineImplementsContract` from
`EngineInv`: beside the types, the sweep low is below PDL while a sweep is on,
and the signal carries it. `EngineGivesUp` (`GivesUpOnSustained`) adds that a
running count of closes below the low includes the last candle.

**Paper pipeline** (`PaperPipeline_proofs`). One inductive invariant `IInv`:

- `BuilderInv` and `ClockInv`: the open minute is a whole minute of a session
  and not later than the last tick taken; a completed candle ended before the
  tick that completed it. Without the second a BUY could fill before its
  signal candle has ended, and `FillsInItsMinute` is lost.
- `ThreadInv`: what memory and ledger hold at each place of the market-data
  thread. Up to the broker's decision and after the acknowledgement it
  says that the two agree, which is `MemoryIsDurable`; at `fill` and `ack` it says
  which line is owed.
- `LedgerInv` and `PastInv`: an outstanding intent was not filled, an open
  position was, never both; nothing is stamped later than the clock.

From it `PaperTypeCorrect`, `MemoryMatchesLedger`, `RestartIsPossible`,
`FillsOnTime` and `PaperImplementsLifecycle`, which maps every step of either
thread to one of the four moves of a setup or to none. `PaperDailyLimit` needs
`CountInv` beside it: the counter covers the fills of some date `b`, where `b`
is the session's date or, until a restart has seen a candle, the date of the
restart, and no fill, armed BUY or tick that can still fill is of a later date
before the next rollover. Here enter the two assumptions about the clock: a session ends at
least a minute and the delay of the feed before midnight, and a tick is late by
less than a minute and by no more than the time from midnight to the open. The
sessions of the code (09:15 to 15:30, `candles.py`) satisfy both.

**Replay** (`Replay_proofs`), for every list of ticks and of intents.

- `ReplayTypeCorrect` and `IntentsFillOnce` from `IInv`: every line is of a tick
  and in the order of the ticks (`LinesInv`), none is later than the tick at hand
  (`TimeInv`), an intent with a line is neither pending nor still to come
  (`UsedInv`), and what the broker holds is the fill that is open in the ledger
  (`PositionInv`). `TimeInv` is what makes a resume safe: it starts behind the
  last line, so the tick at hand is later than every line, and intents are
  chronological, so every used one is behind it.
- `RecoveryAgrees`: `RecoveredAgrees` under the hypothesis `ZonesAgree` of the
  theorem, that recovery dates a line as the replay dates its tick, by the zone
  it is given and by the stamp's offset. It holds with `--timezone` left at UTC
  and ticks stamped in UTC; `claim_session_limit` and the last variant of
  `RecoveredAgrees` above are what happens without it. `FoldInv` compares the
  counters with the fold on every date of the stream: equity and streak always,
  the counters of the day on the last date, before which recovery has counted
  nothing for the day, so that the reset at the boundary makes the two equal.
- `TradesAreTheDocuments`: `TradesAsSpecified` under the same hypothesis; with the
  switch untouched, the two looks of `submit_buy` at the ledger refuse nothing,
  since what the broker holds is what the ledger holds (`PositionInv`). The
  invariant `IsTold` relates the ledger to a *prefix of the intents*, not of the
  ticks: for some `m`, the ledger tells the trades of the first `m` intents
  (`TradesAfter[m]`), all of them closed or all but the last (`Told`). Its parts:
  - `LastUsed` and `LedgerTells`: `m` is the last intent any line has used, the
    closes are the closed trades, an open fill begins the last trade, and every
    entry and exit has its line.
  - `ChancesAhead` and `TradesBehind`: the ticks already handled hold no chance of
    an intent after `m`, and hold every trade. The first says that considering
    the intents in turn over the whole stream, as the documents do, and all of
    them at each tick, as the code does, come to the same; `FirstChance` and
    `TurnTrades` draw it out for the intent that gets its turn.
  - `StillOpen`: no tick since the entry has hit the stop or the target, and all
    of them are of its session, so that the exit of the code is the one of
    `TradeAt` (`TradeAtHit`, `TradeAtEnd`).
  - `Coming`, `Waiting`, `Passed`: an intent still to come is later than every
    tick looked at; a pending one has arrived in this session; one that is
    neither, after `m`, has expired or is of an earlier date.
  - `Counted`: the counters of the risk guard are totals and counts over the
    trades, so that `CheckBuy` and `LimitsAllow` agree (`LimitsAsCounted`).

  A crash keeps `Told` because `FoldInv` says what a recovery would count
  (`CrashTold`). A clean resume restores the parts that spoke of the loop's
  variables from the ledger alone (`ResumeTold`): every line lies before the first
  tick it takes, an open fill is the last line, and an intent with a chance behind
  the cut would be one that came up before the last used one had expired.

**Groww adapter** (`Groww_proofs`). `GrowwTypeCorrect`, `PlacedOnce`,
`ReceiptsAreBacked` for any number of ids, units, orders and restarts:
`OneOrderPerId` needs that a call about to place an id has either found no order
of it or is in `blind`, and that a receipt in memory belongs to a placed order;
`ReceiptsBacked` that fills only grow, that orders never leave the sequence and
that the quantity of a call about to be confirmed is that of its order.
`NeverSellsShort` from `AccountInv`: unless `overlapped`, at most one SELL is
open, the account covers what it may still take, and a SELL about to be placed
finds none open and is covered by what is held now, not only by what `position()`
said.

**Backtest** (`Backtest_proofs`). `StreamAgrees` (`LevelsAgree`) from
`SessionInv`: between two candles the stream is on the session of the last one.
`BacktestTypeCorrect`, `ExitsAtFirstTouch` and `StreakIsForGood` for every choice
of prices, costs, limits and sessions, from an `IInv` that adds to `TypeOK` that
a trade is only open in a session with levels and that the candles since its
entry have touched neither level; without the last part a WIN would say nothing
of the candles before it. `BooksNeverPart`: `BooksAgree` is inductive over
`IInv`; a close moves the three accounts by the same amount, a fill and a new
session move none.

**Induction over data.** The theorems about folds and totals (`Snapshot`,
`RecoverLines`, `Total`) rest on `Induction`, which states induction up to `n`
for a *set* of numbers instead of a predicate, and from it that a recursive
function over `0 .. n` exists, is unique and grows by one step when its sequence
grows by one element. For that the models write their folds as recursive
functions.

Assumptions are the `ASSUME`s of the modules, evaluated by TLC in every run that
extends them: times are an initial segment of the naturals, dates never run
backwards, `None` is neither a number nor a record of the kind it stands beside,
limits are positive, `PDL < PDH`, a session lies inside its date, ticks are
strictly and intents weakly chronological (`_validate_ticks`,
`_validate_intents`); of a tick and an intent the earlier one has no later date.
Hypotheses of single theorems: `PortRaises = FALSE`, `OperatorHalts = FALSE` and
`ZonesAgree`; the runs that check the same properties set them, and section 3
shows what the code does without each.

Only model-checked: `PendingResolves`, which is liveness under fairness and out
of the prover's reach.

## 5. Not modelled

- Sizing and spread: a BUY is one unit in `Replay` and `Backtest`, and a refusal
  for these reasons does not occur there. With them go the risk fraction and the
  test on equity of `record_close` (`risk.py:53`).
- Profit and loss in the live and paper runtimes, where a refusal of the risk
  guard for losses is a nondeterministic choice: a live close carries no profit
  (`position.py:133`), and the paper broker's is modelled in `Replay`.
- `generate_buy_intents` (`intents.py`): the engine over the sessions of
  `prepare_sessions`, both modelled, with checks of the input files around them.
- `operational_buy_allowed` (`safety.py`), which nothing calls.
- Clock skew: a tick is not stamped later than it arrives.
- Session levels inside the paper pipeline: `Sessions` has them, the pipeline
  takes the engine as its contract. The flat session on which the engine raises
  in the middle of a rollover is told above.
- The audit trail and the list of rejections of a backtest: no code reads them.
- Prices and volume of a candle being built, and `flush` of the candle builder,
  which no code path of the pipeline calls.
- Errors raised inside a callback of the vendor's stream.
- Market data adapters and `env.py` (input and output around vendor libraries),
  `validation.py`, `walkforward.py`, `research.py`, `metrics.py` (pure functions
  over the result of a backtest), `live_state.py` (a pure read of facts modelled
  in `Ledger`), the command line.

## 6. Plan

Done: the live runtime, the ledger and its file, the engine, the paper pipeline,
the Groww adapter, risk recovery, replay, session levels and backtest. Left:

1. `PaperPipeline` composed with `Sessions`, and its liveness (an armed BUY and a
   carried position end).
2. The live runtime over `Groww` in the place of `ExecutionPort`.
