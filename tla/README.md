# predict-raven: specifications, model checking and proofs

predict-raven is a set of services that forecast prediction-market questions with a
language-model engine and trade on the result: on paper (`paper-agent`, `delta-pm`) or for
real (`orchestrator`, `executor`), plus an API and web front ends. This directory holds
TLA+ modules translated from the source, the TLC runs that check them on small instances,
and proofs, checked by TLAPS, of the properties that matter most, for all values of the
constants. Paths below are relative to the repository (`src/`).

Contents: 1 inventory · 2 modules and how they read the code · 3 runs, properties and
bounds · 4 fairness · 5 proofs · 6 where code and documents disagree · 7 not modelled ·
8 what could come next.

## 1. Inventory

Four systems carry the program's own logic: two paper traders, the live trading path, and
the forecast engine with the services that start it. Each is modelled; the parts of them
that are left out are named in section 7.

### paper-agent (`services/paper-agent/src`)

A book of simulated positions in binary markets. The money is simulated, everything else
is a real trading system: concurrent writers, slow and failing network calls, resting
orders, fees, settlement.

| part | state | operations |
|---|---|---|
| `policy.ts`, `fees.ts` | none | `decideExit`, `stopLossBreached`, `applySaturatedHold`, `planHybridExit`, `decideEntry`, `feeUsd` |
| `portfolio.ts` | `portfolio.json`: cash, positions, resting limits, realized gains | `applyBuy`, `applySell`, `applySettlement`, load, save |
| `run-cycle.ts` | a copy of the portfolio, loop position, evaluations spent | evaluation cycle (3 a day), watchlist scan at its end, fast tick (every 10 minutes) |
| `book-sim.ts` | none | market sell and buy against a book, limit fill |
| `store.ts` | `book.lock`, `ledger.jsonl`, atomic writes | `acquireBookLock`, `releaseBookLock`, `appendLedger` |
| `index.ts` | one promise queue, a `pending` flag per kind of job | timers, `enqueue` |
| `cli.ts` | a process of its own | `paper buy`, `cycle`, `tick`, `reflect`, `status` |
| `evaluator.ts`, `polymarket.ts` | none | run the engine (up to 25 minutes), read markets and order books |
| `market-scan.ts`, `reflect.ts` | none | venue filter, report over the ledger |

Interaction: timers enqueue jobs; a job takes the lock file, loads the portfolio, awaits
the venue and the engine for each position, and saves after each change. Manual commands
are other processes that meet the scheduler only at the lock file and the portfolio.

Hard: a load-modify-save that lasts for hours under an advisory lock with a time limit;
decisions taken minutes after the data they rest on; one resting exit that partial fills,
expiry, stop-losses, vetoes and settlement all resize; crashes between the ledger and the
save; money split over partial sales; fee estimates on one walk of a book charged on
another.

Correct means: runs exclude each other and no save is lost; the money adds up, cash never
goes negative; every share of an exit has exactly one order behind it; a veto or a
stop-loss prevails over what rests; a collapsed position gets out; caps hold; no job kind
is switched off by a failure.

### delta-pm (`services/delta-pm/src`)

News-driven paper trading in one process that holds a lock file.

| part | state | operations |
|---|---|---|
| `policy.ts` | none | `decideEntry` (vetoes, stop, sizing), `reviewPosition`, `updateTrailingStop`, `checkHalt` |
| `run-cycle.ts` | writer queue with a fast and a slow lane; analysis slots and their waiters | `enqueueWriter`, `processNews`, `decideAndExecute`, `scheduleFastTick`, `scheduleDailyReview` |
| `store.ts` | `portfolio.json`: positions, stops, stop-out stamps, halt; `ledger.jsonl`; `news/`, one record per story; lock | load, save, append, `upsertNewsItem` |
| `feed.ts` | `feed-state.json`: ids seen, validators (ETag) | `pollFeed`, `backfillFromSitemap` |
| `gate.ts`, `ingest.ts`, `progress.ts` | `signals/`, a file per story that went through a gate; runs in progress | gates, `findStaleDuplicate`, pasted texts |
| `hyperliquid.ts`, `market.ts`, `m0.ts`, `analyzer.ts`, `providers.ts`, `status-server.ts`, `notify.ts`, `reflect.ts` | marks and statistics of tickers, in memory | venue reads, model calls, presentation |

Interaction: the feed hands stories to runs; a run waits for a slot, then for a model and
the market at each stage, and hands its thesis to the writer; ticks and reviews go through
the same writer and may jump its queue.

Hard: theses that wait while ticks and reviews change the book; a stop that many ticks
move; entries journalled after the save and exits before it; two stories with one
fingerprint in the gates at once; two ids for one story; ids saved before items are
processed.

Correct means: stops only tighten, no entry under a halt or in a lockout, a position at
its stop gets out; ledger and book explain each other; a story goes through the gates
once.

### executor and orchestrator (`services/executor`, `services/orchestrator`)

Redis-backed jobs between an agent cycle that decides and a worker that trades.

| part | state | operations |
|---|---|---|
| orchestrator `jobs/agent-cycle.ts`, `lib/risk.ts` | what a cycle has read and projected | status check, agent run, guards, queueing |
| orchestrator `index.ts`, `routes/admin.ts` | timers, job ids | sync timer, pause, resume, flatten, run-now |
| executor `workers/queue-worker.ts`, `lib/risk.ts` | database rows: status, positions, events, snapshots | trade, sync and flatten jobs; stop loss; drawdown halt |
| `packages/db` | the same rows, or a file that stands in for them | queries |

Hard: status read before a long agent run and not again when its trades are queued; a
worker that dies after its order was filled; a failed job that keeps its job id; a failed
fetch of positions read as "no positions"; sales booked before the row loses its value;
several orders of one cycle queued before any is executed.

Correct means: nothing is bought after a halt, a halt is a real loss, cash reconciles,
caps hold for the orders of a cycle together, a decision is filled once, a position at its
stop loss is sold.

### forecast-engine, forecast-api and raven

`packages/forecast-engine` runs rounds of research on a question and saves `state.json`
after each, so that a later process can resume. Two services, `services/forecast-api` and
`apps/raven`, start engine processes over one directory and infer from files whether one
is running (`run-manager.ts` in each).

| part | state | operations |
|---|---|---|
| `engine.ts` (yes or no), `structured-engine.ts` | `state.json`: status, rounds, verdict that waits for its summary, open questions | frame, round, judge, summarise, settle |
| `analyst-feedback.ts` | `analyst.json`: notes and doubts with versions, its lock directory | edit, show, consume, replay of receipts |
| `cli.ts`, `resume.ts`, `run-lock.ts` | `engine.lock` | modes `new`, `fresh`, `resume`; exit codes |
| run managers | a job per event in memory, `.engine-lock`, `launch.lock` | start, reattach, close, restart |

Hard: kills between the save of a round and the update of the feedback, or while the
summary is written; states that an earlier process left open; two services that do not
see each other's jobs.

Correct means: one engine at work on an event, saved rounds are never lost, a complete
forecast has its summary, feedback is shown once, success leaves no open state behind.

### The rest

`packages/sports-model`, `packages/fifa-models` and the World Cup scripts are
floating-point statistics without state; `apps/web`, `packages/norns`,
`packages/terminal-ui`, `packages/contracts`, `scripts`, `vendor` and the data directories
are presentation, operations, schemas or third-party code. `services/orchestrator` also
holds the pulse (prompting a model over market data and parsing its text), report writers
and resolution tracking. They are not modelled; section 7 says why.

## 2. Modules

| module | what it is | extends |
|---|---|---|
| `PaperPolicy` | decision rules and fees of the paper agent, as operators | |
| `PaperPortfolio` | the book and its operations, up to `executeExit` | `PaperPolicy` |
| `PaperRuns` | one process working on the book: cycle, scan, tick, manual buy, crashes | `PaperPortfolio` |
| `PaperAccount` | abstract specification: what a reader of `portfolio.json` may rely on | |
| `BookLock` | the lock file protocol between processes, with load-modify-save | |
| `PaperService` | scheduler queue and manual commands over `BookLock` | `BookLock` |
| `BookSim` | fills against an order book, with exact rationals | |
| `DeltaPolicy` | entry, stops, review and halt of the delta manager, as operators | |
| `DeltaBook` | its book and the single writer: theses, tick, review, crashes | `DeltaPolicy` |
| `DeltaNews` | its news side: polls, ids, slots, gates, pastes, crashes | |
| `TradeGuards` | guards, drawdown, stop loss and sale size of live trading | |
| `TradeExecutor` | the worker of the execution queue, its rows and the venue | `TradeGuards` |
| `TradeDesk` | agent cycles, timers and admin routes over the executor | `TradeExecutor` |
| `ForecastEngine` | engine processes over one event's directory, and an analyst | |
| `ForecastRuns` | the two services that start them | `ForecastEngine` |
| `MC*` | constants of the runs | the module named |
| `FiniteSums` | facts about sums over finite sets, and inductions | |
| `*Proofs` | the proofs, section 5 | the modules named, `FiniteSums` |

### Paper agent

**Data.** Prices and probabilities are whole units of `1/One` dollar, one unit being one
tick; shares are whole lots. The code's dust threshold (0.0001 shares) becomes zero. A fee
per share is rounded down to a unit in `PaperPolicy`; `BookSim` keeps it exact. In
`PaperRuns` a book is the best bid, the size there and the best ask (a fill at the top of
the book); what walking several levels does is `BookSim`'s subject. An engine run is a
probability, the end of the range it is clamped to, and whether it saw market prices.

**PaperRuns.** `disk` is `portfolio.json`, `mem` the copy of the run, `pc` the place where
the run awaits. A step is what the code does between two awaits or between an await and a
save; `SaveThen` and `Save` keep the save apart from the change, because exits and
settlements are ledgered before the save and buys after it, and a crash can fall between.

| code | actions |
|---|---|
| `runEvaluationCycleLocked` | `StartCycle`, `CycleSkip`, `CycleSettle`, `CycleStopLoss`, `CycleEvaluate`, `EvaluateDone`, `EvaluateFails`, `CycleScans` |
| `scanWatchlist` | `ScanSkip`, `ScanEvaluate`, `ResearchEnters`, `ResearchFails`, `JournalBuy`, `ScanDone` |
| `runFillTickLocked` | `StartTick`, `TickSkip`, `TickSettle`, `TickVisit`, `LimitFills`, `LimitFallsBack`, `LimitRests`, `TickStopLoss`, `TickMovesOn`, `TickDone` |
| `seedBuy` | `SeedBuy`, `JournalBuy` |
| venue, time, failure | `Resolve`, `Collapse`, `Expire`, `Crash` |

A failing fetch is a skip, as in the code (the catch of the loop body). Every read of a
book or an evaluation is a fresh choice, so a book may differ between the look before the
engine run and the one after it. Markets resolve and limits expire between runs only: a
run looks at each of them once, so when it happens within a run makes no difference to it.

**BookLock.** The lock file has a state (created but not stamped, stamped and young,
stamped and old) and, for the properties, its creator. Creating, stamping, reading and
removing are separate steps; the stamp is written through the descriptor, so it is lost
when the file was removed in between. `Age` lets the stamp grow old at any time, because
nothing refreshes it. `robbed` records that a process removed the lock of a live run.
delta-pm's `store.ts` (181-205) has the same protocol.

**PaperService.** The promise chain of `index.ts` is a queue of kinds and a running job;
the `pending` flags are cleared when a job starts and again when one fails. The reflection
job needs no lock. A manual command is a process of `BookLock`; only commands that end are
counted by the bound, so one that never ends is covered too.

**PaperAccount.** Each position is flat or held at a cost; it is opened for cash that is
there, shrinks by sales that bring at least nothing and less than a dollar a share, or is
redeemed whole at 1, 1/2 or 0. Each save of `PaperRuns` is one such step or a stutter.

**BookSim.** One behaviour is one request on one book. `ByPrice` numbers the rows that show
a size in order of price (any such order, where the code's sort keeps the venue's order of
equal prices: no amount depends on it); the two loops are recursive functions of the number
of levels passed, `left` and `spent`. The references are independent of the walk: all ways
to allocate the shares to the rows, the cost of the whole book, the market sale of the
same number of shares.

### delta-pm

**DeltaPolicy, DeltaBook.** `disk` is `portfolio.json`, `mem` the copy of the writer's
job, `queue` the writer's queue, in which a tick goes before the first slow job. A job
loads the book when it starts; a thesis then awaits candles (`Decide`, where a crash or
the clock may come in between), is saved and then journalled; a tick is one step up to its
save (`Scan`); a review visits one position per step (`Visit`). All of the vetoes that
depend on the book, on the clock or on marks are there, in conjunctions. What simplifies:

* a position carries its dollars at entry instead of a quantity, its two targets as
  percentages without sign; one number replaces the entry threshold, which in the code
  comes from fees, funding, slippage and volatility;
* `StopDists` stands for what ATR and swing levels make of the stop, `Bases` for the
  candle before t0; leverage, the caps on clusters and on isolated margin, the earnings
  veto and the benchmark leg of a move are left out: they can only lower the size or add a
  reason to decline;
* whether the statistics that a trail needs are cached is a choice per tick and ticker;
* jobs and quotes arrive between jobs only: a running job looks at neither;
* a failing candle fetch of a thesis (the job throws and nothing is saved) is `Decline`;
  `loadPortfolio`'s replacement of a book that does not parse is left out.

**DeltaNews.** A run takes a slot or waits in line; each stage awaits a model or the
market and then acts in one step, so two runs in the same stage both see the signals from
before. A story is its normalized URL, an id is a path and a story; `archive` keeps the
path whose id owns the story. Feed validators are saved before the body is parsed
(`PollBreaks`) and ids before items are processed (`Poll`, `Crash`), as in `feed.ts`
186-193. `findStaleDuplicate` also compares texts: equal fingerprints stand for both.
`loadRecentSignals` sorts by file name, which begins with the fingerprint, so `Looked`
orders by fingerprint first and by writing second.

### Executor and orchestrator

**TradeGuards, TradeExecutor.** The rows of the database (`status`, `pos`, `flow` for the
events since the last snapshot, `snap`), the venue's account, the queue, and one worker
whose steps are the awaits of a job:

| code | actions |
|---|---|
| `handleTradeJob` | `StartTrade`, `SendOrder`, `Upsert`, `Record` |
| `handleSyncJob` | `StartSync`, `MarkRemote`, `StopSell`, `StopBook`, `Snapshot`, `MarkHalted` |
| `handleFlattenJob` | `StartFlatten`, `FlattenSell`, `FlattenClose`, `FlattenRecord`, `FlattenDone` |
| queue, process | `Throws`, `Crash`, `Requeue` |

A refused order leaves the holes that the code fills with defaults (price one half, the
amount asked for), so a refusal is booked, as in the code. A failed fetch of the venue's
positions is an empty list; a cost that cannot be computed counts as one half and a
missing bid (no bids, or no book) as the cost (`Marks`), each a fault of its own. A job
that throws stays failed (jobs have no retries, `services/orchestrator/src/index.ts`
60-64) and a failed sync keeps its fixed job id. A worker that dies leaves a stalled job,
which the queue hands out again. Prices stand still during a job; shares are whole;
`cancelOpenOrders` only logs; the liquidity cap on an order is left out.

**TradeDesk.** A cycle reads status, snapshot and rows once (`CycleStart`), thinks for any
time, and then clips and queues one decision after the other against what it read and
projected (`QueueNext`). Cycles may overlap (cron and run-now). `SyncTimer` adds under the
fixed id. The admin routes set a status whatever it was. Plans of the agent are sequences
from a set; a sale is only planned for a position that was read. A missing snapshot is the
initial bankroll.

### Forecasts

**ForecastEngine.** `disk` is `state.json`, `feedback` the analyst's file, `lock`
`engine.lock`, `proc` the processes with their copy of the state. The actions follow the
awaits and saves of `runForecast` and `runStructuredForecast`: `Lock`, `Frame`, `Begin`,
`StartRound`, `AgentReply`, `Consume`, `Judge`, `Summarize`, `Exit`; where the two engines
differ (when a verdict is saved, what a failure to consume feedback does) the definitions
split by `kind`. A throw outside the call for a round, in the research before it or in the
update of the feedback, aborts a structured run and ends a yes-or-no one with its saved
state as it was (`Thrown`). A run that its synthesis reopened begins again inside the same
process (`reopened`), where the structured engine catches what it would not have caught at
a start. `Kill` runs no finally clause: `engine.lock` stays, and the feedback's lock if it
was held, in the update after a round or in the replay of any number of earlier ones;
`Unlock` and `Unjam` are the operator who removes them. "converged" stands for saturated
too and "insufficient_evidence" for research_failed, which the code treats alike. The
expanded library is the save it makes before a first round, not its contents. Left out:
recovering a structured round from its saved attempts, sources that an analyst excludes
after they were used.

**ForecastRuns.** Jobs in memory, the api's `.engine-lock` with its age, raven's
`launch.lock`; `stamp` is what the age of `state.json` tells. A start that finds a
forecast running, no quota or no invite does nothing and is therefore no action. Raven
edits the feedback itself and may leave its lock behind when it is restarted. One process
may be killed and one service restarted per behaviour.

## 3. Runs

| run | question | result |
|---|---|---|
| `paper_runs` | do money, caps and vetoes survive all interleavings of awaits, and does the book implement the account? | holds, 484,322 states |
| `paper_exits` | do exits stay whole, does the ledger agree with the book over a crash, and does a collapsed position get out? | holds, 73,476 states |
| `paper_service` | do queue and lock serve every trigger and lose no save? | holds, 132,597 states |
| `book_sim` | are fills optimal, within budget, converged, conservative? | holds, 24,600 states |
| `delta_book` | do stops, halt, lockout and ledger hold over every order of theses, ticks, reviews and a crash, and does a stopped position get out? | holds, 648,487 states |
| `delta_news` | does a story go through the gates once, and how many of one fingerprint pass? | holds, 668,833 states |
| `executor` | do caps, cash, halts and stop losses hold over the jobs of successive cycles and one fault or admin call? | holds, 911,852 states |
| `forecast` | does what is saved stay true over kills, restarts and two services? | holds, 2,451,163 states |
| `lock_race` | does the lock always exclude? | violated, see 6 |
| `lock_wedged` | is every abandoned lock reclaimed? | violated, see 6 |
| `thin_book_flag` | does the flag mean a thin book? | violated, see 6 |
| `delta_halt` | is nothing opened below the halt line? | violated, see 6 |

### Properties, by what could go wrong

Paper agent:

* `AccountingReconciles`, `AccountSpec`: the entry fee is carried through partial sales,
  voids and losses, and cash minus bankroll equals realized gains once all is closed.
* `CashNeverNegative`, `BuyStaysInBudget`: the budget test before an engine run is enough
  for the fill after it, fee included.
* `SaturatedHoldIsKept`: the veto cancels what an earlier cycle left resting. A later
  stop-loss may rest on such a position; nothing else may.
* `EntryWithinCaps`: a scan never enters a second side of a market or exceeds the event or
  position cap, counting its own entries; manual buys are exempt, as in the code.
* `ExitsCoverPositions`: at most one resting exit per position, for exactly its shares.
* `LedgerAccountsForBook`: without crashes the ledger is exact between saves; with them a
  sale may be ledgered twice and a buy not at all, never the other way round.
* `StopLossExits`: a collapsed position is sold although the tick's stop-loss ignores
  positions with a resting exit, because that exit expires and falls back to market.
* `SafeUnlessRobbed`, `CrashedLockIsReclaimed`: the lock's guarantees under the one
  assumption it needs, that no live run is older than the stale limit.
* `PendingIsQueued`, `BacklogBounded`, `TriggersAreServed`: the flags neither lose a
  trigger nor let jobs pile up beyond one per failure.
* `SellTakesBestPrices`, `BuyConverges`, `LimitFillIsConservative`: the algorithms of
  `book-sim.ts` against their references.

delta-pm:

* `StopsOnlyTighten`: from entry on, a stop moves towards profit only and is never beyond
  the hard floor, over ticks, reviews, quotes in any order and restarts.
* `LongTrailArmsInProfit`: a trail is armed after the best mark has made half of the
  target. This is said of long positions only: the tick hands `updateTrailingStop` a move
  that is already signed by direction (run-cycle.ts 519) and the function signs it again
  (policy.ts 367), so a short arms when it loses. No document states the rule for shorts.
* `EntriesRespectHalt`, `ReentryWaits`: a thesis that was analysed before a halt or a
  stop-out is refused after it, because the decision reads the book again in the writer.
* `LedgerTracksBook`: an entry may miss from the ledger and an exit be in it twice, one
  per crash, never the other way round.
* `StoppedPositionCloses`: in a halted book too, whatever waits in the slow lane.
* `OneRunPerStory`: two paths, two ids, crashes and gap filling; once more per paste.
* `PassesWithinSlots`: the staleness gate reads signals that the runs beside it have not
  written yet, so stories of one fingerprint pass together, but no more than there are
  slots. It is said while all signals are looked at: later on the gate looks at the last
  by name and a story may pass again.

Live trading:

* `CycleWithinCaps`: the orders of one cycle stay within the caps together. Two cycles
  that overlap may exceed them, which is why the property is about one.
* `CashReconciles`: the last snapshot's cash and the events since are the venue's cash in
  every interleaving in which no order was refused, no job failed and no flatten was
  booked off its mark.
* `HaltIsReal`: with nothing gone wrong, a halt is a real drawdown from the highest true
  equity. Stop-loss bookings are excluded: they count a position twice until the next
  sync.
* `HaltedBuysNothing`: after the worker's halt holdings only fall until an admin route is
  called, whatever was queued.
* `FilledOncePerCrash`: a decision is filled once; twice if the worker died after a fill.
* `StopLossFires`: a position that stays at its stop loss is sold in every status, unless a
  failed sync keeps the job id, after which no sync runs any more.

Forecasts:

* `CompleteHasSummary`: who reads a complete state finds the summary and no open question.
  The structured engine saves a verdict that waits for its summary as the status when it
  resumes (structured-engine.ts 214) and puts it aside in its next save: a state read
  between the two, or after a kill between them, is excused, and nothing else.
* `FeedbackOnce`: replaying the receipts of saved rounds makes up for a kill between the
  save and the update.
* `RoundsKept`: a save extends the saved rounds, or a process that was told to start over
  has framed the question anew; two services that start an engine each do not overwrite
  each other.
* `ExitSettles`: exit code 0 leaves no state that reads as running.

The type invariants (`TypeOK` twice more, `ServiceTypeOK`, `DeskTypeOK`) are one per
model; in `delta_book` it also says that no position is below the smallest trade, in
`executor` that neither the venue's cash nor a row goes negative.

### Bounds

`paper_runs`: two markets of one event, lots of one and two, three shares bought in all,
two evaluations per cycle, cash for one entry and a little more: the second entry meets
the event cap, the position cap and the cash test, each in some behaviour. `paper_exits`:
one market, one lot of three shares, books that bid for one share, so an exit needs up to
three fills over several ticks; the outcome that the operator buys may collapse; one
crash. Books: empty; 600/995 (a wide spread); 994/996 (between the clamp and full value,
where the saturation veto decides); 200/601 (below the stop-loss). Prices are mills with a
1% fee, so that per-share fees are whole. `paper_service`: one scheduler and one manual
command, one save each, one fault (crash or failing job), one command that ends: enough
for a reclaim, a reclaim of a live lock, a crash at each step of the protocol and a failed
job with a waiting successor. `book_sim`: a dollar of four units, up to three rows in any
order with sizes 0, 1 and 3, a 10% fee, so prices above and below one half and equal
prices occur; budgets up to 9, larger and smaller than the depth.

`delta_book`: one ticker with a long and a short thesis; marks 6, 10 and 13 around a base
of 11, so that a mark may be through a stop, at the hard floor (20%), past half of the
target and at a target; capital 20, of which one bad position loses enough for the halt
(25%); two entries, a clock of two ticks with a cooldown of two and a horizon of one, one
waiting slow job beside a tick, one crash. With one ticker at most one position is held:
positions of other tickers enter a decision through sums only, and the proofs of section 5
are for any set of tickers. `delta_halt` is the same instance without crashes.
`delta_news`: three stories of one fingerprint and two slots, so that one waits; three
runs, one paste, one crash or broken poll; three signals looked at. Stories are symmetric.
`executor`: one token at 20, 15 (a loss of 25%) or 13 (35%, past the stop loss of 30%);
a bankroll of 1000, a halt at 20%; one cycle at a time with one of two plans, two opens of
600 of which the caps leave 500 and 300 and a third that they refuse, or a partial and a
full sale; three job ids, two waiting jobs, one price move, one fault or admin call. One
cycle can follow another and have its jobs meet those of the first. `forecast`: two
processes (one meets the traces of the other) started by either service in each mode, one
doubt with two versions, two rounds of which both are required, one more on resume, one
kill and one restart.

`MaxOpened`, `MaxCrashes`, `MaxSaves`, `MaxFaults`, `MaxCommands`, `MaxRows`, `MaxShares`,
`MaxUsd`, `MaxNow`, `MaxQueue`, `MaxOpens`, `MaxRuns`, `MaxPastes`, `MaxTurns`, `MaxIds`,
`MaxMoves` and `MaxVersion` bound the models only; the other constants are settings of the
code or the environment. `CHECK_DEADLOCK FALSE` is said where the system may stop:
`BookSim` (a behaviour ends with its fill), `DeltaNews`, `TradeDesk` and `ForecastRuns`
(runs, jobs and processes are used up).

Each property has a mutant beside the definition it changes, marked "Mutant of": a way the
code could plausibly be wrong, which TLC then finds.

## 4. Fairness

`PaperRuns`: weak fairness of the run in progress (awaits return or throw; HTTP calls and
the engine have time limits), strong fairness of starting ticks (the interval timer keeps
firing; a tick that is skipped is followed by another), and, per position, strong fairness
of a tick that succeeds in reading its market and book and of expiry (time passes). The
strong fairness of visits is an assumption on the venue: it does not fail for ever on one
market. Cycles, buys, crashes and the venue's own steps owe nothing.

`PaperService`: weak fairness of the tick timer, of the event loop serving the queue and
of time. Manual commands owe nothing: a command may hold the lock for ever, which is why
the liveness properties speak of jobs that are served (run or skipped), and of locks whose
creator is gone.

`DeltaBook`: strong fairness of the tick's timer (the interval keeps firing; the model
lets one tick wait at a time, so the timer is not enabled all the time) and weak fairness
of the writer, whose jobs await calls with time limits. Theses, reviews, quotes, the clock
and crashes owe nothing.

`TradeDesk`: weak fairness of the worker, of the queue's search for stalled jobs and of
the sync timer, which the code leaves running for the life of the service. Cycles, faults,
admin calls and prices owe nothing.

`DeltaNews`, `ForecastRuns` and `BookSim` state no liveness: a crash loses the items of a
poll, an engine may fail for good, and nothing retries either by itself.

## 5. Proofs

All modules with theorems are free of recursive operators; every obligation is proved by
tlapm, most by Z3, the temporal steps by LS4. Every safety property that a passing run
checks is a theorem here, for all values of the constants.

* `FiniteSums`: what `SumFunctionOnSet`, the fold in which the models add up amounts,
  gives: one element can be taken out, a change of one value changes the sum by as much,
  zeros do not matter, sums are monotone, linear and independent of names. Induction is done
  without the library's induction theorems: a smallest subset (or index) for which a fact
  failed would have smaller ones for which it holds. `Grow` and `Climb` say so once for
  finite sets and intervals, with the fact to be shown given as a set, and `Recursion`
  that a recursive function along an interval exists.
* `PaperServiceProofs`: first the lock, `TypeCorrect` and `LockSafe`. `SafeUnlessRobbed` is
  not inductive: the strengthening says that, as long as nobody was robbed, a process past
  the creation owns the lock file, and the copy of the one inside contains every save so
  far. Then every step of the service is a step of `BookLock` or leaves its variables alone
  (`ServiceUsesLock`), so `ServiceSafe` follows from the lock's theorem. `ServiceTyped`,
  `FlagsHaveJobs` and `BacklogIsBounded` rest on an invariant about the queue: of each kind
  at most one job more than have failed, and one if the flag is set.
* `PaperRunsProofs` begins with lemmas on the operators: fees and limit prices stay in
  range, a sale takes exactly its shares and drops the limits with the last one, buying,
  settling, cancelling and exiting keep a book in order (`GoodBook`: typed, one exit per
  position for exactly its shares, vetoed positions carry stop-losses only). Then three
  inductive invariants. `RunInv`: both books are good, a run that works on a position knows
  which, and an entry under research is not held on either side; from it `RunsTyped`,
  `ExitsCovered` and `HoldsKept`. `ExitsCoverPositions` alone is not inductive: a position
  without shares and with an exit of zero shares would satisfy it, and a buy would then
  break it, so `OneExit` also says that an exit implies shares. `BooksInv`, relative to the
  first: the copy is the file except between a change and its save, where the two are one
  step of the abstract account apart; cash is not negative and at least the entry budget
  while an entry is researched; the caps have room while it is, and hold when it is bought;
  the ledger differs from the file by the step in flight. From it `CashStaysPositive`,
  `CapsRespected`, `LedgerAccounts` and the refinement `ImplementsAccount`. Each action is
  first reduced to a sale, an entry or a step that leaves the book alone, so the invariant
  is shown for three kinds of steps. `BalanceInv`, relative to both, says that the file
  balances, and the copy while no run is on; that a step of the abstract account keeps
  cash and open cost against bankroll and gains (`OpenCost` changes in one position) then
  gives `BooksBalance` for the copy too.
* `BookSimProofs`: what the fill simulation computes, for books of any length. There is no
  induction over steps here, since a behaviour is one fill (`BookInv`), but one over the
  levels of a book:
  * `BestPrices`: all levels better than the last one touched are given whole, none worse is
    touched (`WalkThreshold`), so every row gains at least what it would gain in another
    allocation, measured from that price (`RowGains`, `SaleIsBest`); `RowSums` carries sums
    over levels to sums over rows.
  * `LimitsAreConservative`: the shares of a limit are visible at or above its price, so the
    walk takes none below it (`WalkPays`).
  * `BudgetsHold` and `BuysConverge`: both walks of a buy are followed level by level, with
    all amounts whole numbers over one denominator (`Over`, `SpendOver`). `Pair` says how
    they stand to each other: the second, with the smaller budget, has spent no more, has
    no larger cost and no larger complement (so no larger fee, `CheaperInOrder`), and its
    average price is no higher. From the first two the fee really charged is at most the one
    carved out (`BudgetKept`); from the last, the cheaper side shrinks by at most the rate
    when the budget does (`SideShrinks`), so what is left is of second order
    (`LittleIsLeft`). Nothing is assumed of the rate: where it exceeds one, the fee may eat
    the budget and both bounds still hold.
* `DeltaBookProofs`: `LedgerExplainsBook`, `LongTrailsArmInProfit`, `StopsTighten`,
  `HaltStopsEntries` and `ReentryIsLate` from one invariant, `BookInv`. It says what a
  job may assume of its copy: a thesis about to be saved has one position more than a file
  that is neither halted nor in lockout (`ToEnter`), a tick or review has closed or
  tightened and stamped what it closed at its stop (`ToLeave`), and a review has not yet
  touched what it has still to visit (`Unvisited`). That invariant leaves dollar amounts
  free; `BookTyped` adds them: equity, gross and net are sums over the tickers, an entry is
  clipped by them and refused below the smallest order.
* `DeltaNewsProofs`: `NewsTyped`, `OneRun` and `PassesBounded`. The count of stories that
  pass is bounded through `Admits`: the stories of a fingerprint that have passed or still
  may are no more than the slots, since a run in a gate holds one.
* `TradeDeskProofs`: `FilledOnce` and `HaltStopsBuys` from `DeskInv`: job ids are apart
  across queue, stalled job and worker, a job that may still be filled has not been yet
  (or once per crash), and after a halt no open is about to be sent. `GuardsWithinCaps`
  states what `applyTradeGuards` returns, for all integers. The dollars follow:
  * `DeskTyped` and `CyclesWithinCaps`: what a cycle projects is the sum over the rows it read
    and what it queued since (`CycleOK`), which each clipped decision keeps within the caps;
  * `CashIsBooked`: `CashReconciles` needs to know only that a stop loss in flight sells at
    the mark its row carries (`SoldAtMark`);
  * `HaltsAreReal`: the highest equity that was written is not above the highest true one,
    rows already visited by a sync are what the venue holds, rows it has not seen are of
    tokens the venue does not hold (`Marked`), so the equity a halt is judged by is the
    account's (`HaltInv`). Orders only lose value (`OrderWorth`), prices that move raise
    the true peak first.
* `ForecastProofs`: `ForecastTyped`, `EngineExclusion`, `SummaryAlways`, `ShownOnce`,
  `RoundsAreKept` and `SuccessSettles` from `ForecastInv`: a process at work owns
  `engine.lock` and has the saved rounds in memory, a saved state shows a verdict before
  its summary only where a run is about to put it aside or was killed there (`TornOK`), a
  process that frames a question where rounds are saved was told to start over, and what
  the saved rounds have shown has been dealt with or is about to be.

Assumed: what the modules' named `ASSUME`s say of the constants (positive scale,
percentages within 100, books, evaluations and theses of the right shape, finite sets of
tickers, tokens and markets), and three facts about numbers:

* `FeeAssumption` (`PaperPolicy`), that a fee is at most the price it is charged on: the
  venue sets the rates and the code does not clamp them, and with a higher rate a sale
  would cost money;
* `FillAssumption` (`DeltaPolicy`), that a mark less its slippage is at least one unit of
  price: the model divides in whole units where the code does not round, so the scale must
  be fine enough for the smallest mark;
* in `TradeExecutor`, that one half, the price booked for a refused order, is a price.

The numbers of markets, tickers, tokens, stories, processes, rows, cycles, crashes and
edits and the values of books, quotes and plans are arbitrary.

With TLC only: the liveness properties (`StopLossExits`, `TriggersAreServed`,
`CrashedLockIsReclaimed`, `StoppedPositionCloses`, `StopLossFires`). The prover handles
neither fairness nor `ENABLED`.

## 6. Where code and documents disagree

Each of the first four is a run that finds the behaviour.

* `lock_race`: `store.ts` says a manual run can never race the scheduler. A cycle may take
  longer than the 30 minutes after which its lock counts as abandoned (12 evaluations of
  up to 25 minutes); then a second run removes the live lock and both write the book.
* `lock_wedged`: `store.ts` says an abandoned lock is reclaimed. One whose process died
  between creating and stamping it has no readable stamp and is left for ever.
* `thin_book_flag`: `book-sim.ts` says `liquidityExhausted` means the book was thinner
  than the requested size. For a buy it is also set on a deep book when the fee carve-out
  leaves more than a cent unspent.
* `delta_halt`: delta-pm's `policy.ts` (5-7) says that the portfolio halt at a loss of 25%
  is enforced there. It is looked at only by the tick, and only while a position is held
  (run-cycle.ts 484): after the review has closed the last position at a loss, a book
  below the line is never marked and the next thesis is entered.

Noted while modelling, without a run of their own:

* `docs/risk-controls.en.md` (17) calls both pause and halted fail-closed. The executor
  refuses opens when halted only (queue-worker.ts 62), so what was queued before a pause
  is bought during it, and the admin's pause overwrites a halt (admin.ts 27).
* After a kill, `launch.lock`, `engine.lock` and the feedback's lock stay until an operator
  removes them. With the last of them in the way a start that has receipts to replay ends
  with the saved state as it was; after a round that was shown feedback a yes-or-no
  question ends its process with the saved state open (engine.ts 741), a structured one is
  saved as aborted.
* A resume that finds nothing to do writes no state; the service that started it shows an
  error.
* A `fresh` start uses the ledger ids of earlier rounds again.

## 7. Not modelled

| part | why |
|---|---|
| paper-agent: slug renames, fee refreshes, `totalFeesUsd`, texts, ledger entries that record no trade, market scan, reflection report | metadata of positions, and reports that change nothing |
| paper-agent: the product of `PaperService` and `PaperRuns` | composed by their common lock: `PaperRuns` is what its holder does, `BookLock` why there is one |
| delta-pm: leverage, cluster and isolated-margin caps, earnings veto, benchmark leg | further reasons to trade less; they read what the modelled vetoes read |
| delta-pm: venue state, analysis, status page | network reads, model calls and presentation; what they return are the quotes and theses of `DeltaBook` |
| executor: liquidity cap, artifacts, cancelling of open orders | a further clip of an order, files, a log line |
| executor: `execution_amount` of a buy, in dollars (queue-worker.ts 45-48) | the modelled cycle does not set it for an open; the persistent runner's dispatch does (runtime/execution-dispatch.ts 91-92), to the decision's `notional_usd`, which is what a buy without it uses |
| orchestrator: pulse, runtimes, reports, planning | prompts to models and parsing of their text; the plan that results is a choice of `TradeDesk` |
| orchestrator: resolution tracking | reads and records sources, changes no position |
| forecast-engine: probabilities, retrieval, prompts | floating-point updates and model calls; what they lead to is a choice of the rounds |
| forecast-api: quota and invites | one synchronous read-modify-write of a file each, in one process |
| `packages/db`: local state | stands in for the database; the rows the executor uses are in `TradeExecutor` |
| sports, FIFA and World Cup models | floating-point statistics without state |
| web, terminal, scripts, vendored code | presentation, operations and third-party code; most of the repository's lines |

## 8. What could come next

Everything planned for the four systems is modelled and checked, and all safety properties
are proved. What would add most: two tickers in `DeltaBook`, with the caps on clusters and
on isolated margin; the recovery of a structured round from its saved attempts in
`ForecastEngine`; two tokens in `TradeDesk`, for the event cap across positions.
