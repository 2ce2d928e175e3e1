# Verification of the trading core

TLA+ models, TLC runs and machine-checked proofs for the part of this platform
that decides on, places and ends trades: from the market data and the producers of
intents over the risk gateway, arbitration, order management and capital
reservations to the exits, reviews, operator tools and accounts, and what threads,
crashes, late answers and restarts do to them.  Everything is translated from
`src/trading/` (paths below are relative to it); the documents under `docs/` are
quoted where they state what the code should do.

- `PROJECT.json` lists the components, the runs, which source lines each
  definition stands for (`map`), the hazards, the findings and the theorems.
- `tlc -workers 2 -config X.cfg M` model-checks a run, `tlapm M_proofs.tla`
  checks the proofs of a module.

## 1. The system

One Python process, `PaperSession`, trades Indian index options and commodity
futures against a paper broker, in four modes (M1 to M4) that share a book.

| Part (files) | State it keeps | Operations | What makes it correct |
|---|---|---|---|
| State machines (`domain/state/`) | none: the legal edges of orders, trades, reservations, system mode | `can`, `transition` with a trigger | no illegal edge is taken anywhere else |
| Data pipeline and feed (`data/`, `runtime/candidates.py`) | captures with their times, backoff, REST budget | fetch, serve from cache, merge chains | what claims an age has it |
| Producers (`strategies/`, `identification/`) | none: functions of a snapshot | load chains, read trend, bind contracts, propose | a proposal is what its slot and family say |
| M1 events (`runtime/cas_event_path.py`, `m1_*`) | pending event, attempts of the day, `m1_episodes.json` | ingress, build, gate of a slot | the attempts of an episode are bounded |
| Entry evidence (`safety/paper_data.py`, `risk/gateway.py`) | the evidence of one request | assess, age, days to expiry | missing or stale data opens no trade |
| Arbitration (`portfolio/arbitration.py`) | none | same-day filter, duplicates, caps, overlap | no duplicate exposure; caps kept |
| Risk gateway, sizing, payoff (`risk/`, `options/`) | none of its own | `evaluate`: gates, sizing, limits, reservation | what is reserved covers what can be lost; limits kept |
| Planner (`oms/planner.py`) | none | entry plan from an approved trade | the long leg precedes the short it covers |
| Reservations (`risk/reservation.py`, `storage/trading_store.py`) | the reservations table, the key registry | reserve in one transaction, commit, release | holds fit the capital; each is released by the event that ends it |
| Mode ledgers (`risk/mode_ledger.py`) | reserved and margin per mode, the result of the day, in memory | `try_reserve` (locked), fills, releases (not locked), rebuild | agrees with the holds; global envelope kept |
| OMS (`oms/engine.py`) | latest event per idempotency key, in memory; the append-only `order_events` log | `submit_plan`, `_submit_one`, `_persist`, replay at start | an order is durable before the broker has it, sent once, frozen when unknown; a plan stops behind a failed leg |
| Rate limiter (`oms/rate_limit.py`) | two windows of submit times | `check_and_consume` | a refusal between legs is survivable |
| Paper broker (`broker/paper/`) | orders, positions and funds, in `broker_state.json` | submit, positions, start-up repair from lifecycle rows | one fill per key; its positions are what was filled |
| Fyers adapter (`broker/fyers/`) | orders by key, in memory | submit, status, cancel, mapping | a timeout is unknown, never a rejection |
| Trade manager (`trade/manager.py`) | one position per trade, in memory | entry fills, exit request, exit fills and failures, close, abort | it follows confirmed events only; a close releases capital once |
| Runner, cycle (`runtime/paper_runner.py`) | entry freeze, evidence | `run_cycle`, `_execute_strategy_eval`, `_submit`, `_abort_incomplete_entry` | no entry on unreconciled state; entries are whole or undone |
| Runner, exits (`runtime/paper_runner.py`) | the open book, lifecycle rows | `manage_exits`, `_resume_inflight_exits`, `_submit_exit`, recovery | every prefix of an exit is a safe position; an exit in flight settles |
| Exit policy (`trade/exits.py`, `discovery_exits.py`) | policy per trade | build, evaluate, tighten, trail | stops never widen; bounds lie within what the structure can do |
| Reviews, carry, roll, campaigns (`trade/`, `portfolio/campaign_drawdown.py`) | review slots, carry and transition records, campaigns | slot, partial exit, carry gate, replacement | each review acts once; closes are accounted; nothing is carried without a decision |
| Charges and accounts (`portfolio/`) | charge rows, campaigns | record, backfill, net | no close without its charges; campaign limit kept |
| Reconciliation (`portfolio/reconciliation.py`) | none | compare broker and store at a cycle's start | drift blocks entries; a healthy book does not |
| Safety controls (`safety/`) | freeze, degraded control, protection marks | freeze, release, replay | a freeze survives a restart and can be left again |
| Protection (`runtime/protection.py`, quote monitors) | quote cache, dirty flag, pending REST snapshot | WebSocket callback, `tick` from two threads | no adverse quote goes unjudged |
| Session loop (`runtime/paper_session.py`) | review slots, heartbeat | build snapshot, cycle, exits, reviews | keeps calling `manage_exits` |
| Operator tools (`ops/`) | edits log, row and broker file | retry stuck exits, reset the portfolio | nothing exited twice; a command that ends well leaves what it says |
| News, universe, analytics, agents, dashboard, operations, configuration | little or none | reports, advice | outside this project, see section 8 |

How the parts meet:

- **Data to intents.** A poll loads the chains its day needs through the feed's caches,
  the producers bind a contract for each slot and propose intents; M1 instead is asked
  on quotes, from the poll or the protection thread.
- **Entry.** `run_cycle` reconciles, derives whether entries are blocked, filters and
  arbitrates, and evaluates the intents one by one: gateway → reservation (durable
  hold, then mode ledger) → planner → `OmsEngine.submit_plan` → broker; fills go to
  the trade manager, the last one commits the hold, then the mode ledger, the
  campaign, the first lifecycle row and the charges follow.
- **Exit.** `manage_exits` asks the exit policy, writes the request to the
  lifecycle row, submits the exit plan through the same OMS, writes the order ids
  to the row, applies the events, releases the capital, writes the row again. Reviews
  and the carry gate use the same path, in whole or in part.
- **Two threads.** The session thread calls `manage_exits` and
  `ProtectionCoordinator.tick`; the thread `paper-protection` calls the same `tick`, and
  from it M1's cycles.  Neither takes a lock.  The WebSocket callback, a third thread,
  writes quotes.
- **Restart.** A new process replays the order log, repairs the paper broker from
  the lifecycle rows, restores the trades of the open rows, rebuilds the mode
  ledger from pending holds and open rows, and replays freeze, reviews and campaigns.

The hard behaviours follow: a process that dies between any two of those writes,
two threads in the same exit, a broker that answers late or not at all, one leg
of several failing, an in-memory ledger beside a durable table, values read once per
cycle and used after it, retries that meet the traces of an earlier attempt.
`PROJECT.json` lists each at its line under `hazards`, with the properties that would
catch it.

## 2. The modules

| Module | Models | Used by |
|---|---|---|
| `StateMachines` | the order, trade and reservation machines: their edges and `StateMachine.can` | `OmsEngine`, `PaperExit`, `EntryCycle` |
| `LogicalOrder` | what submission promises, abstractly: commit before the broker, at most once, in plan order, unknown stays unknown | refined by `OmsEngine` |
| `OmsEngine` | `submit_plan` over log, memory and any adapter, with callers and crashes | `MCOmsEngine` |
| `PaperExit` | the full exit of one multi-leg trade | `ExitRecovery` |
| `ExitRecovery` | the operator's retry and reset over `PaperExit`, one process at a time | |
| `EntryCycle` | entries of one mode and their capital | `MCTradeLife` |
| `EntryGate` | the gate of a cycle: protection marks, controls, freeze | `MCProtection` |
| `Protection` | how quotes of held symbols reach the exit policy, over two tickers and the sockets | |
| `TradeExits` | the exit policy of one trade: evaluation, application, record | `MCServices` |
| `StructureExits` | the bounds that the fills of a structure give its policy, and their evaluation | `MCTradeLife` |
| `Holding` | how long a trade is held: time exit, reviews, carry gate over the days | `MCTradeLife` |
| `ReviewDesk` | how reviews, partial exits, rolls and carries reach the records | |
| `Accounts` | charges, campaigns and the rebuilt ledger | `MCTradeLife` |
| `Payoff`, `Sizing` | expiry value and the sizing engines, as operators | `RiskGateway`, `StructureExits` |
| `RiskGateway` | `evaluate` and the planner, for one mode | `EntryPipeline` |
| `Producers`, `EntryPipeline` | from a scene of the market to intents; these composed with the gateway | `MCRiskGateway` |
| `Arbitration` | filters, arbiter and the cycles of two threads | `MCArbitration` |
| `EntryEvidence` | the evidence of one entry as time passes between its checks | `MCServices` |
| `M1Events` | ingress, attempts and the file that counts them | `MCServices` |
| `Feed` | caches and backoff up to the candidates | `MCServices` |
| `MC...` | values for TLC; `MCOmsEngine`, `MCServices`, `MCTradeLife` and `MCProtection` also put components that share no state side by side: the first state, or the specification, says which moves | |
| `*_proofs` | theorems about the module they extend | |

`OmsEngine` treats the adapter generally (any answer, timeouts, errors, an
adapter that forgets its own duplicate check).  `PaperExit` and `EntryCycle` each
contain the engine's steps again, specialised to what the paper broker can
answer, because what matters there is what happens between the engine's writes
and the writes of the runner, the trade manager and the reservation.

### 2.1 OmsEngine

A plan is its legs `1..N`; a leg is also its idempotency key.  `Plans` are plan
objects: two of them have the same keys and different internal order ids, which
is what a second planning of the same trade gives.

| State | Code |
|---|---|
| `durable` | per key, the event that a replay of `order_events` leaves: the latest `received_at`, of equal ones the later row |
| `cache` | `OmsEngine._latest_by_key` |
| `broker`, `placed` | the order at the venue, and how often the venue took it (a history of the environment) |
| `memo` | the adapter's `orders_by_idempotency_key` |
| `now` | the clock; stamps matter because CREATED, SUBMITTING and UNKNOWN of one call share one stamp |
| `call` | per thread, the step `submit_plan` is at |

One step is one read of the cache, one durable write, or one exchange with the
broker: `LookupKnown / LookupUnknown / LookupNew` (the early part of
`_submit_one`), `RateLimited`, `PersistCreated` (with its key, in one
transaction, and the rollback and replay when the key is taken),
`PersistSubmitting`, `BrokerSeesKey / BrokerSeesNone` and `BrokerReplies /
BrokerTimesOut / BrokerFails` (the adapter looks, then acts, so that two threads
can both look first), `PersistUnknown`, `PersistFinal`.  `Begin` is a caller,
`Expired` the expiry check of a plan, `BrokerAdvances` a working order moving at
the venue, `Crash` the end of a process and the replay of the next.

### 2.2 PaperExit and ExitRecovery

The state is what the code keeps for one trade: the exit order's latest event in
the log, in memory and in `broker_state.json`; the broker's legs; the trade in
`TradeManager._positions`; the lifecycle `row`; the reservation; membership in the
open book; and the step every caller is at.  `Judge → RequestExit → WriteRequest`
is the head of `manage_exits`, `Resume / AdoptRecorded` the branches of
`_resume_inflight_exits` and `_submit_exit`, `PlanExit / NoPlan` `_exit_plan`, then
the engine's steps, then `RecordIds`, one `Apply...` per event, `ReleaseCapital`,
`Settle`.  `SaveBook` stands for the writes of the row between exits.  `Crash`
replays the log, repairs the broker (`Repaired`) and restores the trade.

`ExitRecovery` adds a process: the session or a command that has opened the same
files (`file` is `broker_state.json` apart from the broker in memory, since the tools
edit the latter).  Its steps are the purge of failed orders and keys, the second
submission (`BrokerSubmits` over the file) and the reset, each of which may be the last
one before a kill.

Abstracted: exit order ids stand for their legs; the policy is a nondeterministic
`Judge`; submission at the paper broker is one step; the trade manager's updates are
one step each; `Logged` lets either event stay in the log when two threads write one
key, which over-approximates the order of their stamps; a command beside a running
session is left out.

### 2.3 EntryCycle, EntryGate

`EntryCycle` is one mode; every intent risks one unit of capital.  `hold` is the
reservations table, `keys` the registry of idempotency keys (used by the entry profile
DISCOVERY only), `ledger` the mode's reserved and margin capital, `log`, `order`
and `exited` the orders, `trade`, `row`, `inBook` the runner's books, `profile` the
configured entry profile, `cycle` and `closing` the steps of the two activities.

`BeginCycle` reads the gate (`Blocked`: the reconciler's comparison, orders without
outcome, rows that do not match; DISCOVERY tolerates all of it) once per cycle,
as the code does.  `Reserve / ReserveTooMuch / ReserveRefused`, `RegisterKey`,
`ReserveInBook` are the gateway's two-part reservation; `LookupKnown`, `Submit`,
`BrokerAnswers`, `PersistAnswer` the engine; `ApplyFill / Finish / Abort` the rest of
`_submit`; `Close`, `ReadLedger`, `WriteLedger` a close with the unlocked read and write
of `release_open_risk`; `ApplyRaises` an exception that ends the process: the commit of
a hold that is gone, or the fill of an earlier attempt of an intent that is emitted again,
since every plan has a new trade id and `_planned_entry_price` finds no pending entry
for the old one; `Crash` a kill; both are followed by `Restart`.

Abstracted: equity is constant (results are `Accounts`'); sizing, arbitration and the
checks before the reservation only decide which intents arrive, so any batch
does; a close is one step, because its own steps are those of `PaperExit`; the
DISCOVERY limit is `100 * Capital`, as in the code; a restart keeps the profile.

`EntryGate` has what the gate reads: per trade its position in memory, its row, its
`ProtectionStateRecord` and the verdict on its quotes; `SafetyControls.state` and the
durable `EntryFreezeRecord`.  A thread captures the positions when its loop begins,
judges them one by one and puts a copy back (`restore_position`), marks or recovers
protection, and derives or releases the freeze.  `ExitAnswered` is what comes of an exit:
all legs gone, the trade open again, or some legs left, CLOSING, of which the row may not
tell yet.  `_derived_block_reason` asks for the mark before it asks for the state: in
memory a closed trade with a mark blocks (one that was flattened without a monitor keeps
its mark until a restart), a CLOSING one without a mark does not.  `judged` and `crossed`
are histories: what the last look found, and whether a copy went back over another
thread's write.  Left out: exit orders of unknown status and the freeze they cause.

### 2.4 Protection

`snap` is `PaperRunner._protection_snapshots`, `seen` the coordinator's `_dedupe`,
`dirty` and `m1` its `_quotes_dirty` and `_pending_m1`, `carry` its
`_rest_carry_index`; `pending` and `index` are the REST monitor's snapshot and how
far it is delivered; `call` is the step of every thread with what it holds in local
variables; `ended` is a session that an exception has ended.  A quote is adverse if
the exit policy fires on it.

A tick is `BeginTick`, then the monitor's poll (`PollPending`, `PollTooEarly`, `Poll`,
`RateLimited`, `Fetch`, `SetIndex`), its delivery loop (`Open`, `TakeQuote`,
`Interrupt`, `Finish`, `ClearIndex`), the carry index (`Return`) and the deferred work
(`NotYet`, `Judge`, `Clean`, `OnlyM1`, `HandOver`).  A quote from the loop or from a
socket (`Push`) goes through `_on_quote`: `Repeated` or `Accept`, `Cache`,
`MarkDirty`, `MarkM1`.  `Raises` is the exception of a tick: the scheduler's loop
catches it (`Guarded`), the session's loop does not.

Abstracted: time is a choice, so an interval, the floor of the deferred work, the
tick's budget or the second of the repetition check may be over or not; a REST
answer has every symbol or none; the monitored symbols do not change and every one has
a snapshot; `manage_exits` is one step, the reading of the cached snapshots.
`judged`, `done` and `raced` are histories.

### 2.5 TradeExits, StructureExits, Holding

`TradeExits` is one trade of family PRICE (one bought leg with trail and break-even)
or PREMIUM (judged by its P&L, with confirmations).  `Manage` and `ReviewTrade` compute
an `Evaluation` (the tightened policy and the verdict), `Apply` is the trade manager's
take-over, `Write` the row, `Carry` an approved carry, `ExitAnswered` a refused or filled
exit; `Restart` reads the row back.  Prices are whole offsets from the entry's.

`StructureExits` builds the policy at every entry fill from the premiums paid (`Bounds`,
`Scaled`, `Ticked` for STRICT) and evaluates it against the marks of whatever legs are
left.  `Holding` runs the ticks of a trade's days: `Tick` takes an exit in flight up
again, then is `manage_exits` with the time exit, the due reviews and the carry gate in the
code's order.  Each of these may exit the trade, and an exit has three outcomes
(`Answers`): filled; refused, which makes the trade OPEN again (`apply_exit_order_event`);
or still in flight.  `Night` is a change of session over weekends and holidays, `Down` a
session that was not running; `unfilled` is a history, when the session last had an exit
in hand that did not fill.

### 2.6 ReviewDesk, Accounts

`ReviewDesk` has the state of each position, its durable row with reviews, order ids,
roll and campaign, the exit orders in the log, the slots of the day and the campaigns.
`call` is what the session thread is doing, with `back` saying where the exit in hand
returns to: the plain exit, a review's record, or a carry's.  `BeginReviews` takes due
slots (several when a recovery covers them), `Decide` any review action for any eligible
trade, `RequestExit … Submit, WriteIds, Apply, Settle` the exit of a quantity, `Advance`
the roll, `RecordClose` the campaign; `Restart` restores from rows, log and slots.

`Accounts` follows one mode's trades from fill to charge, campaign, row and close in
the code's order of writes; `Crash` and `NextDay` are starts, which alone rebuild the
ledger (`Rebuilt`) and fill in missing charges.

### 2.7 RiskGateway, Sizing, Payoff, Producers, EntryPipeline

An offer is what the gateway is given: legs with kind, side, strike and ratio, quotes,
a family, the gates that fail, what the broker says of margin.  `Evaluate` is the whole
of `RiskGateway.evaluate`: structure detection (`Detected`), the sizing engine of that
structure, DISCOVERY's second sizing, the pre-trade limits and the reservation; `Build`
is the planner, `PlannerRefuses` its exception, `Enter` the fill that turns reserved risk
into margin; `NextCycle` takes a new snapshot.  The snapshot of the cycle (`snap`) is
read by every intent of it, as in the code.  Amounts are whole ticks.

`Producers` is written as operators over a scene (expiries, chains, bars, directional
reads): which chains are loaded, trend and volatility, the binders of M2, M3 and M4,
the strategies and the family check; `EntryPipeline` hands what they propose to the
gateway.  A binder's ranking is abstracted: any bindable contract may come first.

### 2.8 Arbitration, EntryEvidence, M1Events, Feed

`Arbitration`: `trades` in memory and in rows, `holder` the pending M1 event, and per
thread the stage of its cycle: poll, event, look (the open trades and the day's), weigh
(the arbiter), execute, write.  `EntryEvidence`: one request with its legs' times and
qualities, and a clock that passes between `Screen`, `Propose`, `Judge` and `Plan`.
`M1Events`: `holder`, `attempts`, the file (`ledger`, torn while it is written in place)
and the work of each thread.  `Feed`: what is cached when, the backoff, the session's
own cache of supplemental chains, and the candidates with the times they claim.

## 3. The runs

| Run | Instance | States | Shows |
|---|---|---|---|
| `oms` | 2 legs, 1 caller, 2 plan objects, every answer of a broker, forgetful broker, crashes; beside it 1 leg, 2 threads, the paper broker's outcomes | 64 634 | SubmitOnce, LocalOutcomeIsBrokers, BothWriteFirst; implements LogicalOrder |
| `exit_crash` | iron condor, crashes between any two steps, fairness | 29 444 | CoveredUnlessCut, ClosedRowFreesCapital, ReleasedOnFills, ExitSettles |
| `exit_commands` | spread, 2 session threads, the operator's retry and reset with quotes for both legs or the long one, processes that die between any two steps | 2 304 973 | ExitedOnce, RetryCloses, ResetIsFlat |
| `protection_ticks` | 2 symbols, one thread that ticks and a socket that knows one of them, fairness | 102 401 | SnapshotDelivered, AdverseIsJudged |
| `entry_gate` | 2 trades, both threads (the protection thread has one of the trades), 1 crash, fairness | 429 161 | GateSeesVerdicts, Reopens |
| `review_desk` | 2 trades of 3 lots, 2 slots, 2 days, 1 crash | 1 011 907 | FillsCounted, ClosedIsSettled, ActsOnce, SlotReviewed |
| `services` | one of: exits (5 prices, 1 crash), evidence, M1 events (3 attempts, 1 kill), feed (4 ticks) | 359 282 | BestStop; EntryDataHeld; AttemptsBounded; PricesDated |
| `gateway` | hand-made and produced offers of every structure, both profiles, 2 trades, 1 refusal of the planner | 256 784 | LossCovered, LimitsKept, PrefixCovered, PayoffIsWorst, GainsWithTrend |
| `arbitration` | menu of 4, cap 1, 2 threads, batches of 2, 2 trades, 2 days, crashes | about 1 566 000 | DuplicateFree |
| `trade_life` | one of: entries with crashes (3 intents, equity 2, STRICT), steady entries (both profiles, batches of 3, envelope 2), holding (5 days), bounds (10 structures, fills a tick around the plan), accounts (2 trades, 2 days, 1 crash) | 238 720 | HoldsFit, NoEntryBesideOrphan; SteadyLedger, SteadyHoldings; HeldByDecision, NothingExpires; BoundsReached; ClosedIsCharged, CampaignBounded |
| `carry_thesis` | the holding part | stops | CarriedOnFreshThesis is violated |
| `day_loss` | the accounts part | stops | DayLossBlocks is violated |

Every passing run is exhaustive.  Why the bounds are enough:

- *Legs.*  Two legs show every relation of an earlier and a later leg; the OMS
  properties relate at most two legs, and the theorems are for any number.  The exits
  use a condor, whose entry order is not its exit order.
- *Callers.*  The program has two, and so have `exit_commands`, `entry_gate`,
  `arbitration` and the second half of `oms`; the other runs have one, because their
  properties need that, and the comments and section 5 say so.
- *Symbols.*  Two: one that a socket also pushes and one that only the poll brings.
- *Crashes and retries* are not bounded in `oms`, `exit_...`, `arbitration` and the
  entries of `trade_life`: states recur.  Elsewhere `MaxCrashes` is 1, one kill being
  what a property tells apart from none; a second one starts from a state that a
  first one leaves.
- *Capital.*  The steady entries have an envelope below the number of intents and the
  crashing ones an equity below it, so both refusals occur.
- *Emission.*  `MaxAttempts` 3 lets an intent come back after its close and after
  its rejection, and once more after the process has ended on its old fill; `Batch` 3 lets one cycle follow an abort with two more intents.
- *Time.*  `Feed` has periods of 1, 2 and 4 ticks over a horizon of 4; `EntryEvidence`
  times from 4 to 11 around a start of 10, so that every age is met on both sides of
  its limit; `Holding` two gaps (a night, a weekend) and expiries up to 5 days off.
- *Quantities.*  A position of 3 lots can be halved twice; results, fees and prices are
  chosen on both sides of the limits that the code compares them with.

`CHECK_DEADLOCK FALSE` stands where bounded intents, days or crashes run out.

Each property of a passing run is also checked against a mutant of the code's own
logic (definitions marked `Mutant:`): a restart without replay, an abort that frees
only the durable hold, a rejected carry without its exit, a trail that forgets the best price, a slot recorded before its
reviews, a gate on the captured copy, a credit stop without its cap, and so on.  Each
is found.

## 4. Fairness

`ExitSettles` (`FairSpec` of `PaperExit`): weak fairness of `Resume` and
of every step of a call, because the session loop calls `manage_exits` on each
iteration and a Python call runs to its end while its process lives; strong fairness
of `PlanExit`, because a plan needs a quote for every leg at the same time and
quotes come back again and again without staying.  Nothing is assumed of crashes,
of the broker's answers or of the policy; the property speaks of behaviours in
which crashes eventually end.

`AdverseIsJudged` (`FairSpec` of `Protection`): weak fairness of the scheduler's ticks
and of the steps of every call, because the scheduler's loop ticks on a timer; strong
fairness of the steps that wait for time (the next poll, a judgement past the floor, an
unchanged quote in another second), of a provider answer with quotes, and of the first
delivery within a tick's budget.  The session thread is assumed to do nothing.

`Reopens` (`GateSpec` of `MCProtection`, with `Fairness` of `EntryGate`): weak fairness of
each thread's steps, and strong fairness of the session's cycle and of a cycle that
reconciliation does not block: the loop goes on, and the reconciler, whose verdict is a
choice here, does not refuse for ever.

## 5. What the runs found

Two statements of the repository's documents are contradicted by the code; each has a run
whose counterexample is a short trace (`findings`):

1. **A carry is approved on evidence made up at the gate** (`carry_thesis`).  Without
   a market state of the session `resolve_carry_market` infers one from the setup or the
   bet of the trade and dates it now.
2. **A mode that lost its budget today goes on** (`day_loss`).  The ledger's result of
   the day is set only by the rebuild of a start; nothing calls `daily_loss_breached`.

Further counterexamples are kept as configurations, with the module that each belongs to.
They delimit the properties that hold:

| Configuration | Violated | What happens |
|---|---|---|
| `OmsEngine_race` (`MCOmsEngine`) | BothSubmitOnce | `_submit_one` looks up, persists and calls the broker without a lock: two threads submit one order twice |
| `PaperExit_uncovered` (`PaperExit`) | Covered | a leg that a crash left at CREATED or SUBMITTING is returned as a result, is no stop state, and the plan sells the long under a held short |
| `EntryCycle_balanced` (`EntryCycle`) | HealthyBookTrades | `_expected_open_trade_ids` nets signed quantities: a whole spread reads as drift |
| `EntryCycle_race` (`EntryCycle`) | GlobalCapKept | `release_open_risk` is outside the lock of `try_reserve` and overwrites a reservation |
| `Protection_race` (`Protection`) | TickLives | one ticker clears the pending snapshot while the other delivers it; the session loop does not catch the TypeError |
| `Arbitration_poll` (`MCArbitration`) | PollLeavesM1 | the poll's build takes the event that the quote handler is about to use |
| `Arbitration_theses` (`MCArbitration`) | OneThesis | the arbiter is given positions, which carry no intent, so overlap and conflict never see open trades |
| `RiskGateway_slots` (`MCRiskGateway`) | SlotsKept | the account's cap on trades is judged on the snapshot of the cycle's start |
| `ReviewDesk_reload` (`ReviewDesk`) | RowsReadable | `model_copy` writes a review record that `model_validate` refuses to read back |
| `TradeLife_bounds` (`MCTradeLife`) | StopBelowMaxLoss | four legs have no width: a credit above half of the wings has its stop past what the structure can lose |

`Services.cfg` shows, with one part and one of these as its invariant (`PollFeeds` as its
property): `DaysKept`, `SoftIsRecorded` (evidence: `_constraint_reason` gives its first
reason only, so a soft one hides CONTRACT_EXPIRED, and what a soft one lets through is not
recorded), `PollFeeds` (m1: `MarketQuote` has no time, so the poll never submits),
`AgeIsClaimed` (feed: an option candidate tells the times of the underlying).  With two
threads and `MaxCrashes = 0`, `NothingLoosens` (exits: an evaluation replaces a policy it
never saw) and `AttemptsBounded` (m1) fail.  `ExitRecovery.cfg` shows, with one of these as
its invariant, `CommandsSurvive`, `ResetReleases`, `RetryCovers`: an exit that was filled
and is not known ends each command in DuplicateBrokerOrderError; an administrative close
leaves fills in the log that block entries; quotes for the long leg alone uncover the short.

The passing runs bound the damage: `CoveredUnlessCut` says which two traces of a
crash can lead to an uncovered short and that nothing else does; `SteadyHoldings`
that an aborted entry is the only way to a position without capital (which does
happen: `_abort_incomplete_entry` releases everything, whatever has filled, against
invariant 14); `ReleasedOnFills`, checked with one thread and proved for any number, that
even two racing threads free capital on fills only;
`HoldsFit` that no interleaving or crash over-commits the durable table; `DuplicateFree`
that duplicates are only ever M1 trades of two threads; `ClosedIsSettled` and `ActsOnce`
that a review is repeated and a close forgotten only where a kill came between the fill
and its record, or the exit was adopted from recorded ids.

Some properties hold only on the instance their run names, which the module's
comment or the hazard says.  With the constants changed TLC shows:

- `ClosedMeansFlat` fails under `Spec` of `PaperExit`: the start-up repair writes the
  legs of an older row over the broker's, and a closed trade has a leg again;
- `Covered` fails with two callers;
- `SnapshotDelivered` and `AdverseIsJudged` fail with two tickers: a new snapshot is
  delivered from the other thread's carry index;
- `NothingForgotten` without `~raced` fails: a quote that a socket caches while
  `manage_exits` runs has its flag dropped with the others';
- `NoEntryBesideOrphan` fails with `Batch = 2`: the gate is read once per cycle, so the
  next intent is submitted beside the leg an abort has just left;
- `LedgerMatchesHolds` without `EmittedThrice` fails under STRICT: an intent that is
  emitted again after its trade reserves again and ends the process on its old fill, the
  third emission takes the pending hold, adds to the ledger once more and releases once.
  With `Crash` it fails, too, between the commit of a hold and the first row;
- `Reopens` without `Settled` fails: a trade that was flattened without a monitor closes
  with its mark, which blocks the entries until a restart;
- `HeldByDecision` without `unfilled` fails: an approved carry has no time exit any more,
  so one that a later session rejects has one exit, and is held overnight if it is
  refused; `NothingExpires` likewise, when the exit of the expiry rule is refused;
- `EntryCovered` fails with `Concurrent = TRUE`: the protection thread may close the
  long leg while the short one is being submitted.

Met while modelling, without a run of their own: the break-even rule can be overwritten
by a lower trail and a tightening ignores the side; `StopSentinel.on_tick`,
`run_condition_observations`, the global halt and the per-mode controls have no caller; an
exit plan without quotes for a partial exit is resumed as a full one; a PlannerError
leaks its reservation; a watched leg cheaper than the ticks of its stop raises in
`build_exit_policy`; `_constraint_reason`, `strict_would_block_p0` and the DISCOVERY
fallback of M2 cannot return part of what they name; closes found by adoption record
neither campaign nor charge until the next start.

## 6. What is proved

TLAPS checks these for every value of the constants that meets the modules'
named assumptions.  Most are types and bounds (legs are numbers, outcomes are those an
adapter has, capital is a natural number, sets of intents are finite).  These say more,
and TLC evaluates all of them on the values of the runs:

- `TrailLocksIn` (`TradeExits`): a trail starts beyond the entry, as every strategy's
  template has it;
- `RequestsAssumption`, `SpotsAssumption` (`RiskGateway`): an offer has whole prices, buys
  or sells one of each leg, two of a butterfly's body, and two options of one kind are
  bought and sold, as the strategies do; the spots to look at hold zero and every strike;
- `PipelineAssumption` (`EntryPipeline`): an offer with a scene is one that a strategy
  proposes in that scene, and some spot lies above its strikes;
- `AccountsAssumption` (`MCTradeLife`): a trade's result, less the estimated cost of its
  two fills, is within the risk it was approved with;
- `BoundsAssumption` (`MCTradeLife`): a plan of one leg buys it, a plan of two is a
  vertical, a straddle or a strangle, and a vertical is filled for less than its width.

| Module | Theorem | Beyond the named assumptions | Inductive invariant |
|---|---|---|---|
| `OmsEngine_proofs` | TypeCorrect, DurableFirst | | `CallsLogged`, `StampsPast` |
| | SubmittedOnce, FailureStopsPlan, OutcomesAreTheBrokers, UnknownIsFrozen, PromiseKept | `OneCaller` | `OneCallerInv` |
| `PaperExit_proofs` | TypeCorrect, CapitalFreedOnFills | | `OnFills` |
| | IdsAreLogged | | `LogInv` |
| | ClosedFreesItsCapital | `OneCaller` | `ClosedFrees` |
| | CutExitIsCovered | `OneCaller` | `CutInv` |
| | SteadyExitIsCovered, SteadyCloseIsFlat | `OneCaller`, no crash | `CoverInv` |
| | ExitsHappenOnce, ResetsLeaveNothing | | `RecoveryInv` |
| | RetriesClose | | `RetryInv` |
| `EntryCycle_proofs` | TypeCorrect, HoldsFitEquity | | types with `LegInHand` |
| | NoEntryBesideAnOrphan | `Batch = 1` | `OneByOne` |
| | SteadyLedgerMatches, SteadyHeldOrAborted, SteadyCapKept, SteadyEntryCovered | no kill, `Concurrent = FALSE` | `SteadyInv` |
| | DecidedHolds, ExpiriesMet | | `HoldingInv` |
| | BoundsAreReached | | `BoundsInv` |
| | ClosesAreCharged, CampaignsKeepLimit | | `AccountsInv` |
| `Protection_proofs` | TypeCorrect, NoQuoteForgotten | | `Unraced` |
| | GateSees | | `GateInv` |
| `Arbitration_proofs` | TypeCorrect, OneMind, NoDuplicates | | `DuplicateInv` |
| | CapIsKept | | `RoomLeft` |
| | EnteredOnceADay | | `DayInv` |
| `TradeExits_proofs` | TypeCorrect | | |
| | StopsNeverLoosen | `OneThread` | `RowFollows` |
| | StopIsTheBest | `OneThread` | `StopIsBest` |
| | EvidenceHeld | | `EvidenceInv` |
| | AttemptsAreBounded | `OneThread` | `M1Inv` |
| | PricesAreDated | | `FeedInv` |
| `RiskGateway_proofs` | GatewayHolds, ModeStaysInLimits, ReservationCoversLoss, PrefixesAreCovered | | `GatewayInv` |
| | PayoffFindsWorst, DirectionAgrees | | `OfferAsked` |
| `ReviewDesk_proofs` | DeskHolds, TypeCorrect, ClosesAreSettled, ReviewsActOnce, SlotsAreReviewed | | `DeskInv` |
| | FillsAreCounted | | `SalesInv` |

`OneCaller` and `OneThread` say that one thread of the program does this work, which is so
in a session without the protection thread.  With two, the statements at the centre
(SubmitOnce, Covered, NothingLoosens) are false, as section 5 shows, and not merely
unproved.  Nothing is proved of a single ticker: a session with the protection thread always
has two, and with two TickLives is false.  `Batch = 1` is a cycle that approves one intent; with two
NoEntryBesideOrphan is false.  `Concurrent = FALSE` is a session that closes its trades
between its cycles, in the one thread of `PaperSession`; with the protection thread
beside a cycle GlobalCapKept and EntryCovered are false, and with a crash
LedgerMatchesHolds is.

**OmsEngine_proofs.**  `DurableBeforeBroker` is not inductive: it is strengthened by
`CallsLogged` (a caller about to send has its event in the log, and a CREATED that is
still there is not younger than the caller's own stamp) and `StampsPast` (no stamp is
ahead of the clock), because SUBMITTING replaces CREATED only if its stamp is not older.
`OneCallerInv` says: the cache is the log; what is known of the leg in hand at each stage
(`InHand`: when it may be absent, what the broker and the memo hold, that every leg
before it is good and none after it is recorded); and what the log says of every
leg (`LegInOrder`).  From it, on steps, `PromiseKept`: every step of the engine is a step
of `LogicalOrder` or leaves its variables alone.

**PaperExit_proofs.**  `OnFills`: an event FILLED in log, cache or hand is the broker's
fill, a call in its release stage has seen every leg filled, and the legs missing from
trade and row are filled.  `LogInv`: whatever order id is in a row, a call or the cache
has its event in the log.  `CoverInv` (no crash): the broker holds exactly what has no
fill, an order without outcome is the one in hand, and a plan in hand still contains every
short that is not bought back.  With crashes `CutInv` replaces it: an order is answered,
stuck (the trace of a kill before or behind its submission) or in hand, and a plan gets to
a long only past shorts that are done; the only other source of an uncovered short is the
repair's phantom leg.

`RecoveryInv` is about the operator's commands (`ExitRecovery`): one call at most is at
work for a command (`OneAtWork`); what each step of a portfolio reset leaves for the next
one (`ResetSteps`); and either the trade is over and nobody works on it, or what is filled
is filled in memory, in the file and in the count alike (`SameFills`), which is why no exit
is recorded twice, whatever is killed and retried.  `RetryInv` adds the shape of the plan in
hand and what a retry that met no failure has in hand at each stop (`CleanSoFar`): it gets
to the close only with every leg filled.

**EntryCycle_proofs.**  `HoldsFitEquity` is inductive with the types: the in-memory ledger
may be wrong in every way, but the limit taken from it never exceeds the equity, and the
store checks and writes in one transaction.  `NoEntryBesideAnOrphan` needs what a cycle of
one intent knows at each stage: no order without outcome but the one in hand
(`NoneDangles`), a trade in the book is whole or the one in hand (`TradesWhole`), what the
cycle has seen is what the log says (`SeenSoFar`), and so that the gate's comparison,
made at the cycle's start, still speaks of every other position (`NoOrphan`).

The four Steady theorems are for any number of intents and of emissions, under both
profiles.  `SteadyInv` says that every intent but the one in flight is settled (`InHand`:
it never sent an order, or is an open, a closed or an aborted trade, and then its log, its
orders, its row, its trade and its hold agree); that the one in flight is either sent by
this attempt, leg after leg, or answered from the log of an earlier one; that an intent
which the profile's memory calls new has never sent an order (`Emitted`); and what the
ledger counts (`Accounted`): margin is the committed holds of the others and the close
under way, reserved is at least the pending ones and the entry in flight, and exactly
that unless STRICT emitted an intent a third time.  A second emission ends the process on
the old fill, which is why the steps of these theorems include `ApplyRaises` and its
restart; the hold that it leaves is pending and counted (`Pending`), and only a third one
may reserve beside it and release once.  The envelope needs only the inequality, the
agreement between ledger and holds needs the equality.

The last sections are about the trades that the cycle leaves, with the components of
`MCTradeLife` side by side.  `HoldingInv` says that a carry rejected in this session had
its exit at the cutoff or later and that a time exit of M2 ends with the first approval
(`Judged`); that a trade of M2 behind its first day is one that a review looks at, or its
time exit stands, or it was leaving when its carry was to be decided (`Passed`); and that
on the day of the expiry every slot behind that was sure of its prices had an exit of it
(`Looked`).  An exit may be refused at any of these steps, so none of them says that the
trade is gone.  `BoundsInv` ties the exit of a structure to its
legs: while the structure is whole its policy is the one of its own bounds
(`PolicyHolds`), while it stands although an exit is asked for the confirmations are
counted (`JudgedHolds`), and the bounds lie within what the legs can lose or gain
(`ExitLeastIs` for each structure, at any strikes and fills).  `AccountsInv` says that
fills, rows and charges agree (`RowFilled`, `Chargeable`) and that a campaign has one close
at most that its losses do not hold yet, with its risk still inside the limit
(`CampaignKept`), for any number of campaigns and trades.

**Protection_proofs.**  `Unraced`: as long as nothing raced at most one thread is at work,
an adverse quote that was never judged has the flag up or its thread is about to set it,
and a thread about to drop the flag has judged everything adverse.
`GateInv` (`EntryGate`): a bad last look at a trade shows in its mark unless two copies of
the trade crossed, also when its exit is filled in part; two threads that mark one trade
have crossed; a row is the position except where a thread is about to write it, or a part
of an exit has filled and the row still says EXIT_PENDING; and a session that looks at its trades
has looked at every one but those still in its hand.

**Arbitration_proofs.**  `DuplicateInv`: what two live trades, or a live trade and a
candidate in hand, may have in common, at each stage of two threads' cycles (`KeysApart`,
`LiveSeen`, `NotYetOpen`, `Earlier`), with `OfM1`: the protection thread only handles M1.
`RoomLeft` counts a mode's open trades and those coming against the cap; `DayInv` relates
the rows of the day to what a cycle has gathered from them.

**TradeExits_proofs.**  `RowFollows`: the row is what the memory would be restored to, or
the thread in hand owes it a write.  `StopsNeverLoosen` is an action property over it:
a step never takes back a stop, a trail or an approved carry in the row, a restart
included.  `StopIsBest` adds that the policy in memory or in hand is the one that the best
quote judged so far calls for.

`EvidenceInv`: an entry that was approved had evidence fit at its decision, and a plan is
made within the decision's time to live.  `M1Inv`: what the process gave to the runner, or
is about to give, has been counted; the slots are taken in order, each once, and only for
an event; what a poll builds sees no event.  `FeedInv`: what the caches and the session
serve was not old when it was fetched, and a build is dated by what it was built from.

**RiskGateway_proofs.**  The lemmas follow the code: what each structure that
`Detected` names is made of, that its sizing engine's cost per lot covers the loss of that
structure wherever the underlying ends (`Covers`, by structure: a spread's width, a
condor's wider wing, a butterfly's body), that the second sizing of DISCOVERY and the
limits only shrink an approval (`Proper`, `FitsBooks`), and that the approved legs put every
bought option before the sold one that it covers.  `GatewayInv` then says that the approval
in hand is one that `evaluate` gives to its offer on the books as they still are, that what
is held fits the mode, and that a plan is its approval's.

`PayoffFindsWorst`: the sum of the legs is linear between two strikes, so the least value
over all spots is at a kink (`WorstAnywhere`), and a family's formula, where it applies,
agrees with the kinks unless the profit it names is negative (`FormulaAgrees`).
`DirectionAgrees`: what a directional slot proposes is aimed with its trend
(`ProposalsAim`), the offer in hand is one that was asked (`OfferAsked`), and what is so
aimed gains in the direction of the trend (`AimedGains`).

**ReviewDesk_proofs.**  `DeskInv`: where the thread is and what it has in hand (`CallOK`),
what rows and positions say of each other (`RowsFollow`), that a close is settled or being
settled (`ClosesSettled`), that a review that acted is on record, under way, or was cut
(`ActedIsRecorded`), and that whoever is due for the slots in hand waits for its review or
has it (`ReviewsDue`).

`SalesInv` balances each trade's book with its log of exits and with what the call has in
hand, unless a kill cut the call.  The library's induction theorems take an operator as a
parameter, so what a sum over a finite set is, whatever its size, is proved by a least
counterexample among the subsets (`AddsUp`, `AddsOne`; for `Accounts` in
`EntryCycle_proofs`).

## 7. What is only model-checked

- `ExitSettles`, `AdverseIsJudged`, `Reopens`: liveness under fairness is outside the
  prover, and so is ENABLED.
- `BothWriteFirst` is `DurableBeforeBroker` of the run's instance with two threads;
  `DurableFirst` proves it for any number of them.
- `SteadyLedger` and `SteadyHoldings` are `LedgerMatchesHolds` and `HeldOrAborted` of the
  run's instance `Steadily` of `EntryCycle`; `SteadyLedgerMatches` and
  `SteadyHeldOrAborted` prove them for every such instance.
- Proved, and in no run because another property of the same run stands for them:
  KnownFailureStops, UnknownStaysFrozen, RecordedIdsAreLogged, NothingForgotten, CapKept,
  OnceADay, CycleOfOneMind, NothingLoosens, GlobalCapKept, EntryCovered.

## 8. What is not modelled

Partly modelled components say in `PROJECT.json` what is left out.  Not modelled at
all: news and universe (parsing and scoring of text and lists), analytics, agents and
research (read-only or advisory), operations and dashboard (systemd, Telegram and HTTP
around the session), configuration and contracts (validated immutable records).  Of the
producers, the ranking within a binder, calendars, P1 scores, commodity futures and the
legacy router are left out; of the rate limiters, the windows that decide (a refusal is a
choice).  The Fyers adapter is modelled only as a source of outcomes: it is not wired to a
session yet.

## 9. Plan

1. The windows of both rate limiters under two threads; degraded protection and the age
   of quotes in `Protection`.
2. The composition of `OmsEngine` and `PaperExit` through `LogicalOrder`, with the proof
   that the exit's orders implement it as the entry's do.
3. What the partly modelled components leave out, in the order in which `PROJECT.json`
   names it.
