# A formal model of the SecFi Prime platform

The platform advises a securities-finance desk. A *cycle* looks at the book, the market and
the custodian's records, and publishes limits, breaks, alerts and recommendations; people
look at them through an HTTP API, approve or reject them, and trade in the firm's own
systems. The platform never trades by itself. It is a decision-support system, so
"correct" means: what it shows is complete, consistent and as fresh as it says, and nothing
happens that no human decided.

This directory holds TLA+ modules translated from the Python source, the TLC
configurations that check them on small instances, and TLAPS proofs of the central
properties for all instances. `PROJECT.json` maps each definition to its source lines.
Paths below are relative to `src/src/secfi_platform/` unless they start with `src/`.

    tlc -workers 2 -config MCDeskCycle.cfg MCDeskCycle.tla     # check a run
    tlapm DeskCycle_proofs.tla                                 # check proofs

## 1. The system

### Components, their state and their operations

| component | source | state | operations |
|---|---|---|---|
| Orchestration cycle | `orchestration/scheduler.py` | none of its own; produces a `CycleOutputs` | `run_full_cycle`: risk, reconcile, price, optimize, recall, corporate actions, growth, alerts |
| API store | `api/state.py` | `_latest`, the outputs of the last cycle, under a lock | `set_latest_cycle_outputs`, `get_latest_cycle_outputs` |
| Desk API | `api/routers/desk.py` | the recommendation objects inside `_latest` | reads; approval decision (POST) |
| Risk API | `api/routers/risk_extended.py` | reads `_latest`; resets the alert registry | limits dashboard, what-if of a trade, alert feed |
| Alerting engine | `alerting/alert_engine.py` | none | `alert_from_*` producers, `collect_alerts` (sort by severity) |
| Alert prioritizer | `alerting/prioritizer.py` | `_dedup_registry`, module-wide, no lock | `prioritize_alerts`, `reset_dedup_registry` |
| Counterparty risk | `risk/counterparty_risk.py` | none | exposure, limit, utilization, breach, wrong-way risk, stress |
| Growth engine | `growth/counterparty_growth.py` | none | GROW / HOLD / REPRICE / REDUCE per counterparty |
| Exception manager | `risk/exception_manager.py` | registry of exception records, with status, approver, expiry | raise, approve, close, the queues, `summary`; called by unit tests only |
| Reconciliation | `reconciliation/recon_engine.py` | none | `reconcile`: missing, duplicate and mismatch breaks |
| Ingestion | `ingestion/*.py` | none | `fetch` of each connector; `DataSourceUnavailableError` |
| Normalization | `normalization/schema_mapping.py` | none | one parser per record, `parse_rows` |
| Daily batch | `src/scripts/run_daily_batch.py` | the summary file | `main`: fetch, normalize, cycle, write |
| Book optimizer | `optimization/book_optimizer.py` | none | linear program, dust refinement, recommendations |
| Inventory manager | `risk/inventory_manager.py` | none | snapshot, locates, rehypothecation |
| Collateral optimizer | `risk/collateral_optimizer.py` | none | cheapest-to-deliver, substitution, concentration |
| Recall and buy-in | `recall_buyin/recall_risk_engine.py` | none | scores and the urgency queue |
| Corporate actions | `corporate_actions/ca_impact_engine.py` | none | impact of events on positions |
| Pricing | `pricing/pricing_intelligence.py` | none | specialness, rate gaps |
| Capital, rates, scenarios, backtests | `risk/capital_rwa.py`, `risk/rates_fx.py`, `risk/scenario_engine.py`, `reporting/backtester.py` | none | arithmetic |
| Limit monitor | `risk/limit_monitor.py` | none | utilization tiers; imported by the API, not called |
| Data quality, summary, explainability | `common/data_quality.py`, `reporting/daily_summary.py`, `explainability/` | none | counts, rendering, clamped scores |
| Database | `src/sql/` | tables, procedures | used by nothing under `src/` |

### How they interact

* The cycle calls every engine in order, in one thread, on inputs it is given, and hands
  one immutable set of outputs to the store, which replaces the previous one.
* The API's handlers are plain functions, so the server runs them on a pool of threads.
  They share the store, the objects inside it, and the prioritizer's registry. The lock of
  the store protects the reference to the outputs and nothing inside them.
* No code of the repository runs a cycle and publishes to the store in one process: the
  scripts run one and exit, and who calls `set_latest_cycle_outputs` is left to the
  deployment (`api/state.py`). The modules take a cycle to end with its publication.
* The end-of-day cycle gets book and custodian frames and reconciles. The fifteen-minute
  cycle (`src/scripts/run_intraday_cycle.py`) gets neither; what reconciliation found does
  not outlive a cycle.
* People close the loop: what they approve, they execute elsewhere, and its effects come
  back as the positions of the next cycle.

### What is hard, and what correctness means

* **Shared state without a lock.** Overlapping feed requests reset and fill one registry;
  overlapping decisions write and re-read one recommendation. Nobody may lose an alert to
  another request without that request having shown it; a decision must be on the screen.
* **Figures that go stale.** A what-if answer is computed from the last cycle and used
  later, by several traders; outputs are replaced while a request works on the old ones.
* **Agreement of engines.** The limit flag, the alert, the what-if and the growth
  recommendation make the same judgement in four places with four comparisons. An alert
  and the recommendation it calls for come from different modules with different thresholds,
  for limits, for settlement fails and for corporate actions.
* **Ladders of thresholds.** Scores are weighted, multiplied and capped before they meet a
  ladder. That worse facts never end on a milder step, and that an event never calms
  down while it approaches, is a property of all the tables and caps together.
* **One row for many positions.** Pricing keeps one row per security and judges every
  position of the security by it.
* **Order of passes.** Collapse, deduplication and ranking are right only in their order
  and on the sort another module does.
* **Time.** Re-alert intervals at their boundary; approvals that lapse at midnight, also
  in the middle of a summary that reads the date for each record.
* **Partial failure.** A source, a row or an engine fails in the middle of a batch that
  must not report on partial inputs.

The hazards are listed one by one, each at its line and with the properties that cover
it, in `PROJECT.json`.

## 2. The modules

A module has CONSTANTS with a named assumption, variables with a comment each, one action
per operation, and its properties at the end. A comment `Mutant:` marks a deliberately
wrong variant of the definition after it; `PROJECT.json` pairs it with the property that
must then fail, which shows that the property depends on that code.

| module | models | composes |
|---|---|---|
| `AlertRateLimit` | abstract: what deduplication does per condition | |
| `AlertPrioritizer` | `collect_alerts` and `prioritize_alerts`, one call per action | implements `AlertRateLimit` |
| `AlertFeedApi` | `GET /v1/alerts/feed` by overlapping requests | |
| `ExceptionPhases` | abstract: the documented lifecycle of an exception | |
| `ExceptionLifecycle` | `ExceptionRecord`, `ExceptionManager`, midnight | implements `ExceptionPhases` |
| `GrowthAssessment` | limit figures, growth decision tree, limit alert of one counterparty | |
| `DeskCycle` | cycles, publication, what-if answers and traders | extends `GrowthAssessment` |
| `DeskApprovals` | approval decisions by overlapping requests, across cycles | |
| `Reconciliation` | `reconcile` as operators on frames | |
| `DailyBatch` | the batch script with every way it can end | extends `Reconciliation` |
| `BookOptimizer` | constraints, dust refinement, recommendations, a desk that follows them | |
| `Scores` | what the scoring engines share: caps, alert levels | |
| `PricingIntelligence` | specialness, rate gaps, REPRICE recommendations, as operators | extends `Scores` |
| `RecallRisk` | buy-in and urgency score of a settlement fail, its recommendation and alert | extends `PricingIntelligence` |
| `CorporateActions` | key date, scores and urgency of an event, its recommendation and alert | extends `Scores` |
| `CycleAdvice` | the three engines in the cycles of a desk, day after day | extends `RecallRisk`, `CorporateActions` |

`MC*` modules give the constants values and define symmetry; `*_proofs` modules extend the
module they are about.

### AlertPrioritizer

`registry` is `_dedup_registry`, a time or `Never` for each (category, entity) key; `now`
is the clock; `batch` and `feed` are the input and the returned list of the latest call.
`Prioritize(raw)` is the whole of `prioritize_alerts` on what `collect_alerts` makes of any
sequence of raised alerts: collapse of a category above the threshold into a summary,
first-wins deduplication in list order, registration, ranking by severity, P&L at risk and
time. `Reset` is `reset_dedup_registry`. Only severity, category and entity of an alert
are kept; P&L at risk is the function of the severity the code makes it. `FeedSummary` is
`alert_feed_summary`, through which two of the properties look at the feed.
`AlertRateLimit` is the same for one condition at a time: of the conditions a call puts up,
exactly those fire that never did or whose last firing is an interval old.

### AlertFeedApi

A request goes through the steps at which it touches shared state: `Begin` fetches the
outputs, `ResetRegistry` empties the registry, then for every alert `Lookup` and, in a step
of its own, `Fire` (the assignment to the registry), until `Reply`. `Publish` is a cycle in
between. `firedSince`, `resetSince` and `overlapped` record history for the properties and
no step reads them. A request takes far less than the re-alert interval of hours, so a
registered key suppresses. Collapsing and ranking act on the request's own copy and are
in `AlertPrioritizer`.

### ExceptionLifecycle

The fields of a record are functions on exception ids; a queue is a predicate on status and
date. `Midnight` moves the calendar whenever it likes. `summary()` evaluates its queues one
after the other and reads the date anew for each record, so it is a `SummaryCall`, one
`CountActive(e)` for each record, one `CountExpired(e)` for each, and a `SummaryReturn`;
midnight may fall between any two of them. The manager has no caller under `src/src` or
`src/scripts` yet, only unit tests. The module takes what its docstring describes, one owner
who drives it with calls that do not overlap.

### GrowthAssessment and DeskCycle

`GrowthAssessment` translates the comparisons with their strictness: `limit_breached` is
`>`, the what-if and the CRITICAL alert are `>=`, the growth tree has its order of cases.
`DeskCycle` runs them over a moving book. `Profile(c)` is what a cycle computes of a
counterparty from the positions and the watch list it finds: exposure, return on capital,
wrong-way flags. `RunCycle(reconciled)` computes these figures, breaks, growth
recommendations and limit alerts and publishes them; `EndOfDayCycle` and `FastCycle` are its
two schedules, the second without extracts, so that its breaks are `{}`. `TierPage` is the
page of the limits dashboard a counterparty is on. `Simulate` is a PROCEED answer of the what-if from the
published figures; `Book` and `Discard` are what a trader does with it; `Drift`,
`CreditMoves`, `BreakOpens` and `BreakResolved` are the world, exposure, return,
concentration and watch list included. `found`, `seen` and `fresh` are history.

### DeskApprovals

Ids are new in every cycle, so an id is a (cycle, target) pair and `status` maps ids to
their approval status. A request fetches the outputs, searches them, writes the status and
answers by reading it again, in four steps. `overtaken` records that another request
decided on the same id in between. `Screen` is what the recommendation endpoints answer:
they list what the optimizer, pricing and growth recommend (the targets `Listed`); what
the recall and corporate-action engines recommend can be decided on, but no endpoint shows
it with its id.

### Reconciliation and DailyBatch

A frame is a function from row numbers to rows. `Reconcile` is the set of breaks the engine
reports: duplicates on the book, keys on one side, quantity and value mismatches with the
engine's tolerances, severity by size. `DailyBatch` fetches each source in the script's
order; a fetch finds it down (exit 1), or finds rows that parse, are rejected, or raise.
`RunCycle(completes)` is the cycle, in which any engine may raise; `WriteSummary` ends the
run. `exit` and `cause` say how the latest run ended.

### BookOptimizer

The solver is any point that meets the constraint rows: which one HiGHS returns depends on
rates and capital costs that no row mentions. `Outcome` relates a book to every set of
recommendations that a cycle may make of it after the dust sweep; repricing of a position
whose rate is hardly below the market is left out, as in `_build_recommendations`.
`Execute` is a trader following a recommendation, one by one, in any order or never. The
dust threshold is a percentage of the position as in the code, larger so that it bites on
small numbers; the floor of one dollar is not modelled. The cycle never sets an RWA budget,
so allocating nothing always meets the constraints (`AlwaysFeasible`, section 4): the branch
of `optimize_book` for a solver that finds no point is left out. Sums over positions,
counterparties and recommendations are those of the community module `Functions`.

### Scores, PricingIntelligence, RecallRisk, CorporateActions, CycleAdvice

The three engines are operators on the facts they look up. Scores are integers in units
in which every weight and multiplier of the code is exact (twentieths, fortieths and four
hundredths of a point), so a threshold is met in the model when it is met in the code.

`CycleAdvice` puts them in the cycle. Its variables are the fields of `CycleInputs` these
engines read (date, book, quotes, open fails, substitute inventory, locate shortages,
events) and `latest`, the outputs of the last cycle. `RunCycle` prices the book, ranks the
fails of positions that are in the book, takes a quote's specialness and the imminent record
dates to the recall engine, and publishes. `latest` keeps of the watchlist the day and
the book it was made for, as events do not change: `Watched(e)` is the entry of an event
in it. Everything
else is the world between cycles: `NewDay` ages the open fails, quotes move, inventory and
locates come and go, positions are opened and closed, fails open and settle. A fail may
outlive its position in the extract; the engine then skips it, as in the code. An event
whose security has no open positions is on the watchlist and alerted on, and the
recommendations skip it (`Affected`). `shortages` is the dict the engine makes of the locate
desk's list, in which the last entry of a security stays.

## 3. The runs

All runs check for deadlock; none of the systems may stop. Every bound is a CONSTANT.

| run | properties | bounds | states |
|---|---|---|---|
| `alert_prioritizer` | `TypeOK`, `ConditionsAccounted`, `ShownSeverityIsWorst`, `RankIsTriageOrder`, `CategoryBounded`, `RateLimited` | 2 categories x 2 entities, 2 severities, interval 2, threshold 2, `MaxBatch` 3, `MaxClock` 3 | 60 781 |
| `alert_feed` | `TypeOK`, `SuppressedWasFired`, `DuplicateNeedsReset`, `AloneIsFresh` | 2 requests, 2 keys, `MaxList` 3 | 653 081 |
| `exceptions` | `TypeOK`, `QueuesPartition`, `SummaryAccounts`, `ApprovalFrozen`, `FollowsLifecycle` | 2 exceptions, 2 approvers, `MaxDay` 2 | 28 468 |
| `desk_cycle` | `TypeOK`, `EnginesAgree`, `BreaksReachGrowth`, `FreshAdviceIsSafe`, `NoPromotionOnWorseNews` | 1 counterparty, limit 20, amounts 3 and 5, `MaxGross` 22, 2 traders, 5 credit records | 1 089 380 |
| `desk_approvals` | `TypeOK`, `AnswerIsOwn`, `DecisionIsServed`, `OnlyRequestsDecide` | 2 targets, one with a screen, 2 requests, `MaxCycle` 2 | 77 650 |
| `daily_batch` | `TypeOK`, `AllOrNothing`, `NothingLost`, `CleanMeansAgreed` | 2 keys, quantities 1000, 1001, 1101, values 199, 200, `MaxPositions` 2, `MaxHoldings` 2 | 164 533 |
| `book_optimizer` | `TypeOK`, `JointlyExecutable`, `ExcessIsWhatStays`, `IssuerCapped` | 2 securities, 2 issuers, 2 counterparties, book of 5, issuer cap 50% | 3 748 |
| `cycle_advice` | `TypeOK`, `ApproachingNeverCalmer`, `AlertedFailHasOrder`, `AlertedEventHasOrder`, `LastPositionPriced`, `WorseFactsNeverCalmer`, `OpenFailIsActedOn` | 1 security, 1 lent and 1 borrowed position, 2 quotes, 11 events in 2 calendars, `MaxDay` 1, `MaxAge` 6 | 94 752 |

What they show, and why the bounds are enough:

* **alert_prioritizer.** Three alerts in two categories with a threshold of two make every
  case: below, at and above the threshold, two alerts on one key of different severities,
  a summary next to single alerts. An interval of two ticks distinguishes "one short",
  "exactly" and "past". No condition is lost (`ConditionsAccounted`), the worst alert of
  a key is the one shown (`ShownSeverityIsWorst`), ranks are a triage order, a category
  is counted at most threshold times, once when it was collapsed, and of the keys a call
  puts up exactly those fire that are due, one interval after the last time and not
  before (`RateLimited`, refinement of `AlertRateLimit`).
* **alert_feed.** Two requests are what every race here needs, one to reset or record
  and one to be affected; a list of three holds a repeated key and another one between.
  What one request hides, the other has shown (`SuppressedWasFired`); a key shown twice
  needs a foreign reset (`DuplicateNeedsReset`); without overlap the answer is complete.
* **exceptions.** With three days an approval can be in the past, current and in the
  future; two records let midnight fall between the two in either scan of `summary()`.
* **desk_cycle.** Counterparties do not interact in these engines, so one is enough. The
  limit of 20 with steps of 3 and 5 reaches 0, 60%, 85%, 90%, exactly 100% and above it.
  The five credit records are a good return, one below the target, none at all, and a good
  one on the watch list or concentrated in a sector; they change between
  cycles, so a figure may appear, vanish or get worse from one cycle to the next.
  `EnginesAgree` ties the breach flag, the alert, the dashboard page and the growth
  recommendation of one cycle to each other: alert and flag differ at an exposure of exactly
  the limit and nowhere else.
  Two traders are what it takes to use the same headroom twice. `FreshAdviceIsSafe` says
  that this is the only way a limit is broken by acting on a PROCEED: whoever acts before
  exposure has risen stays below it.
* **desk_approvals.** Two requests on two targets over two cycles: the same id, different
  ids, an id of the cycle before, with and without a screen that shows it.
* **daily_batch.** 1000 against 1001 is exactly the tolerance of 0.1%, 1001 against 1000
  is below it, 1101 against 1000 is above 10%; 199 against 200 is exactly 0.5% of the
  book's 200 and more than that of a book's 199. Two rows a side give duplicates and keys on
  one side only. A summary stands for a run that read every source but the custodian, and
  one with breaks for a run that read both sides (`AllOrNothing`).
* **book_optimizer.** One limited and one unlimited counterparty, a limit that is used up
  by what stays, an issuer cap that forces a position to be split, and several cycles
  on the books that result. `ExcessIsWhatStays` states what the limit rows achieve and no
  more: following recommendations in any order and to any extent never puts a counterparty
  further above its limit than the balance that no recommendation covers or that has still
  to be moved away. The rows do not bound total exposure: they count allocated balance
  only, so a position nothing is recommended for does not reserve its share of the limit.
* **cycle_advice.** The engines judge one security or one event at a time; what positions
  share is the row of their security, so one security with two positions has every case.
  The engines know dates only as days ahead, so two days are enough if the events
  stand on every step: the first calendar has one event that crosses each edge of the ladder
  (60, 30, 15, 7, 3, 2, 1 and 0 days, the passed date) and one without a date, the second a
  record date that becomes imminent for the recall engine. At six days every score of a
  fail is at its cap, and fails keep ageing on the last day. The two quotes make the
  security special-in-waiting and hard to borrow; the loan stands exactly at the actionable gap
  of five basis points below one of them, the borrow beyond it. The properties say that an
  approaching event never calms down, whatever is alerted on comes with a
  recommendation and a CRITICAL fail with the order to get or give back the securities,
  that a fail whose facts get no better is never alerted on less nor gets a milder
  recommendation, that the position that speaks for its security is repriced in the desk's
  favour exactly when it is off the market by more than the gap, and that a fail that
  stays open is acted on in the end. The ladders for all tiers, types and ages are the
  subject of the theorems of section 4, not of this run.

### Where the code and its documentation disagree

Four runs each check one statement of a docstring or comment and end in a counterexample.

| run | property | statement | what happens |
|---|---|---|---|
| `alert_feed_race` | `EveryGetFresh` | "Reset dedup for API calls so every GET returns fresh prioritization", `api/routers/risk_extended.py:143` | between the reset and the pass of one GET, another records the key; the first leaves the alert out |
| `growth_fast_cycle` | `GrowNeedsNoCriticalBreak` | GROW needs "no unresolved CRITICAL recon breaks", `growth/counterparty_growth.py:13-14` | the fast cycle does not reconcile, has no breaks, and recommends GROW while a break found by the end-of-day cycle is open |
| `batch_bad_row` | `BatchSurvivesBadRow` | "never raises -- a single bad row must not take down an entire batch run", `normalization/schema_mapping.py:253-254` | a value outside an enumeration raises `ValueError`, which nothing catches |
| `pricing_shared_row` | `RepriceInDesksFavour` | "LEND / REVERSE_REPO positions priced BELOW market => REPRICE up, BORROW / REPO positions priced ABOVE market => REPRICE down", `pricing/pricing_intelligence.py:179-184` | the rows are put into a dict by security, and the last one stays: with a loan at 80 and a borrow at 40 of one security in a market at 50, the borrow's gap makes the loan a REPRICE down to 50 |

Smaller disagreements, seen while translating. No run ends in them; where a property touches
one, it says what the code does instead:

* Suppression lasts "until the condition resolves or a configurable re-alert interval
  elapses" (`alerting/prioritizer.py:7-11`). The code has the interval only: a condition that
  resolves and comes back within it stays suppressed. `AlertRateLimit` states the interval.
* A breach is at 100% and more (`src/docs/risk_framework.md:58`). At exactly 100% the alert is
  CRITICAL and titled BREACHED (`alerting/alert_engine.py:42-44`), while `limit_breached` is
  False (`risk/counterparty_risk.py:241`), and the summary's "counterparties at or over
  limit" counts by that flag (`reporting/daily_summary.py:68`). `EnginesAgree` states
  that this is the only exposure at which the two differ.
* "Custodian feed down: EOD cycle should skip reconciliation for that day"
  (`src/docs/runbook.md:76-78`). The batch exits with code 1 and no summary when any source is
  down (`src/scripts/run_daily_batch.py:168-170`). `AllOrNothing` asks for the custodian
  only where there are breaks.
* A rejected row is "excluded from the batch (with the error logged and an Alert raised)"
  (`normalization/schema_mapping.py:11-14`). There is no such alert and no
  `_ingest_and_normalize`; a rejected position shows only as a break, if the custodian
  holds it (`NothingLost`).
* "Where duplicate keys exist on one side", the engine takes the first row "and flags a
  `DUPLICATE_ENTRY` break" (`src/docs/assumptions_and_limitations.md:61-64`), or "falls back to
  closest-quantity matching and flags the result with lower confidence"
  (`reconciliation/recon_engine.py:16-19`). The code takes the first row, and flags duplicates
  of the book only. `CleanMeansAgreed` is about keys with one row on each side.
* An event on a security without open positions is alerted on, CRITICAL at one day
  (`alerting/alert_engine.py:117-134`), and gets no recommendation
  (`corporate_actions/ca_impact_engine.py:214-215`). `AlertedEventHasOrder` is about events
  whose security has positions.

* The limits dashboard has no case for the tier RED of its docstring
  (`api/routers/risk_extended.py:40-41`), and a counterparty at exactly its limit, or with a
  limit and no exposure, is on no page: 100% is neither below the limit nor a breach.
* "A low-impact event tomorrow is less urgent than a high-impact event in 5 days"
  (`corporate_actions/ca_impact_engine.py`) does not hold of all pairs: a cash dividend
  tomorrow is ACT_TODAY, a merger in five days ACT_THIS_WEEK.
* A split one day ahead raises a CRITICAL alert and no recommendation: its recall and
  rate weights are low. `AlertedEventHasOrder` is therefore about the types whose
  recall weight makes lenders recall.
* SPECIALS_IN_WAITING adds urgency to a fail, SPECIAL above it does not, so a fail can fall from
  HEDGE to DO_NOTHING when its security gets more special; one that loses its
  substitute inventory falls from SUBSTITUTE to DO_NOTHING while it is young.
  `WorseFactsNeverCalmer` leaves out the first and compares recommendations at equal
  substitutes.
* A record date that has passed stays "imminent" for the recall engine
  (`orchestration/scheduler.py:179`): the test has no lower bound.

### Fairness

Only `CycleAdvice` assumes any: days pass (`WF(NewDay)`), and cycles keep being started
(`WF(RunCycle)`), which the schedule of `src/docs/runbook.md:7-26` does with a daily and a
fifteen-minute entry. Quotes, fails, inventory, locates and the book change when
they like or never. Under it a fail that stays open and in the book is acted on
(`OpenFailIsActedOn`): its age alone brings it to the step of HEDGE, so no other fact has to
turn bad, and none can keep it quiet.

The other specifications state safety only. Requests, decisions and trades are started
by a browser or a person, nothing in the code retries them, and that a handler which runs
also ends is immediate.

## 4. The proofs

Eight modules hold 42 theorems and the lemmas they rest on, checked by `tlapm`. Each
theorem holds for every value of the constants that meets the named assumption of the
module: any number of requests, keys, exceptions, traders, rows, securities, any interval,
threshold or limit.

| module | theorems | the argument |
|---|---|---|
| `AlertPrioritizer_proofs` | `TypeCorrect`, `ImplementsRateLimit`, `NothingDropped`, `WorstIsShown`, `RankedForTriage`, `CategoriesThrottled` | `TypeOK` is inductive. A call fires exactly the due of the keys it has processed, so it refines `Ask` of them. After a call every key of the processed list is recent, and a key's first alert in the list is its worst, because the list is sorted and a summary stands for the worst of its category. For the last two see below. |
| `AlertFeedApi_proofs` | `FeedTypeCorrect`, `NothingLost`, `DuplicatesExplained`, `FreshWhenAlone` | `IInv` adds to the two properties that a registered key has been fired since the reset of every request that is past its own (`KnownRegistry`), and that a request whose reset nobody undid finds the keys of its active alerts in the registry (`OwnKeysKept`). Neither property is inductive alone: both are about what the registry will answer later. For `FreshWhenAlone` see below. |
| `ExceptionLifecycle_proofs` | `RecordsWellFormed`, `EveryExceptionQueued`, `SummaryComplete`, `ApprovalImmutable`, `ImplementsLifecycle` | `IInv` says that UNDER_REVIEW is never assigned, and what a summary in progress has established about the records it has passed (`SummaryProgress`). Each operation is one move of `ExceptionPhases`; midnight moves the records that lapse. |
| `DeskCycle_proofs` | `WorseNeverPromoted`, `DeskTypeCorrect`, `FreshAdviceSafe`, `BreaksOverrideGrowth`, `EnginesConsistent`, `NoPromotion` | `IInv` ties the published outputs to the engines (`PublishedIsComputed`). `WorseNeverPromoted`, the monotonicity of the decision tree, carries `NoPromotion`: the published actions of both cycles are the tree's on the published figures. The rest is linear arithmetic on the four comparisons. |
| `DeskApprovals_proofs` | `ApprovalTypeCorrect`, `OwnAnswer`, `ServedDecision`, `NoAutomaticTransition` | A decided request that was not overtaken finds its own decision in the shared status (`Carried`). |
| `DailyBatch_proofs` | `BatchTypeCorrect`, `NoPartialRun`, `RejectedIsReported`, `BreaksAreExact` | `IInv` says for each step of the script what the run holds by then: the sources it has used (`Running`), how it ended (`Ended`), the book as the normalized capture (`Normalized`), the breaks as `Reconcile` of both frames (`Reconciled`), and that there are none before (`NoBreaksYet`). |
| `CycleAdvice_proofs` | `LadderMonotone`, `AdviceTypeCorrect`, `FailOrders`, `EventOrders`, `ApproachUrgent`, `FailsNeverCalmer`, `LastIsPriced`, `AgeBringsAction` | See below. |
| `BookOptimizer_proofs` | `OptimizerTypeCorrect`, `NeverCompete`, `CapSurvivesRefinement`, `NoExcessOfItsOwn`, `AlwaysFeasible` | See below. |

`CycleAdvice_proofs` is about the scores, for every tier, age, event type and date, any
number of securities, positions and calendars. Lemmas go up the computation: capping and
multiplying preserve order (`CappedMonotone`, `ProductMonotone`), so the base scores,
multipliers and weighted sums do (`BuyinMonotone`, `UrgencyScoreMonotone`,
`MultiplierMonotone`, `ScoreMonotone`, `CompositeMonotone`), so the ladders do
(`LadderMonotone`, `UrgencyMonotone`, `WatchMonotone`). `FailsNeverCalmer` is
`LadderMonotone` on the facts before and after a step. `ApproachUrgent` is `WatchMonotone`
between the day of the published cycle and today, which needs from `TypeOK` that no cycle
is later than today. `FailOrders` is inductive with `TypeOK`: each cycle makes its rows by
`RowInOrder`, which compares the thresholds of the alert and of the recommendation.
`EventOrders` follows from `AlertedIsNear`, an alert has a date at most three days ahead,
and there the proximity multiplier lifts a recall weight of 48 over the step to RETURN for
the positions there are.
`LastIsPriced` needs that file rows are distinct, so that the row which stays in the dict
is the one of the position it is about. `AgeBringsAction` is the safety half of
`OpenFailIsActedOn`: an open fail never gets younger and every day makes it older, to the
bound, and each cycle that finds one of five days or more in the book acts on it, as five
days score 60 (`OldFailHasOrder`), the step of HEDGE, with no help from another fact.

`RankedForTriage` and `CategoriesThrottled` are about the list one call shows, of any
length. The rank of an alert counts the alerts that go before it in the sort, so ranks
without gap or repetition need an order without ties: two alerts of one call differ in
when they were raised or in their category (`ProcessedTies`), hence the order is total
(`RankedBeforeOrder`) and different alerts have different ranks; an injection of the n
shown alerts into 1..n then takes every rank (`RanksRun`). A category that was collapsed
is counted once because its summary is the one alert of it that the processed list holds
(`PrioritizedThrottled`). Neither property is inductive by itself: the answer of a call is
what `Prioritize` computes from the batch (`AnsweredInv`), and both are theorems about
that.

`FreshWhenAlone` says that a request no other overlapped shows exactly the first alert of
each key. Its invariant follows the request through its pass: a request that is in
progress and has not been overlapped is the only one (`ServedAlone`), and then the
registry holds the keys of the prefix of its list it has been through and nothing else,
and what it shows so far is the first alert of each of them (`AlonePrefix`). One lemma for
each step of a request keeps it (`ResetAlone`, `LookupAlone`, `FireAlone` and so on), and
a step of another request marks both as overlapped.

`BookOptimizer_proofs` is about sums. The library's induction over finite sets takes a
predicate as a parameter, which the provers cannot instantiate; it is replaced by
`SetInduction`, about a *set* of good subsets, which follows from the well-foundedness of
strict inclusion by taking a least counterexample. From it come an additive function for
every finite set (`AdditiveExists`), its equality with the sum of the community module
(`SumIsAdditive`), and what the proofs need of sums: union, subset, order, change of one
term (`SumUpdate`), sums along an injection and by class (`SumAlong`, `SumByClass`). The
invariant has four parts. `Sound` says of the recommendations of a cycle, compared with
the book it looked at, that they are within each balance, each limit and each issuer's
cap: this is what the constraint rows say of the solution, carried through the dust sweep
and the reading of the solution as a set of records (`OutcomeSound`). `Ledger` says that
each counterparty's exposure is the one the cycle looked at less what has moved out plus
what has moved in. `JointlyExecutable` is the third part, since the guard of a trader
looks at one recommendation only, and `TypeOK` the fourth: what leaves a balance arrives
at another. `NoExcessOfItsOwn` is then arithmetic: what has moved to a counterparty and
what was recommended to stay are both within its limit, and the rest of its exposure is
untouched or has yet to leave. Securities and counterparties are assumed finite, as any
book is.

The assumptions are few: figures in the extracts are natural numbers, limits and gross
exposures are too, `None` is no integer, fail, tier or output, the bounds are natural
numbers.

### Only model-checked

* `OpenFailIsActedOn`: liveness under fairness is out of the prover's reach. What remains
  after `AgeBringsAction` is that days pass and cycles are started.
* The four runs that end in a counterexample.

## 5. What is not modelled, and why

* `risk/inventory_manager.py` and `risk/collateral_optimizer.py`: libraries of pure functions
  that no cycle, endpoint or script calls, only unit tests. There is no state, no caller
  and no schedule to be faithful to; what locates of one snapshot promise together depends
  on a caller that does not exist yet.
* `risk/limit_monitor.py` is imported by the API and never called.
* Capital charges (`risk/capital_rwa.py`), rate and FX sums (`risk/rates_fx.py`), stress
  scenarios (`risk/scenario_engine.py`), haircuts, backtests (`reporting/backtester.py`),
  explainability scores: closed-form arithmetic on decimals without state, for which unit
  tests with numbers are the better tool. Where a decision depends on their result,
  as in the growth engine and the optimizer, the result is an input or a free choice.
* `common/data_quality.py`: counts and scores per source that nothing in the cycle reads.
* What only orders or words a list: confidence, priority and P&L of a recommendation, drivers
  and texts, the order of the recall queue, the watchlist and the dispersion table, and the
  cut of a list at 50 rows. Routing targets of alerts.
* File formats, HTTP conversion, Markdown rendering, logging, configuration: no state and
  no decision. What a bad row does to a batch is modelled.
* The database has tables and procedures that no code under `src/src` or `src/scripts` uses.
* `alert_from_stale_data` and the documented fallback on the last good snapshot are not
  called, or do not exist; the batch model has what does. `prior_week_fee_bps` and
  notice periods other than the default are passed by no caller.
* Unlimited growth of the registry, and a crash in the middle of writing the summary file.

## 6. State of the plan

All that the plan set out to model is modelled: alerts, the exception lifecycle, the cycle and its
readers, the batch with its reconciliation, the optimizer's constraints, and the decision
engines with their ladders. The inventory and the collateral optimizer were planned and
dropped for want of a caller (section 5). When the platform grows, these come next:

1. `Inventory`, once a locate desk or an endpoint calls the inventory manager: locates
   resolved by several callers from one snapshot, and the substitutions on top of it.
2. The persistence that `api/state.py` and the approval endpoint announce: the audit
   record of a decision next to the status, and what a restart of the server keeps.
