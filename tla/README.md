# ariai-exam: models, checks and proofs

The repository collects BTCUSDT and ETHUSDT market data from Binance (a
WebSocket stream for what happens now, REST for what was missed), keeps it in
PostgreSQL and shows it on a dashboard that is fed by Server-Sent Events. This
directory holds TLA+ modules of the parts whose correctness depends on
interleavings, failures, ordering and boundaries, the TLC runs that check them,
and TLAPS proofs about the most important of them.

Paths below are relative to `src/backend/src/` unless they start with `src/`
or name a document of the repository; `frontend/` stands for `src/frontend/src/`.

## 1. The system

One Node process per deployment. Everything runs on one event loop, so the
unit of atomicity is the code between two `await`s; concurrency comes from
calls that wait for the database, for REST, for a timer or for the stream. The
browser is a second event loop, behind a connection that may break or go mute.

```
            Binance WS                         Binance REST
                |                                   |
        BinanceWsClient                BinanceRestClient -- BinanceRateLimiter
                |  messages, status                 |
          IngestService --- STREAM_STATUS --> BackfillService --- BackfillRunner
       |        |      \                        |   (GapDetector, paginateKlines)
 TradeBuffer  klineChain  IngestStateStore      |            |
       |        |            |            backfill_jobs      |
     trades   klines <-------|----- upsertMany --------------+
       |        |      ingest_state
  retention     +----- candle and metric queries, coverage
                |                   |
          KLINE_CLOSED       MetricsCacheService, OpsHealthService
                |                   |
                +---------- SseStreamService (throttle, poll, initial snapshot)
                                    |  SSE
                            EventStreamClient  (frontend)
                             |        |       |
                      candle buffer  ticks   query cache <--- GET (fallback polls)
                             |        |       |
                           chart    gauge    panels
```

| Component | State | Operations | Hard behaviour | What makes it correct |
|---|---|---|---|---|
| Backfill engine (`backfill/backfill.service.ts`, `backfill-runner.ts`, `async-util.ts`) | `isEngineBusy`, `inFlightRanges`, rows of `backfill_jobs`, running lanes | bootstrap, gap scan, forced repair, manual request; job attempts | gap lists read before an await and used after it; failures of each awaited operation; lanes that fail while others run | no candle is worked on twice at a time; no reservation leaks; no flag stays up; a succeeded job has its candles; every job settles |
| Gap arithmetic, startup plan (`gap-math.ts`, `gap-detector.ts`, `startup-plan.ts`) | none | ranges, gaps, startup window | alignment, the forming candle, boundaries | exactly the closed missing candles, in separate ranges |
| Pagination (`rest-paginator.ts`) | cursor, page count | one page after another | page boundaries, empty, foreign or stalled pages, page limit | nothing is skipped, nothing outside is written, it ends |
| REST client, rate limiter (`binance/binance-rest.client.ts`, `rate-limiter.ts`) | weight window, pause, ban | acquire, fetch, retry | several callers wake together; overlapping 429s; timeouts at every point | the budget of every window; no request in a pause or after a ban; every request ends |
| Stream client (`binance/binance-ws.client.ts`) | socket, four timers, attempt counter, `disconnectedAt` | start, open, message, close, error, heartbeat, reconnect, stop | silent connections, reconnection against stop, an outage of several failed handshakes | one connection; a dead one is noticed; every outage is repaired from its start; stop returns |
| Ingest of candles (`ingest/ingest.service.ts`, `db/repositories/kline.repository.ts`) | `klineChain`, table `klines` | write and emit, upsert under a guard | snapshots overtaken by final versions, failed writes, breaks | rows never regress; every closed candle becomes present, and final |
| Ingest of trades (`ingest/ingest.service.ts`, `trade-buffer.ts`, `ingest-state.store.ts`) | buffer, `flushChain`, watermark | add, flush, restore, shutdown | failed chunks, trades arriving meanwhile, shutdown | no silent loss, order, cap, watermark |
| Messages and rows (`ingest/stream-message.parser.ts`, `decimal.util.ts`, `backfill/kline-mapper.ts`, `db/kline-rules.ts`, `dedupe.ts`, `chunk.ts`, `numeric.ts`) | table `klines` | parse, validate, fold, chunk, upsert | a batch that breaks off, repeated keys, bind parameters, decimals as strings | nothing good lost or replaced by less, nothing bad stored |
| Candle and metric queries (`api/candles/`, `metrics/*.query.ts`) | none | bars, overview, rolling series | empty windows, first bucket, zero volume | the bars and cards are those of the table |
| Metrics cache (`metrics/metrics-cache.service.ts`) | snapshot per symbol, computation under way | get, refresh, candle closed | callers join a computation that began earlier | nobody waits for ever; nothing goes back; the last state gets in |
| SSE stream (`realtime/`) | throttles, initial snapshots, computations of a connection | merge, throttle, exhaustMap, poll | values kept back, dropped or overtaken | order on a connection; the last state gets out |
| Operations API (`api/ops/`) | none | health, coverage, manual backfill | coverage against the scan's view; memory against database | agrees with the tables; accepts what the engine takes |
| Trade retention (`ingest/trade-retention.service.ts`) | `isPurging` | purge at start and daily | a purge that lasts or fails | recent trades stay, old ones go, the flag comes down |
| Event client (`frontend/lib/stream/event-stream-client.ts`) | source, retry and watchdog timers, status, buffers | connect, open, events, error, retry, online, stop | watchdog, retry and online events race | one source, never stuck, never live without a source |
| Dashboard (`src/frontend/`) | query cache, chart bars, tick window | draw, load, refetch, poll, prune | answers and frames overtake each other; hidden tabs | the screen comes to show what is stored |
| Collector events, database schema, modules, configuration | - | - | - | - |

## 2. Modules

| Module | Models | Role |
|---|---|---|
| `CandleRanges` | loop-free arithmetic of `gap-math.ts`, `resolveStartupPlan` | used by everything about candles; free of recursion, so it can be proved about |
| `GapMath` | the loops of `gap-math.ts` and `detectGaps`, in milliseconds | checked against set definitions in `MCAlgorithms`, proved equal to them in `AlgorithmsProofs` |
| `BackfillEngine`, `MCBackfillEngine` | `runWindow`, its four callers, `backfill_jobs`, lanes and retries | the core |
| `JobLifecycle` | what a row of `backfill_jobs` promises its readers | abstract specification; `BackfillEngine` implements it |
| `Paginator` | one attempt of a job, `paginateKlines` | justifies the one-step attempts of `BackfillEngine` |
| `RateLimiter` | the limiter | a library of state and operators |
| `RestClient`, `MCRestClient` | `requestJson` of concurrent callers over one limiter | composes `RateLimiter` |
| `WsClient` | the exchange's connection: socket, heartbeat, stable, reconnect and stop timers, backoff, what it tells the backfill | justifies the stream of `CandlePipeline` |
| `TradeIngest` | trade path, watermark and shutdown | - |
| `CandlePipeline` | stream, `klineChain`, upsert guard, engine and restarts for one symbol | end to end: does each closed candle become present and final |
| `KlineStore` | `upsertMany`: validation, folding, chunking, the guard, decimal comparison | justifies the completeness levels of `CandlePipeline` |
| `MarketMessages` | stream frames and REST pages into rows | over `KlineStore` |
| `CandleQuery`, `Overview` | the bars and windows the queries select; the overview as SQL computes it | pure |
| `OpsConsole` | coverage, health and tones, the three judges of a manual request, the timeline's bands | over `GapMath` |
| `LiveTicks`, `TradeRetention` | the tick gauge's state; the purge | functions from state to next state |
| `MCAlgorithms` | - | every computation above on all small inputs, one kind of input each |
| `MetricsFeed`, `MCMetricsFeed` | the overview from table through cache, throttle, initial snapshot and GET to the browser's query cache | - |
| `EventStream` | the event client's connection | - |
| `OpsFeed`, `MCEventStream` | `ops$`, health computations, initial snapshot, fallback poll and panel over `EventStream` | extends `EventStream` |
| `LiveChart` | the candle stream from the table to the drawn bars, with query and buffer | - |
| `*Proofs` | - | theorems; see section 4. `BackfillProofs` is about `BackfillEngine`, `Paginator` and `RestClient` together, `IngestProofs` about `CandlePipeline` and `TradeIngest`, which therefore share no names; `AlgorithmsProofs`, and `QueryProofs` upon it, are about the specification of `MCAlgorithms` |

The correspondence of state and actions is recorded definition by definition in
the map of `PROJECT.json`. The main conventions:

- **Steps.** One action is what runs between two awaits. In `BackfillEngine` a
  call has a `pc`: `plan` (the two reads of `bootstrapSymbol` are under way),
  `detect` (the SELECT of `detectGaps`), `reserve` (answered, not resumed),
  `create` (a turn of `createJobs`), `run` (`runWithConcurrency`), `record` and
  its successors (the three writes of `enqueueManual`), `done`. A job in a lane
  has `markRunning`, `attempt`, `markSucceeded`, `sleep`, `markFailed`,
  `returned`, `threw`. A query of the dashboard is in two steps, the moment it
  reads the tables and the moment its answer is applied, because what matters
  is what happens between them.
- **Failures.** Every awaited operation that can fail has a failing action,
  enabled by a constant (`Faults`, `Allowed`, `Answers`) or bounded by one
  (`MaxFailures`, `MaxBreaks`, `MaxMishaps`). A write that fails may have been
  applied where the code has to live with it (lost answers).
- **Data.** A candle is its index. `BackfillEngine` needs presence only,
  because gap detection looks at nothing else; `CandlePipeline` also tells a
  snapshot of the forming candle (`partial`) from the `final` one; `KlineStore`
  has the counts and volumes the real guard compares. A trade is its number. A
  snapshot or a health is the version of the state it was computed from, so
  that "older" and "newer" are comparable. A tick on the gauge is a record.
- **Time.** A timer is the number of ticks left and fires before time goes on
  (`WsClient`, `EventStream`); the limiter's times are ages. Time stands still
  in `BackfillEngine` (a later clock only makes more candles closed; the cap is
  read again by each attempt). `MetricsFeed` has no clock: its periods are equal
  and unsynchronised, so its timers fire at any moment.
- **Outside the repository.** The WebSocket and EventSource libraries, the query
  library and the exchange are modelled from how the code uses them, and marked
  external in the map where a definition stands for them.

How the modules hang together: `CandlePipeline` uses the engine as one step per
scan and job, and the stream as open, close and silence. `BackfillEngine` is the
justification of the first: a reservation is taken in the step that reads the
in-flight list (`Reserve`), jobs of one symbol never overlap
(`LiveJobsDisjoint`), a succeeded job has its candles (`SucceededMeansStored`),
and the engine becomes free (`EverythingSettles`). `WsClient` is that of the
second: a silence is noticed within the heartbeat's bound, and the reconnection
asks for one repair per symbol from the first break (`RepairCoversOutage`).
`Paginator` justifies the one-step attempt of `BackfillEngine`
(`WritesAreExact`), `KlineStore` the guard by completeness (`RowsAreKept`),
`GapMath` the use of `GapRanges` for the loop (`GapsAreExact`). `LiveChart` and
`MetricsFeed` take the connection as broken or not; `OpsFeed` has the whole
client of `EventStream` under it.

## 3. What is checked

Passing runs:

| Run | Question | Properties |
|---|---|---|
| `backfill_safety` | two concurrent calls of any kind, with any failure except that of `markFailed` | `TypeOK`, `InFlightDisjoint`, `ReservationsReleased`, `LiveJobsDisjoint`, `SucceededMeansStored` |
| `backfill_settle` | a call on two symbols with one lane, failing reads, status writes and attempts | `JobLifecycleSpec` (refinement), `EverythingSettles` (the engine becomes free, every job settles) |
| `paginator` | every range, every set of candles the exchange has, an exchange that answers honestly or with anything, failing fetches and upserts | `WritesAreExact`, `HonestNeverCutOff` |
| `rest` | two callers over one limiter, any answers | `BudgetIsKept`, `NoGrantWhileStopped`, `RequestsSettle` |
| `ws_client` | silence, errors, failed handshakes, stop at any time | `ConnectionIsSound`, `HealthyIsKept`, `RepairCoversOutage`, `Reconnects`, `StopReturns` |
| `trade` | failed writes anywhere, shutdown at any time | `TradesAreKept`, `TradesSettle` |
| `pipeline` | any two mishaps of nine kinds, at any time | `RowsOnlyGrow`, `CandlesPresent`, `FinalUnlessSpoiled` |
| `algorithms` | every computation on every small input | `GapsAreExact`, `CoverageIsTrue`, `ConsoleIsTrue`, `RowsAreKept`, `QueriesAreExact`, `GaugeIsRecent`, `PurgeKeepsRecent` |
| `metrics_feed` | two overviews from the table to the screen, failing queries, a lost connection | `CallersAreServed`, `NothingGoesBack`, `ScreenCatchesUp` |
| `event_stream` | the dashboard's connection and the health panel over it | `FeedIsSound`, `HealthyIsKept`, `Reconnects`, `HealthInOrder`, `PanelCatchesUp` |
| `live_chart` | candles that close while the chart waits for its library, is built again, refetches, loses its connection or is hidden | `ChartIsSound`, `FramesNeverGoBack`, `FramesReachTheChart` |

A property that names several parts is their conjunction, each stated and
commented by itself in its module: `ConnectionIsSound` is `OneConnection`,
`StoppedIsQuiet`, `ZombieIsClosed`, `NoReconnectStorm`; `TradesAreKept` is
`LossReported`, `OldestFirst`, `CleanMeansCurrent`, `ShutdownKeepsTrades`;
`WritesAreExact` is `SuccessIsComplete`, `WritesPrefix`, `WritesInsideRange`;
`RowsAreKept` is the store, the chunks, the two decimal computations and the
messages; and so on, each with the type invariant of its module.

One run TLC must refute, because the code does not do what a comment of it says:

| Run | What the trace shows |
|---|---|
| `metrics_push` | the first `refreshAll` fills the cache, a browser connects and gets its initial snapshot, a candle closes, `handleKlineClosed` computes and publishes the new overview, and no frame is pushed: `realtime/realtime.constants.ts`:43 listens for `metrics.snapshot`, `metrics/metrics.constants.ts`:17 emits `metrics.updated`. The poll brings it, up to `METRICS_REFRESH_MS` later, so `ScreenCatchesUp` still holds |

### What the runs show

- **Presence and completeness.** Presence is made up for by the scan whatever
  goes wrong (`CandlesPresent`). Completeness is not, because nothing but the
  forced repair looks at rows that exist. `FinalUnlessSpoiled` says after which
  mishaps it still holds: breaks noticed when they happen and not at the
  boundary of a candle, failed jobs of the scan, failed writes of snapshots
  (`Harmless`). `CandlesFinal`, the unconditional form, is refuted by a single
  mishap of each of the kinds `final`, `boundary`, `crash`, `repair`, `overlap`
  and `silent`.
- **The chart.** The same question at the other end of the system. A bar that has
  a bar after it is final, or one of the losses named at `OldBarsAreFinal` took
  its closed frame: an answer read before the candle closed was applied after the
  frame; the cache of an interval switched back to within `staleTime`; the buffer
  of 64 keys of a hidden tab evicted it; a frame buffered before an outage was
  flushed over the refetch; the refetch joined an older request or failed; the frame
  was flushed while there was no chart (its library was still being imported, or the
  import had failed); the chart was built again and drawn from an older answer, or
  from none. There is no other way.
- **The panel.** What a throttle, `exhaustMap`, a late initial snapshot or a late
  answer loses, the timer, the watchdog or the fallback poll makes up for
  (`PanelCatchesUp`), although frames and answers are not ordered against each
  other.

### Limits met while modelling

What the code does and no property here denies:

- `markFailed` throws: the window is released while its other lane works, and a
  second job starts on the same candles (`backfill/backfill-runner.ts`:62, against
  the comment at `backfill/backfill.service.ts`:68). With `Faults <- AllFaults` in
  `MCBackfillSafety.cfg`, `LiveJobsDisjoint` is refuted. The upsert guard keeps
  the table right all the same.
- A timeout while a body is read is not retried, against the header of
  `binance/binance-rest.client.ts` (line 8): line 209 lets the error through
  unwrapped. `TimeoutsAreRetried` of `RestClient` is false.
- A manual request whose gaps are all being fetched by another call is recorded
  as a success of 0 rows, like one without gaps (`backfill/backfill.service.ts`:165).
- The pause of a 429 begins in `applyRetryAfter`, after the body was read
  (`binance/binance-rest.client.ts`:227). Requests may leave between its headers
  and the end of its body; `NoGrantWhileStopped` counts from `applyRetryAfter`.
- A page limit of 500 (`rest-paginator.ts`:57) ends an honest job of more than
  500 pages; ranges that long are outside the bounds.
- Rows of `backfill_jobs` that a crashed process left pending or running are never
  settled (`db/repositories/backfill-job.repository.ts`:88). A `markSucceeded` that
  was applied but whose answer is lost is repeated through `running` (line 99),
  which `JobLifecycle` forbids; the fault `lostAck` is left out of that run.
- `add()` does not look at the buffer's cap (`ingest/trade-buffer.ts`:44). Between
  two flushes, or while an insert hangs, the buffer is longer than `HardCap`;
  only `restore()` cuts it down. The watermark is written although the flush of
  its trades failed, so it may be ahead of the table (`ingest/ingest.service.ts`:259).
- A forced repair that fails is not retried by the scan; one that overlaps a job is
  dropped as a whole; `disconnectedAt` is when a silence was noticed, not when it
  began, so a repair may start up to the heartbeat's bound late.
- `CandlesPresent` needs a lookback that covers the downtime. With `Lookback = 1`,
  `Depth = 4`, `Start = 2`, `Horizon = 6`, `FirstRows = {2}` and a crash it fails:
  the stream stores the forming candle before the plan reads the latest one, and
  what is older than the lookback stays missing.
- The rule that folds a batch compares the trade count first and the volume
  second (`db/kline-rules.ts`:126), the guard in SQL requires both; they agree on
  snapshots that grow together, which is what the exchange sends.
- A request's timeout is cleaned up when the headers arrive
  (`frontend/lib/api/client.ts`:109), so a body that hangs is never given up: the
  query stays at work for ever, which `ChartIsSound` excuses.
- Frames are of interval 1m only, so charts of 5m, 15m and 1h do not move with the
  stream although the panel says so (`frontend/components/chart/PriceChartPanel.tsx`:76).
- The price of the overview is the last trade's of any age, also when a kline is
  fresher (`metrics/overview.query.ts`:51); a log return across a gap counts as one
  of a minute (line 93). `QueriesAreExact` states these rules as they are.
- Ticks buffered in a hidden tab are stamped when they are flushed
  (`frontend/hooks/useLiveTicks.ts`:104); `GaugeIsRecent` counts from the flush.
- 1439 of 1440 candles keep the tone `ok`, against the comment at
  `frontend/lib/ops-thresholds.ts`:13.
- The form lets through the intervals 5m, 15m and 1h and ranges of more than 30
  days, which the server refuses; `api/ops/ops.controller.ts`:121 speaks of 31 days.
  If the browser's clock is ahead, the server refuses as future an end the form took
  (`api/dto/query.schemas.ts`:123 against `frontend/lib/schemas.ts`:203): an end
  in the past only if the clocks are apart by more than the tolerance, one within the
  tolerance of the browser's present by any difference. `ConsoleIsTrue` allows these
  three refusals and no other.
- Nothing asks for frames again that were flushed while there was no chart
  (`frontend/components/chart/PriceChartPanel.tsx`:50), an import that failed is not
  tried again, and a chart that is removed and built again
  (`frontend/components/chart/useCandleChart.ts`:157) is drawn from what the query held, without
  a refetch. If `setIsReady(false)` and `setIsReady(true)` end in one render, the
  effect does not run and the new chart is empty until data or a frame comes
  (`ReducedMotionChanges`).

### Bounds

- `backfill_safety`: one symbol (symbols share only the engine flag; two of
  them are in `backfill_settle`), two calls (every property is about pairs of
  calls, jobs or ranges), three closed candles, a table that is empty or has a
  row in the middle (one gap, or two), two attempts (a first and a last one).
- `backfill_settle`: one row per symbol leaves a scan two runs of missing candles,
  more than the one lane, so that jobs wait behind others; the startup plan takes
  the run after that row. Its faults (`SettlingFaults`) leave out those after
  which a row may stay unsettled: a `createJobs` that fails halfway, a failing
  `markFailed` or manual record, a lost answer.
- `paginator`: pages of two candles and ranges up to six give full, partly
  filled and empty pages. `HardCap` is 500 as in the code. `honest` tells an
  exchange that answers the question from one that answers anything.
- `rest`: a budget of 3 with weights 1 and 2, a window of 3 ticks, two callers
  with two attempts each; a `Retry-After` shorter and one as long as the window;
  a report of the server above and below the own count.
- `ws_client`: two symbols, a ping every 2 ticks against a timeout of 3 and a check
  every 2 (a check falls before, on and after the timeout), a pause that doubles
  once before its maximum, with 30 % jitter; four breaks, enough for an outage
  of three failed handshakes after a connection that was up.
- `trade`: a cap of 3 rows reached with 5 trades; chunks of 2 (a failure before,
  between and after chunks); three failures.
- `pipeline`: `Budget` bounds the mishaps, `MaxChain` the writes under way (one is
  enough: writes of the chain are serial and first come first served, what
  overtakes them are jobs), `Horizon` time. Properties are about candles a scan
  still looks at when time stops (`Scanned`), and the lookback covers the
  horizon. `suffered` is a history variable: the kinds of mishaps so far. A tick
  is bounded in two ways, named at `Tick`.
- `algorithms`: a step of 3, so that instants fall before, on and after a boundary,
  and five candles; batches of up to three rows of two candles with three
  snapshots each, broken off after 0 to 3 statements and repeated, then one row
  more (`MaxBatch`, `MaxNext`); two frames and pages of two rows (`MaxMessages`);
  statements of up to six rows, columns and parameters (`MaxParams`); decimals of
  up to two digits on either side, with sign and zeros (`MaxDigits`); bars of up to
  three minutes (`MaxWidth`) over seven candles (`BarCandles`), so that a bar is cut
  at either end; windows of up to three candles (`WindowBound` cuts the longer ones)
  with frames of two and three samples (`Rolling`), read before, on and after a
  boundary (`ReadTimes`); five traded candles (`TradedCandles`), with and without
  volume, and two trades of one millisecond (`MarketTrades`), a day of four candles
  (`DayCandles`) and windows of up to two (`MaxWindow`); the real timeline of 1440 minutes with ranges
  at both ends; a server's clock up to two ahead of or behind the browser's, around a
  tolerance of one (`ClockGaps`, `Skew`); three ticks over two symbols and five moments; a purge over six
  days with two kept.
- `metrics_feed`: two symbols, because `refreshAll` takes them in turn; one closed
  candle each, one failing query or write and one lost connection, at any moment.
- `event_stream`: pings every 3 ticks against a watchdog of 5; pauses of 1, 2 and 5
  ticks (with the jitter of 20 % the last is 4 to 6); three faults; two changes
  of the collector, so that one can fall into the computation of another.
- `live_chart`: three candles of two versions, a buffer of two keys, two frames
  under way, two mishaps (lost connections, failed writes, requests and imports,
  charts built again, switches away).

`CHECK_DEADLOCK FALSE` is set where the bounds end a behaviour: all calls made,
the paginator's end, the process shut down, time at its horizon, the last candle.

### Fairness

Weak fairness but for two steps. Database, REST and timers settle every
operation with a result or an error (drivers and `AbortSignal.timeout` see to
it), hence WF on the steps of a call, a lane, a request, a flush and a query as a
whole: the model may always choose the failure. Time passes; interval timers
keep firing; the stream client reconnects for ever, with bounded pauses, and
a handshake ends (`handshakeTimeout`); the heartbeat closes a silent
connection; a supervisor starts the process again; frames and answers that were
sent arrive while the connection lives. Nothing is assumed about how often
calls are made or candles close. Mishaps and failures are never fair.

Strong fairness is stated twice, in the dashboard. `HandleOpen` of `EventStream`:
of handshakes tried again and again one is answered; the watchdog cuts each that
is not, so weak fairness would say nothing. `PollSent` of `OpsFeed`: the fallback
poll comes however often the status changes. Without a failure the status leaves
`live` only by the watchdog, after a handshake of `STALE_AFTER_MS` (25 s), which
is five periods of the poll. In `LiveChart` only frames and the flush are fair:
nobody has to look back, and a request or the import of the chart's library may hang
for ever; `FramesReachTheChart` is about a chart that is there.

## 4. What is proved

For all values of the constants that the named assumptions allow: any symbols,
calls, candles, attempts, lanes, page limits, callers, timers and any set of
failures. A theorem with a hypothesis beyond those assumptions names it here.

- `BackfillProofs!TypeCorrect`: `Spec => []TypeOK`. Assumes
  `EngineAssumption` only. The points that need an argument are windows and gaps
  being proper ranges (`capEndToClosedCandles`, `resolveStartupPlan`), and rows
  being created before lanes take them.
- `BackfillProofs!ReservationsHold`, with the corollaries
  `InFlightDisjointHolds` and `ReservationsReleasedHolds`. The invariant is
  `ReservationInv == GapsApart /\ ReservationsReleased /\ InFlightDisjoint`.
  `InFlightDisjoint` alone is not inductive: ranges of one `Reserve` are disjoint
  from what is in flight by the split, but from each other only because the gap
  list of a call is (`GapsApart`), which holds because maximal runs of missing
  candles cannot touch (lemma on `GapRanges`).
- `BackfillProofs!LiveJobsDisjointHolds`: `LiveJobsDisjoint`, under the
  hypothesis that `markFailed` does not throw. The inductive part is
  `RowsFollowReservation /\ UnfinishedJobsReserved`: an unfinished job is
  awaited by its call and its range is reserved, so two live jobs of a symbol
  that overlapped would be two overlapping reservations. The hypothesis is
  needed, as the first of the limits above shows.
- `BackfillProofs!SucceededMeansStoredHolds`: `SucceededMeansStored`, with
  no hypothesis on the faults. The invariant `StoredInv` says that a lane about to
  mark its job succeeded is complete, that a row is in the list of its own call
  only as long as that call makes rows, and that a manual request which records
  a row of its own (0 rows stored) has no lane for it.
- `BackfillProofs!JobLifecycleHolds`: `BackfillEngine` implements `JobLifecycle`,
  under the hypothesis that no `markSucceeded` is applied while its caller sees an
  error (`lostAck`, see the limits above). Beside `StoredInv` the invariant
  `LifecycleInv` relates each lane's place to the status and the attempts of its
  row; every action of the engine is then a step of the abstract specification on
  one row, the creation of rows, or a stutter.
- `BackfillProofs!WritesAreExactHolds`: `WritesAreExact`. The invariant
  `HonestProgress`: what an honest exchange was asked for and has been written is
  what it has before some place, and that place is the cursor unless an upsert
  broke. It rests on two lemmas: a page is a prefix of what is served, because
  the candles before one of its candles are fewer still; and a page has a last
  candle, by the well-foundedness of the library applied to the intervals below
  its candles.
- `BackfillProofs!HonestNeverCutOffHolds`: `HonestNeverCutOff`, under the
  hypothesis `CapIsBeyond`: the hard cap lies beyond every range (499,000 candles
  with the code's constants) and the margin is at least one page. The invariant
  `PagesFit` counts: each page consumed took the cursor a whole page ahead, except
  one after which nothing is served. The margin is needed for that one: it is
  followed by an empty answer which has to be fetched.
- `BackfillProofs!NoGrantWhileStoppedHolds`: the pause under way outlasts every
  `Retry-After` that is not over (`PauseCoversOwed`), so a later 429 that asks for
  less does not shorten it, and `Acquire` grants only when it is over.
- `BackfillProofs!BudgetIsKeptHolds`: `BudgetIsKept`. The invariant `Recorded`:
  for every age, what was granted is at most what the limiter recorded (a report
  of the server adds to that and never takes away). The rest is arithmetic of
  sums over the window: `Total` is monotone, grows by what is added to an age, and
  does not grow when entries get older and leave.
- `WsClientProofs`: `ConnectionIsSoundHolds`, `HealthyIsKeptHolds` and
  `RepairCoversOutageHolds`, from one invariant. It ties
  every timer to the phase and the socket it belongs to (`SocketInv`), bounds the
  sum of the time since the last message and the time to the next check
  (`WatchInv`), and keeps `disconnectedAt` within the heartbeat's patience of the
  start of the outage (`OutageInv`).
- `IngestProofs!TradesAreKeptHolds`: `TradesAreKept`. The batch of the flush
  under way and the buffer, one after the other, are a run of consecutive trades
  that ends with the last one received; a chunk that was stored may still be held,
  what lies before the run and not in the table was cut off by `restore` and
  counted.
- `IngestProofs!RowsOnlyGrowHolds` with `PipelineTypeCorrect`: no write
  makes a row less complete, and no job is asked for a candle that has not closed.
- `MetricsFeedProofs!CallersAreServedHolds` and `NothingGoesBackHolds`: the
  invariant `FeedInv` orders the versions on their way: what is sent is no newer
  than the trailing value of the throttle, that no newer than the snapshot, and a
  snapshot no newer than the computation under way, which is no newer than the
  table. A computation is shared, so the order needs that one per symbol runs.
- `OpsFeedProofs!FeedIsSoundHolds` and `HealthInOrderHolds`: the invariant
  `FeedInv` is that a source is watched from its birth on and no retry is pending
  beside it (`SourceWatched`), that a running client without a source has one
  (`RetryPending`), and that what is sent, computed and true come in this order
  (`Ordered`), of which `exhaustMap` is the reason: one computation at a time.
- `LiveChartProofs!ChartIsSoundHolds` and `FramesNeverGoBackHolds`. The invariant
  `OrderInv`: payloads get older from the exchange over the throttle's trailing
  value and the wire to the buffer, so a frame that arrives becomes the last of the
  buffer. `LackIsOnItsWay` is the heart: with no query at work, a candle the
  table has closed and the chart shows unfinished, for none of the named losses, is
  one the chart has not gone past, and either its closed frame is in the buffer or
  under way, or the connection is gone and nothing buffered goes past it.
  `AnswerLackIsOnItsWay` says the same of an answer that was read and has not
  arrived. Both speak of `Image`, what the chart shows or, while there is none, what
  the next will show of the query's data; `SnapshotInv` says that without a chart
  nothing is drawn, and that data and answers were read of the table one after the
  other, so a chart drawn from them has no bar beyond one they lack. What the fold over the buffer draws is shown by induction on its length
  (`DrawnEnds`, `DrawnFinal`): a closed frame the chart is not past is drawn
  whatever is behind it.
- `OpsFeedProofs!HealthyIsKeptHolds`: the invariant `Pinged` relates the watchdog to
  the server's heartbeat: as long as a ping is due within its interval, the
  watchdog has at least as far to go.
- `AlgorithmsProofs!GapsAreExactHolds`: `detectGaps` is exact for every step, table,
  window and clock. The loop of `mergeIntoRanges` is shown by its invariant: the
  ranges so far, with the open one, are the maximal runs (`RunsOf`) of the missing
  candles seen so far. In candle indices these runs are the `GapRanges` of
  `BackfillEngine` (`RunsAreGapRanges`), so the proofs about the engine speak of
  what the loops compute.
- `AlgorithmsProofs!CoverageIsTrueHolds`: what SQL groups and what the loop merges are
  the same ranges. A minute's island (its place minus its rank among the missing
  ones) never goes back and is the same exactly within a run, so the groups are the
  maximal runs (`RunsOf`); both lists are in ascending order, and there is only one.
  The minutes of the groups then add up to no more than the window has, and with
  fewer than 20,000 candles in it (the code's window has 1440) a ratio in 1/10000
  is 1 only of a window without a hole. For the timeline: floor and ceiling of the
  band's ends leave the place of the range inside it.
- `AlgorithmsProofs!ConsoleIsTrueHolds`: the tones only get worse with the lag and
  better with the ratio, and the headline is the worst of a set that holds every
  row's; 15 seconds reach the critical lag by either route (`toStreamHealth`,
  `fallbackStreamHealth`). For any difference of the clocks the server refuses what the
  form took only for its interval, its length or an end ahead of its clock. Of a
  manual request: floor and ceiling to whole candles
  cover exactly the candles the request touches.
- `AlgorithmsProofs!RowsAreKeptHolds`, under the hypothesis `Step > 1` (a candle is
  longer than a millisecond; the unaligned row that must be refused opens at 1),
  for batches, pages, statements, lists of frames and decimals of whatever length:
  - Of the store the heart is `IsFullest(T, A)`: the table `T` has, of every candle
    sent in `A`, the fullest snapshot and no other. Folding a batch, writing a row
    and being refused by the guard each keep it, so a prefix of the statements, the
    same batch again and another after it do as well. It rests on the assumption on
    `Snapshots`: volume and trade count of a candle grow together, which is what
    makes the guard of SQL and the order of the fold one order (see the limits in
    section 3).
  - `chunkRows` is shown by the invariant of its loop: the chunks so far are the
    rows before the cursor.
  - The digits of a list denote one number (`DigitsAre`), a list with a leading digit
    that is not zero is larger than every shorter one (`LongerIsLarger`), and of two
    lists of a length the first digit that differs decides (`DigitsDiffer`): what
    `compareNumericStrings` does after it dropped the zeros. `DivideOnce` says that
    `formatScaled` takes apart what `parseDecimal` put together, so a product loses
    no place.
  - Of the messages: each frame adds its row, its trade or one to the error count
    and leaves the others alone; a page adds its closed rows or nothing.
- `QueryProofs!QueriesAreExactHolds`: its three parts, for every finite table.
  - A set of rows with one row per time has one ascending list (`AscendingIs`), so
    the bars can be argued about as a set (`BarsOfTable`): `date_bin` puts each
    minute in one slot (`BinIs`), no two bars share a slot and the slots from
    `FirstBucket` on are `limit` many, which is what bounds the answer; the first bar
    is whole because the scan begins on the boundary of a slot.
  - The sum over a set is the same whichever element is taken first (`SumsAre`: the
    fold takes them in the order of a CHOOSE), so it can be compared element by
    element (`SumsCompare`) and loses nothing with the minutes without volume
    (`QuietCandles`). The VWAP then lies between the least and the greatest price of
    its window (`VwapIs`), the takers' share in 0 to 1. It is assumed that a candle
    trades at its close (`AlgorithmsAssumption`): the table keeps volume and value of
    a candle, and which of its prices they belong to does not matter to the cards.
  - The last n open times of a grid are n, wherever the clock stands between two of
    them (`LastTimesAre`). The minute more that the overview fetches is the one whose
    return is unknown (`ReturnsAre`); a rolling frame is the last `samples` times
    before its point, and all of them are fetched (`FrameIs`).
- `AlgorithmsProofs!PurgeKeepsRecentHolds`: the invariant `PurgeInv`: a purge under
  way has the cutoff of the day it began or an earlier one, which only moves away
  from the retention period, and the flag is up exactly while it lasts.
- `AlgorithmsProofs!GaugeIsRecentHolds`: the invariant `GaugeInv`: the samples of the
  gauge are an end of what the panel was given since the symbol was chosen
  (`Tracks`). Pruning keeps it an end because time only moves on, so what left the
  window or was pushed out by newer samples never comes back; the sums over an end
  are the sums over the window (`TotalOfTail`); and the timer bounds the age. The
  cap must be positive (`slice(-0)` would keep everything).

Induction. The induction theorems of the library take an operator as a
parameter, which the provers cannot instantiate. Where a proof needs induction
over numbers (the sums of `RateLimiter`, the smallest and last elements of
pages, the candles drawn from a buffer) it comes from the well-foundedness of the finite sets
(`BackfillProofs!LeastNatural` and `InductionUpTo`: a set that holds 0 and with
every number the next holds all of them), and a recursive function is unfolded
to the choice it stands for, after such an induction showed that there is one
(`LoopRuns` of `AlgorithmsProofs` says it once for the loops over a list).

Induction over sets (`InductionOverSubsets`) is the same with the number of
elements, and is what the sums of `CandleQuery` and `Overview` rest on.

Only model-checked: everything about liveness, which the provers do not reach
(`EverythingSettles`, `RequestsSettle`, `Reconnects`, `StopReturns`, `TradesSettle`,
`CandlesPresent`, `FinalUnlessSpoiled`, `ScreenCatchesUp`, `PanelCatchesUp`,
`FramesReachTheChart`). Every invariant a run checks is stated by a theorem.

## 5. Not modelled, and why

- Collector events, health counters, logging: written, never read by the logic
  modelled.
- Database schema, migrations, modules, configuration: declarations; they give the
  models their keys and constants.
- The zod schemas of REST responses, the mappers of the operations API, SQL columns
  of the series besides those of the windows: conversions without a choice.
- Lists of jobs and events (plain queries, polled every 15 seconds whatever the
  stream does) and the invalidations that make them fresher:
  `backfillSignature`, the mutation of the form.
- `share()` of `ops$` and `metrics$`: one browser is watched, and what its
  connection starts ends with it, while the code keeps the stream for the others.
  A browser that joins later only gets more.
- The tick stream on the server; `LiveTicks` begins where ticks arrive. Counters of
  invalid frames and `lastError` of the event client.
- What the chart still shows of the symbol or interval before until the first answer
  of the one looked at: `LiveChart` is about one symbol, its bars at the start are
  empty.
- Rendering, layout, formatting, colours, the mock market.
- `handlers.onMessage` throwing in the stream client.

## 6. Plan

Done: the modules of section 2 and the proofs of section 4.

Next: the series queries of the dashboard besides their windows (log returns and
their deviation as numbers), and the collector events.
