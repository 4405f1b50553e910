----------------------------- MODULE OpsConsole ------------------------------
(***************************************************************************)
(* What the operator sees and may ask for: the 24 hour coverage of         *)
(* GET /ops/health, the tone of its streams and of the headline the        *)
(* dashboard puts over them, and the three places that judge a manual      *)
(* backfill: the form, the body schema and the service.                    *)
(* (src/backend/src/api/ops, api/dto/query.schemas.ts,                     *)
(* backfill/backfill.service.ts, src/frontend/src/lib/ops-thresholds.ts,   *)
(* lib/schemas.ts, components/ops)                                         *)
(*                                                                         *)
(* Times are integers; a step is the length of a candle.                   *)
(***************************************************************************)
EXTENDS GapMath, SequencesExt, FiniteSets, FiniteSetsExt

(***************************************************************************)
(* Coverage.                                                               *)
(***************************************************************************)
resolveCoverageWindow(now, expected, step) ==
    LET alignedEnd == floorToStep(now, step)
    IN  [from |-> alignedEnd - expected * step, to |-> alignedEnd, expected |-> expected]

\* generate_series(from, to - 1 minute) LEFT JOIN klines, the rows without a match.
MissingMinutes(existing, window, step) ==
    {t \in window.from .. (window.to - step) : (t - window.from) % step = 0 /\ t \notin existing}

\* open_time - row_number() * 1 minute: one value per run.
Island(missing, t, step) == t - Cardinality({u \in missing : u <= t}) * step

\* ORDER BY the first minute.
OrderedByFrom(groups) ==
    CHOOSE s \in [1 .. Cardinality(groups) -> groups] : \A i, j \in DOMAIN s : i < j => s[i].from < s[j].from

\* GROUP BY island: min, max and number of each group's minutes.
coverageForSymbol(existing, window, step) ==
    LET missing == MissingMinutes(existing, window, step)
        group(i) == {t \in missing : Island(missing, t, step) = i}
        of(i)    == [from |-> Min(group(i)), to |-> Max(group(i)), minutes |-> Cardinality(group(i))]
    IN  OrderedByFrom({of(Island(missing, t, step)) : t \in missing})

\* The minutes of all groups.
missedMinutes(groups) ==
    LET sum[n \in 0 .. Len(groups)] == IF n = 0 THEN 0 ELSE sum[n - 1] + groups[n].minutes
    IN  sum[Len(groups)]

\* The ratio is rounded to 1/scale.
roundRatio(actual, expected, scale) == (2 * actual * scale + expected) \div (2 * expected)

Capped(groups, maxRanges) == SubSeq(groups, 1, IF Len(groups) < maxRanges THEN Len(groups) ELSE maxRanges)

Reported(groups, step) == [i \in DOMAIN groups |-> [start |-> groups[i].from, end |-> groups[i].to + step]]

\* Mutant: the numbers are taken from the ranges the answer has room for.
buildCoverageReportCapped(window, groups, step, maxRanges, scale) ==
    LET actual == window.expected - missedMinutes(Capped(groups, maxRanges))
    IN  [expected |-> window.expected, actual |-> actual,
         ratio |-> roundRatio(actual, window.expected, scale),
         missingRanges |-> Reported(Capped(groups, maxRanges), step)]

buildCoverageReport(window, groups, step, maxRanges, scale) ==
    LET left   == window.expected - missedMinutes(groups)
        actual == IF left < 0 THEN 0 ELSE left
    IN  [expected |-> window.expected, actual |-> actual,
         ratio |-> IF window.expected = 0 THEN scale ELSE roundRatio(actual, window.expected, scale),
         missingRanges |-> Reported(Capped(groups, maxRanges), step)]

(***************************************************************************)
(* The timeline of CoveragePanel.tsx, in 1/10000 of its width times its    *)
(* span.  Its right end is the server's time.                              *)
(***************************************************************************)
BarWidth(span) == 10000 * span

\* MIN_GAP_WIDTH_PERCENT, 0.45.
MinGapWidth(span) == 45 * span

\* Where an instant falls on the bar that ends at now.
PlaceOf(t, now, span) == 10000 * (t - (now - span))

\* The left end of a missing range, at 99.5% at most.
BandLeft(range, now, span) ==
    LET left == PlaceOf(range.start, now, span)
    IN  IF left < 0 THEN 0 ELSE IF left > 9950 * span THEN 9950 * span ELSE left

BandWidth(range, span) ==
    LET width == 10000 * (range.end - range.start)
        least == IF width < MinGapWidth(span) THEN MinGapWidth(span) ELSE width
    IN  IF least > BarWidth(span) THEN BarWidth(span) ELSE least

\* What is seen of the band: the bar hides what goes beyond it.
Band(range, now, span) ==
    LET right == BandLeft(range, now, span) + BandWidth(range, span)
    IN  [left |-> BandLeft(range, now, span), right |-> IF right > BarWidth(span) THEN BarWidth(span) ELSE right]

(***************************************************************************)
(* Stream health.  A snapshot of the ingest service is [connected,         *)
(* lastEvent, lag], where lag is what the service last computed; a row of  *)
(* ingest_state is its lastEvent alone.                                    *)
(***************************************************************************)
None == -1

StaleSeconds == 90

elapsedSeconds(from, to) == to - from

\* getStreamHealth of the ingest service, from the last events of its streams.
getStreamHealth(lastEvents, connected, at) ==
    {[connected |-> connected, lastEvent |-> e, lag |-> IF e = None THEN None ELSE elapsedSeconds(e, at)] :
        e \in lastEvents}

\* Mutant: the lag of the snapshot is passed on.
toStreamHealthCached(snapshot, now) == [connected |-> snapshot.connected, lag |-> snapshot.lag]

toStreamHealth(snapshot, now) ==
    [connected |-> snapshot.connected,
     lag |-> IF snapshot.lastEvent = None THEN snapshot.lag ELSE elapsedSeconds(snapshot.lastEvent, now)]

fallbackStreamHealth(lastEvent, now) ==
    LET lag == IF lastEvent = None THEN None ELSE elapsedSeconds(lastEvent, now)
    IN  [connected |-> lag # None /\ lag < StaleSeconds, lag |-> lag]

\* buildStreams: the database stands in when the ingest service throws.
buildStreams(snapshots, ingestAnswers, now) ==
    IF ingestAnswers
    THEN {toStreamHealth(s, now) : s \in snapshots}
    ELSE {fallbackStreamHealth(s.lastEvent, now) : s \in snapshots}

(***************************************************************************)
(* ops-thresholds.ts                                                       *)
(***************************************************************************)
LagWarn     == 5
LagCritical == 15

lagTone(lag, connected) ==
    IF ~connected THEN "down"
    ELSE IF lag = None THEN "idle"
    ELSE IF lag >= LagCritical THEN "down"
    ELSE IF lag >= LagWarn THEN "warn" ELSE "ok"

\* Ratios in 1/10000.
coverageTone(ratio) == IF ratio < 9900 THEN "down" ELSE IF ratio < 9990 THEN "warn" ELSE "ok"

streamTone(stream) == lagTone(stream.lag, stream.connected)

ToneRank == [ok |-> 0, idle |-> 1, warn |-> 2, down |-> 3]

worstTone(tones) == CHOOSE t \in tones : \A u \in tones : ToneRank[u] <= ToneRank[t]

\* The tone of the headline.
summarizeHealth(health) ==
    LET lags == {s.lag : s \in health.streams} \ {None}
    IN  worstTone({IF \A s \in health.streams : s.connected THEN "ok" ELSE "down",
                   IF lags = {} THEN "idle" ELSE lagTone(Max(lags), TRUE),
                   IF health.ratios = {} THEN "idle" ELSE coverageTone(Min(health.ratios)),
                   IF health.failed24h > 0 THEN "warn" ELSE "ok"})

(***************************************************************************)
(* The manual backfill.  A request is [interval, from, to].                *)
(***************************************************************************)
BaseInterval == "1m"

\* backfillFormSchema, at the browser's time.
FormAccepts(r, now, skew) == r.from < r.to /\ r.to <= now + skew

\* manualBackfillBodySchema.
BodyAccepts(r, now, skew, maxRange) ==
    /\ r.interval = BaseInterval
    /\ r.from < r.to
    /\ r.to - r.from <= maxRange
    /\ r.to <= now + skew

\* validateManualRequest.
ServiceAccepts(r, maxRange) ==
    r.interval = BaseInterval /\ r.from < r.to /\ r.to - r.from <= maxRange

\* runManual: the window runWindow scans.
ManualWindow(r, step) == [start |-> floorToStep(r.from, step), end |-> ceilToStep(r.to, step)]
==============================================================================
