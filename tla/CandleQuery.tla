----------------------------- MODULE CandleQuery -----------------------------
(***************************************************************************)
(* What the queries select from klines: the bars of GET /candles, stored   *)
(* or aggregated from one-minute candles, and the windows under the        *)
(* metrics.  (src/backend/src/api/candles/candles.service.ts,              *)
(* metrics/overview.query.ts, series.query.ts, metrics-math.ts)            *)
(*                                                                         *)
(* A candle is [time, open, high, low, close, volume]; times are           *)
(* minutes for the bars, milliseconds with a step for the windows.         *)
(***************************************************************************)
EXTENDS Integers, FiniteSets, FiniteSetsExt, Sequences, SequencesExt

Ascending(bars) ==
    CHOOSE s \in [1 .. Cardinality(bars) -> bars] : \A i, j \in DOMAIN s : i < j => s[i].time < s[j].time

SumOf(candles, field) == FoldSet(LAMBDA c, n : n + c[field], 0, candles)

\* ORDER BY open_time DESC LIMIT, turned back to ascending.
selectBaseCandles(table, limit) ==
    Ascending({c \in table : Cardinality({d \in table : d.time > c.time}) < limit})

\* date_bin(bucket, t, 'epoch').
dateBin(width, t) == (t \div width) * width

FirstOf(candles) == CHOOSE c \in candles : \A d \in candles : c.time <= d.time
LastOf(candles)  == CHOOSE c \in candles : \A d \in candles : d.time <= c.time

\* GROUP BY bucket.
Bar(bucket, candles) ==
    [time |-> bucket, open |-> FirstOf(candles).open, close |-> LastOf(candles).close,
     high |-> Max({c.high : c \in candles}), low |-> Min({c.low : c \in candles}),
     volume |-> SumOf(candles, "volume")]

\* Mutant: one slot too many.
FirstBucketEarly(table, width, limit) == dateBin(width, LastOf(table).time) - limit * width

\* The oldest slot the scan goes back to.
FirstBucket(table, width, limit) == dateBin(width, LastOf(table).time) - (limit - 1) * width

selectAggregatedCandles(table, width, limit) ==
    IF table = {} THEN <<>>
    ELSE LET src == {c \in table : c.time >= FirstBucket(table, width, limit)}
             of(b) == {c \in src : dateBin(width, c.time) = b}
         IN  Ascending({Bar(dateBin(width, c.time), of(dateBin(width, c.time))) : c \in src})

findCandles(table, width, limit) ==
    IF width = 1 THEN selectBaseCandles(table, limit) ELSE selectAggregatedCandles(table, width, limit)

(***************************************************************************)
(* The windows of the metrics, over the open times of the table.           *)
(***************************************************************************)
MinutesOf == [m |-> 1, h |-> 60, d |-> 1440]

clampWindow(minutes, max) == IF minutes < 1 THEN 1 ELSE IF minutes > max THEN max ELSE minutes

parseWindowToMinutes(window, max) == clampWindow(window.amount * MinutesOf[window.unit], max)

\* open_time > now() - n minutes.
Within(times, now, n, step) == {t \in times : t > now - n * step}

\* win and prev_win.
Win(times, now, n, step) == Within(times, now, n, step)

PrevWin(times, now, n, step) == {t \in Within(times, now, 2 * n, step) : t <= now - n * step}

\* A log return is known at every row but the first the query fetched.
Returns(times) == {t \in times : \E u \in times : u < t}

\* rets of the overview: one minute of slack for the first lag().
OverviewReturns(times, now, n, step) == Returns(Within(times, now, n + 1, step))

\* fetchMinutes of buildRollingVolQuery.
RollingFetch(n, samples) == n + samples + 1

\* rows between samples-1 preceding and current row, returns that are not null.
RollingFrame(times, now, n, samples, step, t) ==
    LET base == Within(times, now, RollingFetch(n, samples), step)
    IN  {u \in Returns(base) : u <= t /\ Cardinality({v \in base : u < v /\ v <= t}) < samples}

\* The points of the series: a value needs two samples, mapSeriesRows drops the others.
RollingPoints(times, now, n, samples, step) ==
    {t \in Within(times, now, n, step) : Cardinality(RollingFrame(times, now, n, samples, step, t)) >= 2}
==============================================================================
