------------------------------- MODULE Overview -------------------------------
(***************************************************************************)
(* The snapshot of GET /metrics/overview as the SQL computes it from the   *)
(* one-minute candles and the trades of a symbol.                          *)
(* (src/backend/src/metrics/overview.query.ts, metrics-math.ts)            *)
(*                                                                         *)
(* A candle is [time, close, quote, volume, takerQuote], a trade [time,    *)
(* id, price], numbers are integers.  NULL is the empty set and a value    *)
(* the set of it; a quotient is its numerator over its denominator.        *)
(* Percentages and the annualisation are factors, and left out; of the     *)
(* volatility only the number of returns it rests on is kept.              *)
(***************************************************************************)
EXTENDS CandleQuery

Null == {}

\* computeRatio, and CASE WHEN the denominator > 0.
Quotient(num, den) == IF den > 0 THEN {<<num, den>>} ELSE Null

TimesOf(candles) == {c.time : c \in candles}

\* The candles with the given open times.
CandlesAt(table, times) == {c \in table : c.time \in times}

\* last_trade: by time, then by id.
LastTrade(trades) ==
    CHOOSE t \in trades : \A u \in trades : u.time < t.time \/ (u.time = t.time /\ u.id <= t.id)

\* last_price
LastPrice(table, trades) ==
    IF trades # {} THEN {LastTrade(trades).price} ELSE IF table # {} THEN {LastOf(table).close} ELSE Null

\* base_24h: the candle nearest to 24 hours ago, not after.
Base24h(table, now, day) ==
    LET before == {c \in table : c.time <= now - day}
    IN  IF before = {} THEN Null ELSE {LastOf(before).close}

\* x / y - 1, over y.
Change(x, y) == Quotient(x - y, y)

\* vwap_deviation_pct: last * v / qv - 1, in one division.
Deviation(last, win) ==
    LET v == SumOf(win, "volume")
        q == SumOf(win, "quote")
    IN  UNION {IF v > 0 THEN Quotient(p * v - q, q) ELSE Null : p \in last}

\* The row of overviewProjection.
OverviewRow(table, trades, now, n, day, step) ==
    LET times == TimesOf(table)
        last  == LastPrice(table, trades)
        win   == CandlesAt(table, Win(times, now, n, step))
        prev  == CandlesAt(table, PrevWin(times, now, n, step))
        rets  == Returns(Within({t \in times : \E c \in table : c.time = t /\ c.close > 0}, now, n + 1, step))
    IN  [lastPrice |-> last,
         priceChange24h |-> UNION {Change(p, b) : p \in last, b \in Base24h(table, now, day)},
         quoteVolume24h |-> {SumOf({c \in table : c.time > now - day}, "quote")},
         vwap |-> Quotient(SumOf(win, "quote"), SumOf(win, "volume")),
         vwapDeviation |-> Deviation(last, win),
         volatilityReturns |-> IF Cardinality(rets) >= 2 THEN {Cardinality(rets)} ELSE Null,
         takerBuyRatio |-> Quotient(SumOf(win, "takerQuote"), SumOf(win, "quote")),
         tradeCount1m |-> {Cardinality({t \in trades : t.time > now - step})},
         volumeSurge |-> Quotient(SumOf(win, "quote"), SumOf(prev, "quote"))]

\* toFiniteNumber: NULL becomes zero.
OrZero(value, zero) == IF value = Null THEN zero ELSE CHOOSE x \in value : TRUE

\* clamp01, of a quotient.
clamp01(q) == IF q[1] < 0 THEN <<0, 1>> ELSE IF q[1] > q[2] THEN <<1, 1>> ELSE q

\* mapOverviewRow
mapOverviewRow(row) ==
    [field \in DOMAIN row |->
        IF field \in {"lastPrice", "quoteVolume24h", "volatilityReturns", "tradeCount1m"}
        THEN OrZero(row[field], 0)
        ELSE IF field = "takerBuyRatio" THEN clamp01(OrZero(row[field], <<0, 1>>))
        ELSE OrZero(row[field], <<0, 1>>)]
==============================================================================
