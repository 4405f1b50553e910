---------------------------- MODULE MCAlgorithms -----------------------------
(***************************************************************************)
(* The computations of the system on every small input, each against what  *)
(* it is for: gap detection, the kline store, the operator's console, the  *)
(* candle and metric queries, the tick panels and the purge of old trades. *)
(* An input is a record of a kind; the tick panels and the purge take      *)
(* steps, the others are one state.                                        *)
(***************************************************************************)
EXTENDS OpsConsole, MarketMessages, Overview, LiveTicks, TradeRetention

HealthNow == 100

CONSTANTS
    Step,            \* milliseconds per candle
    Horizon,         \* bound: the last instant
    MaxTicks,        \* bound: ticks the panel receives
    MaxNow,          \* bound: the clock of the panel
    MaxDays,         \* bound: the clock of the retention service
    ExpectedCandles, \* candles of the coverage window
    MaxRanges,       \* the most ranges a coverage report lists
    BandMinutes,     \* places and lengths of ranges on the timeline
    BandSeconds,     \* seconds of the server's clock
    EventTimes,      \* when streams had their last event
    Ratios,          \* coverage ratios, in 1/10000
    MaxRange,        \* the longest manual backfill
    ClockGaps,       \* the server's clock at a request less the browser's when it was sent
    RowTimes,        \* open times of the rows sent to the store
    Snapshots,       \* their trade counts and volumes
    MaxBatch,        \* rows of a first batch
    MaxNext,         \* rows of the batch after it
    MaxMessages,     \* frames, and rows of a page
    MaxParams,       \* bound: sizes of a batch and a statement
    IntDigits,       \* digits of decimals before the point
    FracDigits,      \* and after it
    MaxDigits,       \* the most on either side
    BarCandles,      \* candles of the bars
    MaxWidth,        \* minutes of a bar
    MaxLimit,        \* bars that are asked for
    Amounts,         \* of a metric window
    Maxima,          \* minutes a metric window has at most
    Rolling,         \* samples of a rolling window
    WindowBound,     \* windows longer than this are cut to it
    TradedCandles,   \* candles of the overview
    MarketTrades,    \* and its trades
    ReadTimes,       \* when windows and overview are read
    MaxWindow,       \* candles of the overview's window
    DayCandles       \* candles of its day

ASSUME AlgorithmsAssumption ==
    /\ Step \in Nat \ {0} /\ Horizon \in Nat /\ MaxDays \in Nat
    /\ ExpectedCandles \in Nat \ {0} /\ MaxRanges \in Nat /\ MaxRange \in Nat
    /\ ClockGaps \subseteq Int
    \* of more, a ratio in 1/10000 would round one missing candle away
    /\ ExpectedCandles < 20000
    /\ \A m \in BandMinutes : m \in Nat \ {0} /\ m <= 1440
    /\ \A s \in BandSeconds : s \in Nat /\ s < 60
    /\ EventTimes \subseteq 0 .. HealthNow
    /\ \A r \in Ratios : r \in Nat /\ r <= 10000
    \* the base interval, and a symbol that is collected and one that is not
    /\ IntervalMs = [i \in {"1m"} |-> Step]
    /\ "BTC" \in SupportedSymbols /\ "DOGE" \notin SupportedSymbols
    /\ \A t \in RowTimes : t \in Nat /\ t <= Horizon /\ t % Step = 0
    \* what the exchange reports of a candle only grows, count and volume together
    /\ Snapshots \subseteq Nat \X Nat
    /\ \A s, u \in Snapshots : s[1] <= u[1] => s[2] <= u[2]
    /\ MaxBatch \in Nat /\ MaxNext \in Nat /\ MaxMessages \in Nat /\ MaxParams \in Nat /\ MaxDigits \in Nat
    /\ \A d \in IntDigits \union FracDigits : d \in Nat /\ d < 10
    /\ IsFiniteSet(BarCandles)
    /\ BarCandles \subseteq [time : Nat, open : Nat, close : Nat, high : Nat, low : Nat, volume : Nat]
    /\ MaxWidth \in Nat /\ MaxLimit \in Nat
    /\ Amounts \subseteq Nat \ {0} /\ Maxima \subseteq Nat \ {0} /\ Rolling \subseteq Nat \ 0 .. 1
    /\ WindowBound \in Nat \ {0} /\ ReadTimes \subseteq Nat
    \* the candles of the overview trade at their close, the takers at most all of it
    /\ IsFiniteSet(TradedCandles)
    /\ TradedCandles \subseteq [time : Nat, close : Nat \ {0}, quote : Nat, volume : Nat, takerQuote : Nat]
    /\ \A c \in TradedCandles : c.quote = c.volume * c.close /\ c.takerQuote <= c.quote
    /\ IsFiniteSet(MarketTrades) /\ MarketTrades \subseteq [time : Nat, id : Nat, price : Nat]
    /\ DayCandles \in Nat /\ MaxWindow \in 0 .. DayCandles

VARIABLE input

-----------------------------------------------------------------------------
IntervalMsValue == [i \in {"1m"} |-> Step]

GrowingSnapshots == {<<0, 0>>, <<1, 2>>, <<2, 2>>}

OpenTimes == {t \in 0 .. Horizon : t % Step = 0}

ScanInputs ==
    [kind : {"scan"}, existing : SUBSET OpenTimes, from : 0 .. Horizon, to : 0 .. Horizon, now : 0 .. Horizon]

\* The same table with a window of the last candles.
CoverageInputs == [kind : {"coverage"}, existing : SUBSET OpenTimes, now : Horizon - Step .. Horizon, maxRanges : 1 .. MaxRanges]

Rows ==
    {[interval |-> "1m", open |-> o, close |-> o + Step - 1, count |-> s[1], volume |-> s[2]] :
        o \in RowTimes, s \in Snapshots}

BadRows ==
    {[interval |-> "1m", open |-> 1, close |-> 2, count |-> 2, volume |-> 2],
     [interval |-> "7m", open |-> 0, close |-> 2, count |-> 2, volume |-> 2],
     [interval |-> "1m", open |-> 0, close |-> 0, count |-> 2, volume |-> 2]}

\* A batch, then one more, the first cut off after reach statements.
StoreInputs ==
    [kind : {"store"}, first : SeqOf(Rows, MaxBatch), second : SeqOf(Rows, MaxNext) \union {<<b>> : b \in BadRows},
     size : 1 .. MaxBatch, reach : 0 .. MaxBatch]

ChunkInputs ==
    [kind : {"chunk"}, rows : 0 .. MaxParams, columns : 1 .. MaxParams, maxParams : 1 .. MaxParams,
     reserve : 0 .. MaxParams, maxRows : 1 .. MaxParams]

Decimals ==
    {d \in [neg : BOOLEAN, int : SeqOf(IntDigits, MaxDigits), frac : SeqOf(FracDigits, MaxDigits)] :
        d.int # <<>> \/ d.frac # <<>>}

DecimalInputs == [kind : {"decimal"}, a : Decimals, b : Decimals]

Frames ==
    [event : {"kline"}, symbol : {"BTC", "DOGE"}, row : Rows \union BadRows]
        \union [event : {"trade"}, symbol : {"BTC"}, price : {[neg |-> FALSE, int |-> <<1, 2>>, frac |-> <<0, 5>>]},
                qty : {[neg |-> FALSE, int |-> <<0>>, frac |-> <<0, 4>>]}]

\* Frames of the stream, then a page of a backfill with a candle of each minute.
MessageInputs ==
    [kind : {"messages"}, frames : SeqOf(Frames, MaxMessages), page : SeqOf(Rows, MaxMessages) \union {<<b>> : b \in BadRows},
     now : Step .. 2 * Step]

QuoteInputs ==
    [kind : {"quote"}, a : {d \in Decimals : d.int # <<>>}, b : {d \in Decimals : d.int # <<>>}]

\* Five candles whose price goes with their time, with trades or without.
FiveTraded ==
    {c \in {[time |-> t, close |-> 1 + (t % 5), quote |-> v * (1 + (t % 5)), volume |-> v, takerQuote |-> w] :
               t \in {x \in OpenTimes : x <= 4 * Step}, v \in {0, 2}, w \in {0, 2}} : c.takerQuote <= c.quote}

\* Two trades of one millisecond.
TwoTrades == {[time |-> 11, id |-> 1, price |-> 3], [time |-> 11, id |-> 2, price |-> 5]}

\* The tables with one row per open time.
TablesOf(candles) == {c \in SUBSET candles : \A a, b \in c : a.time = b.time => a = b}

OverviewInputs ==
    [kind : {"overview"}, table : TablesOf(TradedCandles), trades : SUBSET MarketTrades, now : ReadTimes,
     window : 1 .. MaxWindow]

\* Ranges of the real timeline: 1440 minutes, at its ends and in between.
BandInputs ==
    [kind : {"band"}, back : BandMinutes, minutes : BandMinutes, second : BandSeconds]

HealthInputs ==
    [kind : {"health"}, events : SUBSET (EventTimes \union {None}), connected : BOOLEAN,
     readAt : {90, HealthNow}, answers : BOOLEAN, ratios : SUBSET Ratios, failed24h : 0 .. 1]

Requests == [interval : {"1m", "5m"}, from : 0 .. Horizon, to : 0 .. Horizon]

\* Either clock may be ahead.
ClocksApart == -2 .. 2

RequestInputs == [kind : {"request"}, request : Requests, now : 0 .. Horizon, gap : ClockGaps]

SevenBars ==
    {[time |-> t, open |-> t, close |-> t + 1, high |-> 3 + (t % 2), low |-> 3 - (t % 3), volume |-> t + 1] : t \in 0 .. 6}

CandleInputs == [kind : {"candles"}, table : TablesOf(BarCandles), width : 1 .. MaxWidth, limit : 1 .. MaxLimit]

WindowInputs ==
    [kind : {"window"}, window : [amount : Amounts, unit : {"m", "h", "d"}], now : ReadTimes, max : Maxima, samples : Rolling]

TickSymbols == {"BTC", "ETH"}

Ticks == [symbol : TickSymbols, price : {1, 2}, isBuyerMaker : BOOLEAN]

TickInputs == [kind : {"ticks"}, panel : {Mounted("BTC")}]

PurgeInputs == [kind : {"purge"}, service : {Started}, kept : {{}}, swept : {NoPurge}]

Inputs ==
    UNION {ScanInputs, CoverageInputs, StoreInputs, ChunkInputs, DecimalInputs, HealthInputs,
           RequestInputs, MessageInputs, QuoteInputs, OverviewInputs, BandInputs, CandleInputs, WindowInputs, TickInputs, PurgeInputs}

Init == input \in Inputs

PanelSteps(p) ==
    {handleTick(p, t) : t \in {x \in Ticks : Len(p.seen) + Len(p.arrived) < MaxTicks}}
        \union (IF p.buffer = <<>> THEN {} ELSE {Flush(p)})
        \union {SwitchSymbol(p, s) : s \in TickSymbols \ {p.symbol}}
        \union (IF p.now = MaxNow THEN {} ELSE {Elapse(p)})

\* kept: every trade stored so far; swept: the cutoff of the last purge that
\* was done, while no trade was stored since.
PurgeSteps(i) ==
    LET s == i.service
    IN  {[i EXCEPT !.service = Store(s, late), !.kept = @ \union {s.now - late}, !.swept = NoPurge] : late \in 0 .. 1}
        \union {[i EXCEPT !.service = Purge(s)]}
        \union (IF s.now = MaxDays THEN {} ELSE {[i EXCEPT !.service.now = @ + 1]})
        \union (IF s.cutoff = NoPurge THEN {}
                ELSE {[i EXCEPT !.service = PurgeDone(s), !.swept = s.cutoff], [i EXCEPT !.service = PurgeFails(s)]})

Next ==
    \/ input.kind = "ticks" /\ \E p \in PanelSteps(input.panel) : input' = [input EXCEPT !.panel = p]
    \/ input.kind = "purge" /\ input' \in PurgeSteps(input)
    \/ input.kind \notin {"ticks", "purge"} /\ UNCHANGED input

Spec == Init /\ [][Next]_input

-----------------------------------------------------------------------------
Answer == detectGaps(input.existing, input.from, input.to, input.now, Step)

\* The candles a scan of this window has to find.
Expected ==
    {t \in OpenTimes : /\ input.from <= t /\ t < input.to
                       /\ t + Step <= input.now
                       /\ t \notin input.existing}

Covered(r) == {t \in OpenTimes : r.start <= t /\ t < r.end}

\* detectGaps finds exactly the closed candles the table lacks, whatever the
\* alignment of the window: never the forming candle, never a stored one.
DetectsMissingClosed ==
    input.kind = "scan" => UNION {Covered(Answer[i]) : i \in DOMAIN Answer} = Expected

\* The ranges come in order, aligned, apart by at least one stored candle:
\* one job per run, none empty, none overlapping another.
RangesSeparate ==
    input.kind = "scan" =>
        /\ \A i \in DOMAIN Answer : /\ countCandles(Answer[i], Step) >= 1
                                    /\ Answer[i].start % Step = 0 /\ Answer[i].end % Step = 0
        /\ \A i, j \in DOMAIN Answer : i < j => Answer[i].end < Answer[j].start

\* The loop computes the maximal runs the engine's model uses: in candle
\* indices its answer is GapRanges of the missing candles.
MergeIsGapRanges ==
    input.kind = "scan" =>
        {[start |-> Answer[i].start \div Step, end |-> Answer[i].end \div Step] : i \in DOMAIN Answer}
            = GapRanges({t \div Step : t \in Expected})

-----------------------------------------------------------------------------
Window == resolveCoverageWindow(input.now, ExpectedCandles, Step)

Report ==
    buildCoverageReport(Window, coverageForSymbol(input.existing, Window, Step), Step, input.maxRanges, 10000)

\* The coverage of /ops/health, computed by SQL, and the gap scan, computed in
\* the process, agree on what is missing in the last 24 hours: the report
\* lists the first of the ranges the engine would fill, and its numbers count
\* all of them, whatever the number it lists.
CoverageAgreesWithScan ==
    input.kind = "coverage" =>
        LET gaps == detectGaps(input.existing, Window.from, Window.to, input.now, Step)
        IN  /\ Report.missingRanges = SubSeq(gaps, 1, Len(Report.missingRanges))
            /\ Len(Report.missingRanges) = (IF Len(gaps) < input.maxRanges THEN Len(gaps) ELSE input.maxRanges)
            /\ Report.expected - Report.actual = TotalOf([i \in DOMAIN gaps |-> countCandles(gaps[i], Step)])
            /\ Report.ratio = 10000 <=> gaps = <<>>

Span == 1440 * 60

\* The server's time, and the range that begins back minutes before the last full one.
BandNow == 2 * Span + input.second

Missing == [start |-> 2 * Span - 60 * input.back, end |-> 2 * Span - 60 * input.back + 60 * input.minutes]

\* "1분짜리 갭도 눈에 보이도록 최소 폭을 강제한다" (CoveragePanel.tsx:21): a missing range, be it
\* the oldest or the newest minute of the window, is drawn at least that wide on
\* the bar, and where it belongs: its band meets the place of the range, or
\* touches it when the minute only just began.
GapsAreSeen ==
    input.kind = "band" /\ input.minutes <= input.back =>
        LET band == Band(Missing, BandNow, Span)
        IN  /\ band.right - band.left >= MinGapWidth(Span)
            /\ band.left <= PlaceOf(Missing.end, BandNow, Span)
            /\ PlaceOf(Missing.start, BandNow, Span) <= band.right

-----------------------------------------------------------------------------
Elements(s) == {s[i] : i \in DOMAIN s}

\* The fullest snapshot of every candle among rows that grow together.
Fullest(rows) == {r \in rows : \A s \in rows : s.open = r.open => s.count <= r.count}

First  == upsertMany({}, input.first, input.size, input.reach)
Retry  == upsertMany(First.table, input.first, input.size, Len(input.first))
Second == upsertMany(Retry.table, input.second, input.size, Len(input.second))

\* Whatever the order of a candle's snapshots, however often each is sent, in
\* one batch or two, cut into statements at any row and repeated after a batch
\* that broke off, the table ends with the fullest snapshot of each candle; a
\* statement never meets a key twice; a batch with a bad row stores nothing
\* and no accepted row is one gap detection would not look for.
StoreKeepsFullest ==
    input.kind = "store" =>
        /\ First.table \subseteq Elements(input.first)
        /\ Retry.table = Fullest(Elements(input.first)) /\ ~Retry.failed
        /\ IF Elements(input.second) \intersect BadRows # {}
           THEN Second.failed /\ Second.table = Retry.table
           ELSE Second.table = Fullest(Elements(input.first) \union Elements(input.second)) /\ ~Second.failed
        /\ {r.open : r \in Second.table} \subseteq Elements(buildExpectedOpenTimes(0, Horizon + 1, Step))

Size == calcChunkSize(input.columns, input.maxParams, input.reserve, input.maxRows)

\* No statement asks for more bind parameters than the limit leaves after the
\* reserve, and the chunks are the batch, in order; a size is refused only
\* where not even one row fits.
ChunksFitStatement ==
    input.kind = "chunk" =>
        IF Size < 1 THEN input.columns + input.reserve > input.maxParams
        ELSE LET batch  == [i \in 1 .. input.rows |-> i]
                 chunks == chunkRows(batch, Size)
             IN  /\ \A c \in DOMAIN chunks : Len(chunks[c]) * input.columns + input.reserve <= input.maxParams
                 /\ FoldLeft(LAMBDA all, c : all \o c, <<>>, chunks) = batch

Digits(s) == FoldLeft(LAMBDA n, d : 10 * n + d, 0, s)

\* The value of a decimal in units of its MaxDigits-th place.
ValueOf(d) == (IF d.neg THEN -1 ELSE 1) * Digits(d.int \o PadEnd(d.frac, MaxDigits))

\* The value in units of its own last place.
Unscaled(d) == (IF d.neg THEN -1 ELSE 1) * Digits(d.int \o d.frac)

\* The comparison of numeric strings is the order of the numbers they denote,
\* signs, leading and trailing zeros and minus zero included.
CompareIsNumeric ==
    input.kind = "decimal" =>
        LET c == compareNumericStrings(input.a, input.b)
        IN  /\ c < 0 <=> ValueOf(input.a) < ValueOf(input.b)
            /\ c > 0 <=> ValueOf(input.a) > ValueOf(input.b)

\* The product of two decimal strings is exact, sign and places included, and
\* has a digit before the point: the quote volume of a trade loses nothing.
QuoteIsExact ==
    input.kind = "quote" =>
        LET q == mulDecimal(input.a, input.b)
        IN  /\ q.int # <<>> /\ Len(q.frac) = Len(input.a.frac) + Len(input.b.frac)
            /\ Unscaled(q) = Unscaled(input.a) * Unscaled(input.b)

Ingested == FoldLeft(handleRawMessage, [table |-> {}, trades |-> <<>>, parseErrors |-> 0], input.frames)

Paged == upsertPage(Ingested.table, input.page, Step, input.now, 2)

\* Frames of the stream and a page of REST candles meet in one table: a bad
\* frame costs itself alone and is counted, every good candle and trade of the
\* stream is kept, and the page adds what is fuller among its closed candles,
\* never the forming one.
MessagesAreKept ==
    input.kind = "messages" =>
        LET klines == {f.row : f \in {g \in Elements(input.frames) : g.event = "kline" /\ g.symbol = "BTC"}} \ BadRows
            closed == {r \in Elements(input.page) : r.open + Step <= input.now}
        IN  /\ Ingested.table = Fullest(klines)
            /\ Len(Ingested.trades) = Cardinality({i \in DOMAIN input.frames : input.frames[i].event = "trade"})
            /\ Ingested.parseErrors
                   = Cardinality({i \in DOMAIN input.frames :
                         /\ input.frames[i].event = "kline"
                         /\ \/ input.frames[i].symbol # "BTC"
                            \/ input.frames[i].row.interval # "1m"
                            \/ input.frames[i].row.open % Step # 0})
            /\ IF closed \intersect BadRows # {}
               THEN Paged.failed /\ Paged.table = Ingested.table
               ELSE ~Paged.failed /\ Paged.table = Fullest(klines \union closed)

-----------------------------------------------------------------------------
Health == [streams |-> buildStreams(getStreamHealth(input.events, input.connected, input.readAt), input.answers, HealthNow),
           ratios |-> input.ratios, failed24h |-> input.failed24h]

\* The headline of the dashboard is never better than a row under it that
\* warns, and it says down whenever a stream had no event for 15 seconds,
\* whether the ingest service answered or the database stood in for it.
HeadlineTellsSilence ==
    input.kind = "health" =>
        LET headline == ToneRank[summarizeHealth(Health)]
            below    == {streamTone(s) : s \in Health.streams} \union {coverageTone(r) : r \in Health.ratios}
        IN  /\ \A tone \in below \ {"idle"} : ToneRank[tone] <= headline
            /\ (\E e \in input.events : e # None /\ HealthNow - e >= LagCritical)
                   => headline = ToneRank["down"]

Skew == 1

\* A request the body schema accepts is never refused by the service behind
\* it; a request the form accepts is refused by the server only for its interval,
\* its length or, if the browser's clock is ahead, an end that the server still
\* finds in the future, which a request for the past meets only if the clocks are
\* apart by more than the tolerance; and every closed candle the request touches
\* lies in the window that is scanned.
RequestsAgree ==
    input.kind = "request" =>
        LET r == input.request
            w == ManualWindow(r, Step)
        IN  /\ BodyAccepts(r, input.now, Skew, MaxRange) => ServiceAccepts(r, MaxRange)
            /\ FormAccepts(r, input.now, Skew)
                   => \/ BodyAccepts(r, input.now + input.gap, Skew, MaxRange)
                      \/ r.interval # BaseInterval
                      \/ r.to - r.from > MaxRange
                      \/ /\ input.gap < 0 /\ input.now + input.gap + Skew < r.to
                         /\ r.to <= input.now => input.gap < -Skew
            /\ BodyAccepts(r, input.now, Skew, MaxRange)
                   => {t \in OpenTimes : t < r.to /\ r.from < t + Step} = Covered(w)

-----------------------------------------------------------------------------
Bars == findCandles(input.table, input.width, input.limit)

InBar(c, bar) == bar.time <= c.time /\ c.time < bar.time + input.width

\* The bars of every interval tell the same story as the one-minute candles:
\* at most limit of them, ascending, the newest candle in the last one; each
\* opens with its first stored candle and closes with its last, and no candle
\* from the first bar on is left out or counted twice.
BarsAreTheirCandles ==
    input.kind = "candles" =>
        /\ Len(Bars) <= input.limit
        /\ \A i, j \in DOMAIN Bars : i < j => Bars[i].time < Bars[j].time
        /\ (Bars = <<>>) = (input.table = {})
        /\ Bars # <<>> => InBar(LastOf(input.table), Last(Bars))
        /\ \A i \in DOMAIN Bars :
               LET own == {c \in input.table : InBar(c, Bars[i])}
               IN  /\ \E c \in own : c.open = Bars[i].open /\ \A d \in own : c.time <= d.time
                   /\ \E c \in own : c.close = Bars[i].close /\ \A d \in own : d.time <= c.time
                   /\ \A c \in own : Bars[i].low <= c.low /\ c.high <= Bars[i].high
                   /\ Bars[i].volume = SumOf(own, "volume")
        /\ \A c \in input.table :
               Bars # <<>> /\ c.time >= Bars[1].time => \E i \in DOMAIN Bars : InBar(c, Bars[i])

Minutes == parseWindowToMinutes(input.window, input.max)

\* A table without gaps that reaches back as far as the queries do.
Complete == {t \in input.now - (2 * WindowBound + input.samples + 1) * Step .. input.now : t % Step = 0}

Day == DayCandles * Step

Snapshot == mapOverviewRow(OverviewRow(input.table, input.trades, input.now, input.window, Day, Step))

Sign(n) == IF n > 0 THEN 1 ELSE IF n < 0 THEN -1 ELSE 0

\* The cards of the overview do not contradict each other or the table: the
\* price is the newest trade's, or without one the newest candle's; the VWAP
\* lies between the prices of its window and the deviation tells the side the
\* price is on; a share is a share; the day's change is taken from a candle
\* that is not part of the day, and is 0 while there is none; the window's
\* volume is within the day's; and without data every card is 0.
OverviewAddsUp ==
    input.kind = "overview" =>
        LET o      == Snapshot
            win    == {c \in input.table : c.time > input.now - input.window * Step /\ c.volume > 0}
            before == {c \in input.table : c.time <= input.now - Day}
        IN  /\ IF input.trades # {}
               THEN \E t \in input.trades :
                        /\ o.lastPrice = t.price
                        /\ \A u \in input.trades : u.time <= t.time /\ (u.time = t.time => u.id <= t.id)
               ELSE o.lastPrice = IF input.table # {} THEN LastOf(input.table).close ELSE 0
            /\ IF win = {} THEN o.vwap = <<0, 1>> /\ o.vwapDeviation = <<0, 1>>
               ELSE /\ \E c, d \in win : c.close * o.vwap[2] <= o.vwap[1] /\ o.vwap[1] <= d.close * o.vwap[2]
                    /\ Sign(o.vwapDeviation[1]) = Sign(o.lastPrice * o.vwap[2] - o.vwap[1])
            /\ 0 <= o.takerBuyRatio[1] /\ o.takerBuyRatio[1] <= o.takerBuyRatio[2]
            /\ IF before = {} THEN o.priceChange24h = <<0, 1>>
               ELSE Sign(o.priceChange24h[1]) = Sign(o.lastPrice - LastOf(before).close)
            /\ SumOf(win, "quote") <= o.quoteVolume24h
            /\ \A f \in {"vwap", "vwapDeviation", "takerBuyRatio", "priceChange24h", "volumeSurge"} : o[f][2] > 0
            /\ input.table = {} /\ input.trades = {}
                   => /\ \A f \in {"lastPrice", "quoteVolume24h", "volatilityReturns", "tradeCount1m"} : o[f] = 0
                      /\ \A f \in {"vwap", "takerBuyRatio", "volumeSurge"} : o[f] = <<0, 1>>

\* A window the schema accepts is one of 1 to max minutes.  On a table without
\* gaps the current window and the one before it hold the same number of
\* candles and share none, each minute of the overview has a return, and every
\* point of the rolling series has a full frame of samples.
WindowsAreWhole ==
    input.kind = "window" =>
        LET n    == IF Minutes <= WindowBound THEN Minutes ELSE WindowBound
            win  == Win(Complete, input.now, n, Step)
            prev == PrevWin(Complete, input.now, n, Step)
        IN  /\ Minutes \in 1 .. input.max
            /\ Minutes = input.window.amount * MinutesOf[input.window.unit] \/ Minutes = input.max
            /\ Cardinality(win) = n /\ Cardinality(prev) = n /\ win \intersect prev = {}
            /\ OverviewReturns(Complete, input.now, n, Step) = win
            /\ RollingPoints(Complete, input.now, n, input.samples, Step) = win
            /\ \A t \in win : Cardinality(RollingFrame(Complete, input.now, n, input.samples, Step, t)) = input.samples

-----------------------------------------------------------------------------
\* What the gauge stands for when its samples were last pruned: the places
\* of the newest ticks of the symbol on the screen that are inside the window.
Shown(p) == {i \in DOMAIN p.seen : p.seen[i].at >= p.asOf - WindowMs /\ i > Len(p.seen) - MaxSamples}

TakerQuote(p, isBuy) ==
    TotalOf([i \in DOMAIN p.seen |->
                IF i \in Shown(p) /\ p.seen[i].tick.isBuyerMaker # isBuy THEN p.seen[i].tick.price ELSE 0])

\* The pressure gauge shows the ticks of the chosen symbol within the window,
\* never those of the symbol before it, no more than MaxSamples, and never
\* older than one pruning period although no tick arrives; the price is that
\* of the last tick.
GaugeIsRecent ==
    input.kind = "ticks" =>
        LET p == input.panel
        IN  /\ p.now - p.asOf <= PruneIntervalMs
            /\ p.pressure = [buyQuote |-> TakerQuote(p, TRUE),
                             sellQuote |-> TakerQuote(p, FALSE),
                             count |-> Cardinality(Shown(p))]
            /\ p.live.price = IF p.seen = <<>> THEN 0 ELSE Last(p.seen).tick.price

-----------------------------------------------------------------------------
\* However long a DELETE takes and whatever is stored meanwhile, no trade
\* within the retention period is ever deleted, a purge that is done leaves
\* none older than its cutoff, and a purge that failed does not keep the next
\* one from running.
PurgeKeepsRecent ==
    input.kind = "purge" =>
        LET s == input.service
        IN  /\ \A t \in input.kept : t >= s.now - RetentionDays => t \in s.trades
            /\ s.isPurging <=> s.cutoff # NoPurge
            /\ \A t \in s.trades : t >= input.swept

-----------------------------------------------------------------------------
\* Gap detection as a whole: complete, separate, and the sets the engine's
\* model works with.
GapsAreExact == DetectsMissingClosed /\ RangesSeparate /\ MergeIsGapRanges

\* What the coverage panel says and draws is what the scan would fill.
CoverageIsTrue == CoverageAgreesWithScan /\ GapsAreSeen

\* What the console shows and what it lets an operator ask for is what the
\* server holds and takes.
ConsoleIsTrue == HeadlineTellsSilence /\ RequestsAgree

\* From a frame or a page to the rows of the table: nothing good is lost,
\* doubled or replaced by less, nothing bad is stored.
RowsAreKept == StoreKeepsFullest /\ ChunksFitStatement /\ CompareIsNumeric /\ QuoteIsExact /\ MessagesAreKept

\* The bars, the windows and the cards are those of the candles in the table.
QueriesAreExact == BarsAreTheirCandles /\ WindowsAreWhole /\ OverviewAddsUp
==============================================================================
