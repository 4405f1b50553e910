---------------------------- MODULE MarketMessages ----------------------------
(***************************************************************************)
(* What becomes of a message of the exchange: a frame of the combined      *)
(* stream is refused or turned into a candle or a trade, and a page of     *)
(* REST candles is turned into a batch without the forming one.            *)
(* (src/backend/src/ingest/stream-message.parser.ts, decimal.util.ts,      *)
(* ingest.service.ts, backfill/kline-mapper.ts, backfill-runner.ts)        *)
(*                                                                         *)
(* A frame is [event, symbol, row] for a kline and [event, symbol, price,  *)
(* qty] for a trade; the price and the quantity are the decimal strings of *)
(* KlineStore.  The rows of one symbol are looked at, as there.            *)
(***************************************************************************)
EXTENDS KlineStore

CONSTANT SupportedSymbols

StreamInterval == "1m"

(***************************************************************************)
(* decimal.util.ts                                                         *)
(***************************************************************************)
Number(digits) == FoldLeft(LAMBDA n, d : 10 * n + d, 0, digits)

\* parseDecimal of decimal.util.ts: the digits as one number, and the scale.
Scaled(raw) ==
    [digits |-> (IF raw.neg THEN -1 ELSE 1) * Number(raw.int \o raw.frac), scale |-> Len(raw.frac)]

TenTo(k) ==
    LET power[i \in 0 .. k] == IF i = 0 THEN 1 ELSE 10 * power[i - 1]
    IN  power[k]

\* The width digits of n, with leading zeros.
DigitsOf(n, width) == [i \in 1 .. width |-> (n \div TenTo(width - i)) % 10]

\* As many digits as toString().padStart(scale + 1, '0') has.
WidthOf(n, scale) ==
    CHOOSE w \in (scale + 1) .. (scale + 1 + n) : n < TenTo(w) /\ (w = scale + 1 \/ TenTo(w - 1) <= n)

formatScaled(digits, scale) ==
    LET abs == IF digits < 0 THEN -digits ELSE digits
        all == DigitsOf(abs, WidthOf(abs, scale))
        cut == Len(all) - scale
    IN  [neg |-> digits < 0, int |-> SubSeq(all, 1, cut), frac |-> SubSeq(all, cut + 1, Len(all))]

mulDecimal(a, b) == formatScaled(Scaled(a).digits * Scaled(b).digits, Scaled(a).scale + Scaled(b).scale)

(***************************************************************************)
(* The stream.  parseStreamMessage throws for a frame that is not Parsed.  *)
(***************************************************************************)
\* The schemas, and the alignment toKlineMessage looks at.
Parsed(frame) ==
    /\ frame.symbol \in SupportedSymbols
    /\ \/ frame.event = "trade"
       \/ /\ frame.event = "kline"
          /\ frame.row.interval = StreamInterval
          /\ isAlignedToInterval(frame.row.open, IntervalMs[StreamInterval])

toTradeMessage(frame) == [price |-> frame.price, qty |-> frame.qty, quoteQty |-> mulDecimal(frame.price, frame.qty)]

\* handleRawMessage: counted when refused, else upserted or buffered.  A candle the
\* repository refuses is logged.
handleRawMessage(ingest, frame) ==
    IF ~Parsed(frame) THEN [ingest EXCEPT !.parseErrors = @ + 1]
    ELSE IF frame.event = "kline" THEN [ingest EXCEPT !.table = upsertMany(@, <<frame.row>>, 1, 1).table]
    ELSE [ingest EXCEPT !.trades = Append(@, toTradeMessage(frame))]

(***************************************************************************)
(* A page of a backfill.                                                   *)
(***************************************************************************)
isClosedCandle(kline, ms, now) == kline.open + ms <= now

\* rows.filter
ClosedCandles(page, ms, now) ==
    FoldLeft(LAMBDA kept, k : IF isClosedCandle(k, ms, now) THEN Append(kept, k) ELSE kept, <<>>, page)

\* toKlineInsert throws at a row that is not aligned.
Mappable(rows, ms) == \A i \in DOMAIN rows : rows[i].open % ms = 0

\* upsertPage of the runner: what upsertMany leaves, or the throw of the mapper.
upsertPage(table, page, ms, now, size) ==
    LET closed == ClosedCandles(page, ms, now)
    IN  IF ~Mappable(closed, ms) THEN [table |-> table, failed |-> TRUE]
        ELSE IF closed = <<>> THEN [table |-> table, failed |-> FALSE]
        ELSE upsertMany(table, closed, size, Len(closed))
==============================================================================
