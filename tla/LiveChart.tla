------------------------------ MODULE LiveChart -------------------------------
(***************************************************************************)
(* The price chart of the dashboard for one symbol: a candle is written    *)
(* and published by the ingest service, throttled by the SSE service,      *)
(* buffered by the event client and drawn on the bars the candles query    *)
(* answered.  (src/backend/src/ingest/ingest.service.ts,                   *)
(* realtime/sse-stream.service.ts, api/candles/candles.service.ts,         *)
(* src/frontend/src/lib/stream/event-stream-client.ts, lib/api/client.ts,  *)
(* hooks/useMarketQueries.ts, components/chart)                            *)
(*                                                                         *)
(* The library of the chart is imported when the panel is mounted, and the *)
(* chart is disposed and built again when the viewer's wish for reduced    *)
(* motion changes: meanwhile there is no chart, and frames are dropped.    *)
(*                                                                         *)
(* A payload is a candle and its version; the version Final is the closed  *)
(* candle, 0 says there is none.  The query library is modelled from its   *)
(* use: a refetch replaces a request in flight if the query has data and   *)
(* joins it if it has none, and a query nobody watches aborts its request. *)
(***************************************************************************)
EXTENDS Integers, Sequences, FiniteSets, SequencesExt

CONSTANTS
    Candles,         \* bound: the candles of the run are 1 .. Candles
    Final,           \* bound: the versions of a candle are 1 .. Final
    BufferCap,       \* MAX_CANDLE_BUFFER
    MaxWire,         \* bound: frames under way
    MaxMishaps       \* bound: connections lost, failed writes, requests and imports, charts
                     \* built again, switches away

ASSUME ChartAssumption ==
    /\ Candles \in Nat \ {0} /\ Final \in Nat \ {0} /\ BufferCap \in Nat \ {0}
    /\ MaxWire \in Nat /\ MaxMishaps \in Nat

Times == 1 .. Candles

Payloads == [k : Times, v : 1 .. Final]

None == [k |-> 0, v |-> 0]

Series == [Times -> 0 .. Final]

VARIABLES
    market,          \* the payload the exchange sent last
    db,              \* the table: the version stored of each candle
    throttled,       \* the throttle: whether its window is open, and its trailing value
    wire,            \* frames sent and not received
    lastSent,        \* history: the frame sent last
    live,            \* the status of the event client is "live"
    candleBuffer,    \* of the event client
    shown,           \* the viewer looks at this symbol
    data,            \* what the query holds, <<>> before its first answer
    fetch,           \* the request of the query
    handle,          \* the chart: "loading" (handleRef is null), "ready" or "failed"
    bars,            \* the chart's series, empty without a chart
    excused,         \* history: candles whose last version the chart may lack
    mishaps          \* bound: what happened of them so far

chart == <<handle, bars, excused>>
vars == <<market, db, throttled, wire, lastSent, live, candleBuffer, shown, data, fetch,
          handle, bars, excused, mishaps>>

Empty == [k \in Times |-> 0]

Closed == [open |-> FALSE, trailing |-> None]
Idle == [phase |-> "idle", answer |-> <<>>, joined |-> FALSE]
Asked == [Idle EXCEPT !.phase = "asked"]

\* The panel is mounted: the query asks, the stream connects, the library is imported.
Init ==
    /\ market = None
    /\ db = [k \in Times |-> 0]
    /\ throttled = Closed
    /\ wire = <<>>
    /\ lastSent = None
    /\ live = FALSE
    /\ candleBuffer = <<>>
    /\ shown = TRUE
    /\ data = <<>>
    /\ fetch = Asked
    /\ handle = "loading"
    /\ bars = Empty
    /\ excused = {}
    /\ mishaps = 0

NotOlder(p, q) == p.k > q.k \/ (p.k = q.k /\ p.v >= q.v)

\* lastTime of the chart, 0 when it has no bar.
LastTime(series) == CHOOSE t \in 0 .. Candles :
    /\ t = 0 \/ series[t] # 0
    /\ \A k \in Times : k > t => series[k] = 0

\* The candles the exchange has begun to send.
Begun == 1 .. market.k

\* The candles it has closed.
Settled == {k \in Begun : k < market.k \/ market.v = Final}

-----------------------------------------------------------------------------
\* Mutant: a closed candle is published as closed only.
UpdatedOpenOnly(p) == IF p.v = Final THEN <<>> ELSE <<p>>

\* The KLINE_UPDATED event, published for every payload.
Updated(p) == <<p>>

\* The KLINE_CLOSED event, not throttled.
ClosedFrame(p) == IF p.v = Final THEN <<p>> ELSE <<>>

\* throttleTime with its leading and its trailing value.
Leading(ps) == IF throttled.open THEN <<>> ELSE ps

Throttle(ps) ==
    IF ps = <<>> THEN throttled
    ELSE [open |-> TRUE, trailing |-> IF throttled.open THEN ps[1] ELSE None]

Send(frames) ==
    /\ Len(wire) + Len(frames) <= MaxWire
    /\ wire' = wire \o frames
    /\ lastSent' = IF frames = <<>> THEN lastSent ELSE Last(frames)

Mishap == mishaps < MaxMishaps /\ mishaps' = mishaps + 1

\* writeAndEmitKline: the candle is upserted, or the write fails and is logged; it is
\* published either way, to the subscribers there are.
WriteAndEmitKline ==
    \E p \in Payloads :
        /\ \/ p.k = market.k /\ p.v > market.v
           \/ p.k = market.k + 1 /\ market.v \in {0, Final}
        /\ market' = p
        /\ \/ db' = [db EXCEPT ![p.k] = p.v] /\ UNCHANGED mishaps
           \/ Mishap /\ UNCHANGED db
        /\ IF live
           THEN /\ Send(Leading(Updated(p)) \o ClosedFrame(p))
                /\ throttled' = Throttle(Updated(p))
           ELSE UNCHANGED <<wire, lastSent, throttled>>
        /\ UNCHANGED <<live, candleBuffer, shown, data, fetch, chart>>

\* The window ends: the trailing value is sent and begins the next one.
ThrottleEnds ==
    /\ throttled.open
    /\ IF throttled.trailing = None
       THEN throttled' = Closed /\ UNCHANGED <<wire, lastSent>>
       ELSE /\ throttled' = [throttled EXCEPT !.trailing = None]
            /\ Send(<<throttled.trailing>>)
    /\ UNCHANGED <<market, db, live, candleBuffer, shown, data, fetch, chart, mishaps>>

-----------------------------------------------------------------------------
\* Map.set: a key that is there keeps its place.
Put(buffer, p) ==
    IF \E i \in DOMAIN buffer : buffer[i].k = p.k
    THEN [i \in DOMAIN buffer |-> IF buffer[i].k = p.k THEN p ELSE buffer[i]]
    ELSE Append(buffer, p)

\* The oldest keys are deleted beyond MAX_CANDLE_BUFFER.
Kept(buffer) ==
    IF Len(buffer) > BufferCap
    THEN SubSeq(buffer, Len(buffer) - BufferCap + 1, Len(buffer)) ELSE buffer

\* The candles closed frames are of.
Closes(frames) == {p.k : p \in {q \in frames : q.v = Final}}

\* handleCandle: the frame is put in the buffer.
HandleCandle ==
    /\ wire # <<>>
    /\ wire' = Tail(wire)
    /\ LET buffer  == Put(candleBuffer, Head(wire))
           evicted == {p \in ToSet(buffer) : p \notin ToSet(Kept(buffer))}
       IN  /\ candleBuffer' = Kept(buffer)
           /\ excused' = excused \union Closes(evicted)
    /\ UNCHANGED <<market, db, throttled, lastSent, live, shown, data, fetch, handle, bars,
                   mishaps>>

\* Mutant: a chart without bars takes no update.
UpdateCandleWithBars(series, p) ==
    IF LastTime(series) = 0 \/ p.k < LastTime(series) THEN series
    ELSE [series EXCEPT ![p.k] = p.v]

\* updateCandle: an older bar than the last is ignored.
UpdateCandle(series, p) ==
    IF p.k < LastTime(series) THEN series ELSE [series EXCEPT ![p.k] = p.v]

\* The buffer is handed over in its order (forEach of the Map).
Drawn(series, buffer) ==
    LET drawn[n \in 0 .. Len(buffer)] ==
            IF n = 0 THEN series ELSE UpdateCandle(drawn[n - 1], buffer[n])
    IN  drawn[Len(buffer)]

\* What a series drawn in place of the bars may lack: what they had, or lacked.
Lost(series) == {k \in Times : series[k] # Final /\ (k \in excused \/ bars[k] = Final)}

\* flush, on an animation frame: the buffer is handed to the panel, which hands what is
\* of the symbol it shows to the chart, if there is one (handleRef.current?.).
Flush ==
    /\ candleBuffer # <<>>
    /\ candleBuffer' = <<>>
    /\ IF shown /\ handle # "ready"
       THEN UNCHANGED bars /\ excused' = excused \union Closes(ToSet(candleBuffer))
       ELSE /\ bars' = IF shown THEN Drawn(bars, candleBuffer) ELSE bars
            /\ excused' = Lost(bars')
    /\ UNCHANGED <<market, db, throttled, wire, lastSent, live, shown, data, fetch, handle,
                   mishaps>>

-----------------------------------------------------------------------------
\* The import ends: the chart is created, and what the query holds is drawn (isReady).
\* What is flushed after createChart and before that effect is drawn over by it: it
\* counts as flushed before.
ChartReady ==
    /\ handle = "loading"
    /\ handle' = "ready"
    /\ bars' = IF shown /\ data # <<>> THEN data ELSE bars
    /\ excused' = Lost(bars')
    /\ UNCHANGED <<market, db, throttled, wire, lastSent, live, candleBuffer, shown, data,
                   fetch, mishaps>>

\* The import fails: there is no chart, and nothing imports again by itself.
ImportFails ==
    /\ handle = "loading"
    /\ Mishap
    /\ handle' = "failed"
    /\ UNCHANGED <<market, db, throttled, wire, lastSent, live, candleBuffer, shown, data,
                   fetch, bars, excused>>

\* prefers-reduced-motion changes: the chart is removed, and built again.  The library is
\* there by then: setIsReady(false) and setIsReady(true) may end in one render, that sees
\* no change of isReady, and the new chart then stays empty until the data changes.
ReducedMotionChanges ==
    /\ handle # "loading"
    /\ Mishap
    /\ handle' \in {"loading", handle} \ {"failed"}
    /\ bars' = Empty
    /\ excused' = Lost(Empty)
    /\ UNCHANGED <<market, db, throttled, wire, lastSent, live, candleBuffer, shown, data,
                   fetch>>

\* The connection is lost with what was under way, and the last subscriber with it.
Disconnects ==
    /\ live
    /\ Mishap
    /\ live' = FALSE
    /\ wire' = <<>>
    /\ throttled' = Closed
    /\ UNCHANGED <<market, db, lastSent, candleBuffer, shown, data, fetch, chart>>

\* Mutant: the panel leaves the query alone when the stream is back.
RefetchNone == fetch

\* refetch(): a request in flight is replaced if the query has data, joined if not.
Refetch ==
    IF data = <<>> /\ fetch.phase \in {"asked", "read", "hung"}
    THEN [fetch EXCEPT !.joined = TRUE] ELSE Asked

\* The stream is live again: the panel asks for what it missed (useRefetchOnReconnect).
Reconnects ==
    /\ ~live
    /\ live' = TRUE
    /\ fetch' = IF shown THEN Refetch ELSE fetch
    /\ UNCHANGED <<market, db, throttled, wire, lastSent, candleBuffer, shown, data, chart,
                   mishaps>>

-----------------------------------------------------------------------------
\* findCandles: the server reads the table.
FindCandles ==
    /\ fetch.phase = "asked"
    /\ fetch' = [fetch EXCEPT !.phase = "read", !.answer = db]
    /\ UNCHANGED <<market, db, throttled, wire, lastSent, live, candleBuffer, shown, data,
                   chart, mishaps>>

\* Closed candles an answer lacks: the chart had or missed them, or an outage it began
\* before took their frame.
Lacking(answer) ==
    {k \in Settled : answer[k] # Final /\ (bars[k] = Final \/ k \in excused \/ fetch.joined)}

\* The answer is there; data that changed is drawn in place of the bars (setCandles), if
\* there is a chart.
AnswerArrives ==
    /\ fetch.phase = "read"
    /\ data' = fetch.answer
    /\ fetch' = Idle
    /\ IF data = fetch.answer
       THEN UNCHANGED chart
       ELSE /\ bars' = IF handle = "ready" THEN fetch.answer ELSE bars
            /\ excused' = Lacking(fetch.answer)
            /\ UNCHANGED handle
    /\ UNCHANGED <<market, db, throttled, wire, lastSent, live, candleBuffer, shown, mishaps>>

\* The request fails, its retries too: the bars stay as they are.
RequestFails ==
    /\ fetch.phase \in {"asked", "read"}
    /\ Mishap
    /\ fetch' = [Idle EXCEPT !.phase = "failed"]
    /\ excused' = excused \union {k \in Begun : bars[k] # Final}
    /\ UNCHANGED <<market, db, throttled, wire, lastSent, live, candleBuffer, shown, data,
                   handle, bars>>

\* The body of the answer never ends; the timeout was cleared when its headers came.
BodyHangs ==
    /\ fetch.phase = "read"
    /\ Mishap
    /\ fetch' = [fetch EXCEPT !.phase = "hung", !.answer = <<>>]
    /\ UNCHANGED <<market, db, throttled, wire, lastSent, live, candleBuffer, shown, data,
                   chart>>

\* The viewer presses the retry button of the error.
Retry ==
    /\ shown /\ fetch.phase = "failed"
    /\ fetch' = Refetch
    /\ UNCHANGED <<market, db, throttled, wire, lastSent, live, candleBuffer, shown, data,
                   chart, mishaps>>

\* The viewer looks at another symbol: nobody watches the query.
SwitchAway ==
    /\ shown /\ data # <<>>
    /\ Mishap
    /\ shown' = FALSE
    /\ fetch' = Idle
    /\ UNCHANGED <<market, db, throttled, wire, lastSent, live, candleBuffer, data, chart>>

\* And comes back: what the query holds is drawn, and asked for again unless it is
\* younger than its staleTime.
SwitchBack ==
    /\ ~shown
    /\ shown' = TRUE
    /\ bars' = IF handle = "ready" THEN data ELSE bars
    /\ \/ fetch' = Asked /\ excused' = excused
       \/ fetch' = Idle /\ excused' = {k \in Begun : data[k] # Final}
    /\ UNCHANGED <<market, db, throttled, wire, lastSent, live, candleBuffer, data, handle,
                   mishaps>>

Next ==
    \/ WriteAndEmitKline \/ ThrottleEnds
    \/ HandleCandle \/ Flush \/ Disconnects \/ Reconnects
    \/ FindCandles \/ AnswerArrives \/ RequestFails \/ BodyHangs \/ Retry
    \/ SwitchAway \/ SwitchBack
    \/ ChartReady \/ ImportFails \/ ReducedMotionChanges

(***************************************************************************)
(* Frames arrive and the tab is visible.  Nobody has to look back, the     *)
(* exchange may stop, and a request may stay without an answer, or the     *)
(* import of the library without an end.                                   *)
(***************************************************************************)
Fairness == WF_vars(HandleCandle) /\ WF_vars(Flush)

Spec == Init /\ [][Next]_vars /\ Fairness

-----------------------------------------------------------------------------
\* Type correctness; the buffer is bounded, however long the tab stays hidden.
TypeOK ==
    /\ market \in Payloads \union {None}
    /\ db \in Series
    /\ throttled \in [open : BOOLEAN, trailing : Payloads \union {None}]
    /\ wire \in Seq(Payloads) /\ Len(wire) <= MaxWire
    /\ lastSent \in Payloads \union {None}
    /\ live \in BOOLEAN
    /\ candleBuffer \in Seq(Payloads) /\ Len(candleBuffer) <= BufferCap
    /\ shown \in BOOLEAN
    /\ data \in Series \union {<<>>}
    /\ fetch \in [phase : {"idle", "asked", "read", "hung", "failed"},
                  answer : Series \union {<<>>}, joined : BOOLEAN]
    /\ handle \in {"loading", "ready", "failed"}
    /\ bars \in Series
    /\ excused \subseteq Times
    /\ mishaps \in 0 .. MaxMishaps

\* A frame is never followed by an older one: the trailing value of the throttle does
\* not put an open candle back after its closed frame went past it.
FramesNeverGoBack == [][NotOlder(lastSent', lastSent)]_vars

\* A bar with a bar after it is the closed candle, or the table lacks that too, or the
\* query is at work on it, or one of the named losses took its closed frame: an answer
\* read before the candle closed came after the frame or was still in the cache, a full
\* buffer, a failed request, a request joined across the outage, a frame buffered before
\* the outage and drawn over the answer, a frame flushed while there was no chart, a
\* chart built again and drawn from an older answer or from none.  There is no other way.
OldBarsAreFinal ==
    shown => \A k \in 1 .. LastTime(bars) - 1 :
                \/ bars[k] = Final
                \/ db[k] # Final
                \/ k \in excused
                \/ fetch.phase \in {"asked", "read", "hung"}

\* A frame under way moves the chart on to its candle, if there is a chart and it is there
\* until then, whatever became of the query; the last candle of the run stands for all.
FramesReachTheChart ==
    (shown /\ live /\ handle = "ready" /\ Candles \in {p.k : p \in ToSet(wire)})
        ~> (~shown \/ ~live \/ handle # "ready" \/ LastTime(bars) = Candles)

\* The chart is within its bounds and shows no unfinished bar but for a named loss.
ChartIsSound == TypeOK /\ OldBarsAreFinal
==============================================================================
