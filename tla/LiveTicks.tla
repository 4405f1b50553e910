------------------------------ MODULE LiveTicks ------------------------------
(***************************************************************************)
(* The hooks that turn the tick stream into the price and the pressure     *)
(* gauge of the dashboard, as functions from the state of a panel to its   *)
(* next state: a tick, the flush of those that came, the pruning timer, a  *)
(* change of symbol.                                                       *)
(* (src/frontend/src/hooks/useLiveTicks.ts,                                *)
(* lib/stream/event-stream-client.ts,                                      *)
(* components/pressure/TakerPressurePanel.tsx)                             *)
(*                                                                         *)
(* A tick is [symbol, price, isBuyerMaker]; its quote is its price (the    *)
(* quantity is 1).  History: arrived, the ticks since the last flush;      *)
(* seen, the ticks of the symbol the panel ought to have been given since  *)
(* it was chosen; asOf, when the samples were last pruned.                 *)
(***************************************************************************)
EXTENDS Integers, Sequences, SequencesExt

CONSTANTS
    WindowMs,          \* the gauge's window
    PruneIntervalMs,   \* period of the pruning timer
    MaxSamples,        \* MAX_SAMPLES
    MaxTickBuffer      \* MAX_TICK_BUFFER

ASSUME GaugeAssumption ==
    WindowMs \in Nat /\ PruneIntervalMs \in Nat /\ MaxSamples \in Nat \ {0} /\ MaxTickBuffer \in Nat

NoPrice == [price |-> 0, direction |-> "none"]

EmptyPressure == [buyQuote |-> 0, sellQuote |-> 0, count |-> 0]

Mounted(symbol) ==
    [symbol |-> symbol, samples |-> <<>>, pressure |-> EmptyPressure, live |-> NoPrice,
     buffer |-> <<>>, arrived |-> <<>>, now |-> 0, timer |-> PruneIntervalMs, seen |-> <<>>, asOf |-> 0]

\* handleTick: the newest MaxTickBuffer ticks wait for the flush.
handleTick(p, tick) ==
    LET buffer == Append(p.buffer, tick)
    IN  [p EXCEPT !.buffer = IF Len(buffer) > MaxTickBuffer THEN Tail(buffer) ELSE buffer, !.arrived = Append(@, tick)]

\* The filters: the elements of s that are in S, in their order.
Only(s, S) ==
    LET kept[n \in 0 .. Len(s)] ==
            IF n = 0 THEN <<>>
            ELSE IF s[n] \in S THEN Append(kept[n - 1], s[n]) ELSE kept[n - 1]
    IN  kept[Len(s)]

OfSymbol(ticks, symbol) == Only(ticks, {t \in Range(ticks) : t.symbol = symbol})

\* useLivePrice: the last tick of the batch; an unchanged price changes nothing.
LivePrice(live, ticks) ==
    IF ticks = <<>> \/ Last(ticks).price = live.price THEN live
    ELSE [price |-> Last(ticks).price,
          direction |-> IF live = NoPrice THEN "flat" ELSE IF Last(ticks).price > live.price THEN "up" ELSE "down"]

pruneSamples(samples, cutoff) ==
    LET kept == Only(samples, {s \in Range(samples) : s.at >= cutoff})
    IN  IF Len(kept) > MaxSamples THEN SubSeq(kept, Len(kept) - MaxSamples + 1, Len(kept)) ELSE kept

\* The sum of a sequence of numbers.
TotalOf(numbers) ==
    LET total[n \in 0 .. Len(numbers)] == IF n = 0 THEN 0 ELSE total[n - 1] + numbers[n]
    IN  total[Len(numbers)]

QuoteOf(samples, isBuy) ==
    TotalOf([i \in DOMAIN samples |-> IF samples[i].isBuy = isBuy THEN samples[i].quote ELSE 0])

\* The same reference is returned when the values are the same.
nextPressureOrSame(prev, samples) ==
    [buyQuote |-> QuoteOf(samples, TRUE), sellQuote |-> QuoteOf(samples, FALSE), count |-> Len(samples)]

\* The samples of a batch, stamped when they arrive.
Sampled(p, ticks) ==
    LET own == OfSymbol(ticks, p.symbol)
    IN  p.samples \o [i \in DOMAIN own |-> [at |-> p.now, quote |-> own[i].price, isBuy |-> ~own[i].isBuyerMaker]]

\* onTicks of both hooks.
OnTicks(p, ticks) ==
    LET own     == OfSymbol(ticks, p.symbol)
        samples == pruneSamples(Sampled(p, ticks), p.now - WindowMs)
    IN  [p EXCEPT !.samples = samples,
                  !.pressure = nextPressureOrSame(@, samples),
                  !.live = LivePrice(@, own),
                  !.asOf = p.now]

\* The ticks a flush has to deliver.
Newest(ticks, n) == SubSeq(ticks, IF Len(ticks) > n THEN Len(ticks) - n + 1 ELSE 1, Len(ticks))

\* flush: the buffer goes to the handlers as one batch.
Flush(p) ==
    LET due == OfSymbol(Newest(p.arrived, MaxTickBuffer), p.symbol)
    IN  [OnTicks(p, p.buffer) EXCEPT !.buffer = <<>>, !.arrived = <<>>,
             !.seen = @ \o [i \in DOMAIN due |-> [at |-> p.now, tick |-> due[i]]]]

\* The interval of useTickPressure: nothing to do when nothing left the window.
OnTimer(p) ==
    LET pruned == pruneSamples(p.samples, p.now - WindowMs)
    IN  [p EXCEPT !.samples = pruned,
                  !.pressure = IF Len(pruned) = Len(p.samples) THEN @ ELSE nextPressureOrSame(@, pruned),
                  !.timer = p.now + PruneIntervalMs,
                  !.asOf = p.now]

\* Mutant: the samples of the old symbol stay in the window.
SwitchSymbolKept(p, symbol) ==
    [p EXCEPT !.symbol = symbol, !.pressure = EmptyPressure, !.live = NoPrice, !.seen = <<>>, !.asOf = p.now]

\* Both hooks drop what they hold while rendering the new symbol.
SwitchSymbol(p, symbol) ==
    [p EXCEPT !.symbol = symbol, !.samples = <<>>, !.pressure = EmptyPressure,
              !.live = NoPrice, !.seen = <<>>, !.asOf = p.now]

\* Time passes; the timer fires first when it is due.
Elapse(p) == IF p.now = p.timer THEN OnTimer(p) ELSE [p EXCEPT !.now = @ + 1]
==============================================================================
