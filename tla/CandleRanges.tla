---------------------------- MODULE CandleRanges -----------------------------
(***************************************************************************)
(* The arithmetic under the backfill engine that needs no loop: step       *)
(* alignment, half-open ranges, the cap that keeps the forming candle out, *)
(* the runs of missing candles and the startup decision.                   *)
(* (src/backend/src/backfill/gap-math.ts, startup-plan.ts)                 *)
(*                                                                         *)
(* A candle is its open time.  The alignment operators take milliseconds   *)
(* and a step; everything below them is in candle indices (step 1).        *)
(***************************************************************************)
EXTENDS Integers

floorToStep(ts, step) == (ts \div step) * step

ceilToStep(ts, step) == ((ts + step - 1) \div step) * step

capEndToClosedCandles(end, now, step) ==
    IF end <= floorToStep(now, step) THEN end ELSE floorToStep(now, step)

\* Two half-open ranges share a point.
rangesOverlap(a, b) == a.start < b.end /\ b.start < a.end

\* The candles of a range, in candle indices.
CandlesOf(r) == r.start .. (r.end - 1)

\* What mergeIntoRanges computes, said without its loop: the maximal runs of
\* missing candles.  GapMath checks the loop against it.
GapRanges(missing) ==
    {r \in [start : missing, end : {m + 1 : m \in missing}] :
        /\ r.start < r.end
        /\ CandlesOf(r) \subseteq missing
        /\ r.start - 1 \notin missing
        /\ r.end \notin missing}

\* latestOpenTime / earliestOpenTime of an empty table.
NoOpenTime == -1

\* Mutant: the forming candle is part of the startup window.
resolveStartupPlanForming(latest, earliest, now, depth) ==
    [start |-> IF earliest = NoOpenTime \/ earliest > now - depth THEN now - depth ELSE latest + 1,
     end |-> now + 1]

\* resolveStartupPlan: the window to fill when the process starts; a window
\* with start >= end stands for null (nothing to do).
resolveStartupPlan(latest, earliest, now, depth) ==
    LET oldest == now - depth
        resume == IF latest = NoOpenTime THEN oldest + 1 ELSE latest + 1
    IN  IF earliest = NoOpenTime \/ earliest > oldest
        THEN [start |-> oldest, end |-> now]
        ELSE [start |-> IF resume > oldest THEN resume ELSE oldest, end |-> now]
==============================================================================
