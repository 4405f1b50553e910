------------------------------- MODULE GapMath -------------------------------
(***************************************************************************)
(* The loops of gap detection, in milliseconds, as the code runs them: the *)
(* expected sequence of open times, the merge of the missing ones into     *)
(* half-open ranges, and GapDetector.detectGaps that composes them.        *)
(* (src/backend/src/backfill/gap-math.ts, gap-detector.ts)                 *)
(***************************************************************************)
EXTENDS CandleRanges, Sequences

countCandles(r, step) ==
    IF r.end <= r.start THEN 0 ELSE (r.end - r.start + step - 1) \div step

\* The open times a complete [from, to) holds, ascending.
buildExpectedOpenTimes(from, to, step) ==
    LET first == ceilToStep(from, step)
    IN  [i \in 1 .. countCandles([start |-> first, end |-> to], step) |-> first + (i - 1) * step]

\* The filter over the expected open times.
findMissingOpenTimes(expected, existing) ==
    LET missing[n \in 0 .. Len(expected)] ==
            IF n = 0 THEN <<>>
            ELSE IF expected[n] \in existing THEN missing[n - 1]
            ELSE Append(missing[n - 1], expected[n])
    IN  missing[Len(expected)]

\* One turn of the loop over the ascending missing open times: a run is
\* closed when the next open time is not the previous one plus a step.
MergeStep(acc, t, step) ==
    IF acc.open /\ t # acc.prev + step
    THEN [acc EXCEPT !.ranges = Append(@, [start |-> acc.start, end |-> acc.prev + step]),
                     !.start = t, !.prev = t]
    ELSE [acc EXCEPT !.open = TRUE,
                     !.start = IF acc.open THEN @ ELSE t,
                     !.prev = t]

mergeIntoRanges(missing, step) ==
    LET turn[n \in 0 .. Len(missing)] ==
            IF n = 0 THEN [ranges |-> <<>>, open |-> FALSE, start |-> 0, prev |-> 0]
            ELSE MergeStep(turn[n - 1], missing[n], step)
        acc == turn[Len(missing)]
    IN  IF acc.open
        THEN Append(acc.ranges, [start |-> acc.start, end |-> acc.prev + step])
        ELSE acc.ranges

\* Mutant: the end is not capped to the closed candles.
detectGapsUncapped(existing, from, to, now, step) ==
    LET fromMs == ceilToStep(from, step)
        seen   == {t \in existing : fromMs <= t /\ t <= to}
    IN  IF fromMs >= to THEN <<>>
        ELSE mergeIntoRanges(findMissingOpenTimes(buildExpectedOpenTimes(fromMs, to, step), seen), step)

\* GapDetector.detectGaps.  existing is the table; the SELECT bounds are
\* inclusive at both ends.
detectGaps(existing, from, to, now, step) ==
    LET fromMs == ceilToStep(from, step)
        toMs   == capEndToClosedCandles(to, now, step)
        seen   == {t \in existing : fromMs <= t /\ t <= toMs}
    IN  IF fromMs >= toMs THEN <<>>
        ELSE mergeIntoRanges(findMissingOpenTimes(buildExpectedOpenTimes(fromMs, toMs, step), seen), step)
==============================================================================
