------------------------------ MODULE Paginator ------------------------------
(***************************************************************************)
(* One attempt of a backfill job: paginateKlines with the page sink of     *)
(* BackfillRunner.runAttempt, between markRunning and its outcome.         *)
(* (src/backend/src/backfill/rest-paginator.ts, backfill-runner.ts)        *)
(*                                                                         *)
(* A candle is its index.  Binance is external: it answers a page with the *)
(* first candles it has from the cursor on ("honest"), and, if           *)
(* PageFaults allows, it rejects, or answers with candles nobody asked for *)
(* ("junk"), each page in ascending order.                                 *)
(* BackfillEngine sees an attempt as one step; SuccessIsComplete and       *)
(* WritesPrefix are what it takes for granted.                             *)
(***************************************************************************)
EXTENDS CandleRanges, FiniteSets

CONSTANTS
    PageHorizon,     \* bound: candles are 0 .. PageHorizon
    PageLimit,       \* KLINES_PAGE_LIMIT
    Margin,          \* MAX_PAGES_SAFETY_MARGIN
    HardCap,         \* MAX_PAGES_HARD_CAP
    PageFaults       \* subset of {"reject", "junk", "upsert"}

ASSUME PaginatorAssumption ==
    /\ PageHorizon \in Nat
    /\ PageLimit \in Nat \ {0} /\ Margin \in Nat /\ HardCap \in Nat \ {0}
    /\ PageFaults \subseteq {"reject", "junk", "upsert"}

PageCandles == 0 .. PageHorizon

VARIABLES
    range,           \* the job's range, its end already capped
    exchange,        \* the candles Binance has
    honest,          \* whether it answers what it was asked for
    cursor,
    pages,
    batch,           \* the page fetched and not yet consumed
    written,         \* the candles this attempt upserted
    stop             \* "none" while the loop runs

attemptVars == <<range, exchange, honest, cursor, pages, batch, written, stop>>

NoBatch == {-1}

\* Mutant: the last, partly filled page is not counted.
computeMaxPagesFloor(start, end) ==
    IF (end - start) \div PageLimit < HardCap THEN (end - start) \div PageLimit ELSE HardCap

computeMaxPages(start, end) ==
    LET candles == IF end > start THEN end - start ELSE 0
        needed  == (candles + PageLimit - 1) \div PageLimit + Margin
    IN  IF needed < HardCap THEN needed ELSE HardCap

AttemptInit ==
    /\ range \in [start : PageCandles, end : PageCandles]
    /\ exchange \in SUBSET PageCandles
    /\ honest \in (IF "junk" \in PageFaults THEN BOOLEAN ELSE {TRUE})
    /\ cursor = range.start
    /\ pages = 0
    /\ batch = NoBatch
    /\ written = {}
    /\ stop = "none"

Running == stop = "none" /\ batch = NoBatch

\* What Binance has from the cursor to the last candle of the range.
Served == {m \in exchange : cursor <= m /\ m <= range.end - 1}

\* The first candles of S, at most a page of them.
FirstPage(S) == {m \in S : Cardinality({n \in S : n < m}) < PageLimit}

LoopEnds ==
    /\ Running /\ cursor >= range.end
    /\ stop' = "completed"
    /\ UNCHANGED <<range, exchange, honest, cursor, pages, batch, written>>

TooManyPages ==
    /\ Running /\ cursor < range.end
    /\ pages >= computeMaxPages(range.start, range.end)
    /\ stop' = "max_pages_exceeded"
    /\ UNCHANGED <<range, exchange, honest, cursor, pages, batch, written>>

\* fetchPage is answered.
FetchPage ==
    /\ Running /\ cursor < range.end
    /\ pages < computeMaxPages(range.start, range.end)
    /\ pages' = pages + 1
    /\ \/ batch' = FirstPage(Served)
       \/ /\ ~honest
          /\ batch' \in {S \in SUBSET PageCandles : Cardinality(S) <= PageLimit}
    /\ UNCHANGED <<range, exchange, honest, cursor, written, stop>>

FetchRejects ==
    /\ "reject" \in PageFaults
    /\ Running /\ cursor < range.end
    /\ pages < computeMaxPages(range.start, range.end)
    /\ stop' = "threw"
    /\ UNCHANGED <<range, exchange, honest, cursor, pages, batch, written>>

EmptyPage ==
    /\ stop = "none" /\ batch = {}
    /\ stop' = "empty_page"
    /\ UNCHANGED <<range, exchange, honest, cursor, pages, batch, written>>

\* The rows of a page that are consumed.
InRange(S) == {m \in S : cursor <= m /\ m < range.end}

LastOf(S) == CHOOSE m \in S : \A n \in S : n <= m

\* Mutant: a page is taken to be full, so the cursor skips ahead.
NextCursorByLimit(S) == cursor + PageLimit + 1

NextCursor(S) == LastOf(S) + 1

\* onPage upserts the page, then the cursor moves past it.
ConsumePage ==
    /\ stop = "none" /\ batch \notin {NoBatch, {}}
    /\ written' = written \union InRange(batch)
    /\ IF NextCursor(batch) <= cursor
       THEN stop' = "cursor_stalled" /\ UNCHANGED cursor
       ELSE cursor' = NextCursor(batch) /\ UNCHANGED stop
    /\ batch' = NoBatch
    /\ UNCHANGED <<range, exchange, honest, pages>>

\* The upsert throws: its one INSERT (a page is less than a chunk) was not
\* applied, or only its answer is lost.
UpsertFails ==
    /\ "upsert" \in PageFaults
    /\ stop = "none" /\ batch \notin {NoBatch, {}}
    /\ InRange(batch) # {}
    /\ written' \in {written, written \union InRange(batch)}
    /\ stop' = "threw"
    /\ UNCHANGED <<range, exchange, honest, cursor, pages, batch>>

AttemptNext ==
    \/ LoopEnds \/ TooManyPages \/ FetchPage \/ FetchRejects
    \/ EmptyPage \/ ConsumePage \/ UpsertFails

AttemptSpec == AttemptInit /\ [][AttemptNext]_attemptVars

-----------------------------------------------------------------------------
\* What markSucceeded is called for (backfill-runner.ts, runAttempt).
Succeeds == stop \in {"completed", "empty_page"}

AttemptTypeOK ==
    /\ range \in [start : PageCandles, end : PageCandles]
    /\ exchange \subseteq PageCandles
    /\ honest \in BOOLEAN
    /\ cursor \in PageCandles \union {PageHorizon + 1}
    /\ pages \in 0 .. HardCap
    /\ batch = NoBatch \/ batch \subseteq PageCandles
    /\ written \subseteq PageCandles
    /\ stop \in {"none", "completed", "empty_page", "cursor_stalled",
                 "max_pages_exceeded", "threw"}

\* Against an honest exchange, a successful attempt has written every candle
\* of its range the exchange has, and nothing else.
SuccessIsComplete ==
    honest /\ Succeeds => written = exchange \intersect CandlesOf(range)

\* At every moment what an attempt has written is a prefix of what an honest
\* exchange has in the range: nothing behind the cursor was skipped.  This is
\* what AttemptBreaks of the engine takes for granted.
WritesPrefix ==
    honest => \A m \in written : exchange \intersect (range.start .. m) \subseteq written

\* Whatever the exchange answers, candles outside the range are not written.
WritesInsideRange == written \subseteq CandlesOf(range)

\* The page limit is generous enough: an honest exchange is never cut off.
HonestNeverCutOff == honest => stop \notin {"max_pages_exceeded", "cursor_stalled"}

\* The three together: what an attempt writes is the range's part of the
\* exchange, in order, and all of it once the attempt succeeds.
WritesAreExact == AttemptTypeOK /\ SuccessIsComplete /\ WritesPrefix /\ WritesInsideRange
==============================================================================
