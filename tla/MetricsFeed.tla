----------------------------- MODULE MetricsFeed ------------------------------
(***************************************************************************)
(* The metric snapshots on their way to a dashboard: the cache that        *)
(* computes them from the database, the SSE stream that pushes them, and   *)
(* the query cache of the browser, filled by frames and by requests.       *)
(* (src/backend/src/metrics/metrics-cache.service.ts,                      *)
(* realtime/sse-stream.service.ts, src/frontend/src/hooks/                 *)
(* useStreamCacheSync.ts, useMarketQueries.ts)                             *)
(*                                                                         *)
(* The version of a snapshot is the number of closed candles it was        *)
(* computed from.  One browser is watched.  The timers fire at any time:   *)
(* their periods, all METRICS_REFRESH_MS, do not keep them in phase.       *)
(***************************************************************************)
EXTENDS Integers, FiniteSets, Sequences, SequencesExt

CONSTANTS
    Order,           \* the configured symbols, in the order refreshAll takes them
    MaxCandles,      \* bound: candles that close, per symbol
    MaxFailures,     \* bound: queries and writes the database refuses
    MaxDrops         \* bound: connections that break

ASSUME FeedAssumption ==
    /\ Order \in Seq(STRING) /\ Order # <<>>
    /\ MaxCandles \in Nat /\ MaxFailures \in Nat /\ MaxDrops \in Nat

Symbols == ToSet(Order)

None == -1       \* no snapshot, no value

Unread == -2     \* a query that has not read the tables yet

Versions == 0 .. MaxCandles

VARIABLES
    table,           \* closed candles stored, per symbol
    snapshots,       \* MetricsCacheService.snapshots
    queries,         \* the computations under way, each by the version it has read
    refresh,         \* refreshAll: the index of its symbol, 0 when ~isRefreshing
    closedWaits,     \* symbols whose handleKlineClosed awaits the computation
    polled,          \* symbols whose poll awaits it (exhaustMap)
    throttle,        \* throttlePerSymbol: its window and the value kept for its end
    connected,       \* the browser's stream is open
    initial,         \* buildInitialEvents: its overviews, or that it awaits them
    request,         \* the GET /metrics/overview under way, per symbol
    shown,           \* the overview in the browser's query cache
    sent,            \* history: the last overview of metrics$ on this connection
    failures,        \* bound: failed so far
    drops            \* bound: broken connections so far

cache == <<table, snapshots, queries, refresh, closedWaits>>

sse == <<polled, throttle, connected, initial, sent>>

browser == <<request, shown>>

vars == <<cache, sse, browser, failures, drops>>

Closed == [open |-> FALSE, trailing |-> None]

Absent == -3     \* no initial snapshot, no request under way

\* onModuleInit, before any browser can connect: the first refreshAll has begun.
Init ==
    /\ table = [s \in Symbols |-> 0]
    /\ snapshots = [s \in Symbols |-> None]
    /\ queries = [s \in Symbols |-> IF s = Order[1] THEN {Unread} ELSE {}]
    /\ refresh = 1
    /\ closedWaits = {}
    /\ polled = {}
    /\ throttle = [s \in Symbols |-> Closed]
    /\ connected = FALSE
    /\ initial = [s \in Symbols |-> Absent]
    /\ request = [s \in Symbols |-> Absent]
    /\ shown = [s \in Symbols |-> None]
    /\ sent = [s \in Symbols |-> None]
    /\ failures = 0
    /\ drops = 0

\* Mutant: every caller computes for itself.
computeOnceEach(running) == running \union {Unread}

\* computeOnce joins the computation under way, or starts one.
computeOnce(running) == IF running = {} THEN {Unread} ELSE running

\* MetricsEvents.METRICS_UPDATED, which the cache publishes.
MetricsUpdated == "metrics.updated"

\* METRICS_SNAPSHOT_EVENT, which the stream listens to.
MetricsSnapshotEvent == "metrics.snapshot"

PushArrives == MetricsUpdated = MetricsSnapshotEvent

(***************************************************************************)
(* throttlePerSymbol: the first value goes out and opens a window; of the  *)
(* values in the window the last is kept for its end.                      *)
(***************************************************************************)
Enters(s, v) ==
    IF throttle[s].open
    THEN /\ throttle' = [throttle EXCEPT ![s].trailing = v]
         /\ UNCHANGED <<sent, shown>>
    ELSE /\ throttle' = [throttle EXCEPT ![s].open = TRUE]
         /\ sent' = [sent EXCEPT ![s] = v]
         /\ shown' = [shown EXCEPT ![s] = v]

-----------------------------------------------------------------------------
\* A candle is stored, or its write fails; its closing is announced either way,
\* and handleKlineClosed computes the overview again.
CandleCloses(s) ==
    /\ table[s] < MaxCandles
    /\ \/ /\ table' = [table EXCEPT ![s] = @ + 1]
          /\ UNCHANGED failures
       \/ /\ failures < MaxFailures
          /\ failures' = failures + 1
          /\ UNCHANGED table
    /\ queries' = [queries EXCEPT ![s] = computeOnce(@)]
    /\ closedWaits' = closedWaits \union {s}
    /\ UNCHANGED <<snapshots, refresh, sse, browser, drops>>

\* Mutant: the cache is filled at the start; afterwards only closed candles count.
RefreshStartsOnce ==
    /\ refresh = 0
    /\ \A s \in Symbols : snapshots[s] = None
    /\ refresh' = 1
    /\ queries' = [queries EXCEPT ![Order[1]] = computeOnce(@)]
    /\ UNCHANGED <<table, snapshots, closedWaits, sse, browser, failures, drops>>

\* The timer of refreshAll; it skips its turn while isRefreshing.
RefreshStarts ==
    /\ refresh = 0
    /\ refresh' = 1
    /\ queries' = [queries EXCEPT ![Order[1]] = computeOnce(@)]
    /\ UNCHANGED <<table, snapshots, closedWaits, sse, browser, failures, drops>>

\* The database evaluates a query.
QueryReads(s) ==
    /\ Unread \in queries[s]
    /\ queries' = [queries EXCEPT ![s] = (@ \ {Unread}) \union {table[s]}]
    /\ UNCHANGED <<table, snapshots, refresh, closedWaits, sse, browser, failures, drops>>

\* Mutant: an error leaves the loop of refreshAll with isRefreshing set.
RefreshAfterStuck(s, running, failed) ==
    IF refresh = 0 \/ Order[refresh] # s
    THEN refresh' = refresh /\ queries' = running
    ELSE IF failed \/ refresh = Len(Order)
         THEN refresh' = (IF failed THEN refresh ELSE 0) /\ queries' = running
         ELSE /\ refresh' = refresh + 1
              /\ queries' = [running EXCEPT ![Order[refresh + 1]] = computeOnce(@)]

\* refreshAll goes on when the computation it awaits is over, failed or not.
RefreshAfter(s, running, failed) ==
    IF refresh = 0 \/ Order[refresh] # s
    THEN refresh' = refresh /\ queries' = running
    ELSE IF refresh = Len(Order)
         THEN refresh' = 0 /\ queries' = running
         ELSE /\ refresh' = refresh + 1
              /\ queries' = [running EXCEPT ![Order[refresh + 1]] = computeOnce(@)]

\* Whoever awaits the overview of s: an initial snapshot, a request.
Answered(f, s, v) == IF f[s] = Unread THEN [f EXCEPT ![s] = v] ELSE f

\* The overview is published by refreshAll and handleKlineClosed if they await it, not
\* by getOverview.
Published(s) == s \in closedWaits \/ (refresh # 0 /\ Order[refresh] = s)

\* computeFromDb returns: the snapshot is replaced, and all that await it go on.
\* What is published enters metrics$ only if the names of the events agree.
QueryReturns(s) ==
    /\ \E v \in queries[s] \ {Unread} :
          /\ snapshots' = [snapshots EXCEPT ![s] = v]
          /\ RefreshAfter(s, [queries EXCEPT ![s] = @ \ {v}], FALSE)
          /\ initial' = Answered(initial, s, v)
          /\ request' = Answered(request, s, v)
          /\ IF connected /\ (s \in polled \/ (Published(s) /\ PushArrives))
             THEN Enters(s, v)
             ELSE UNCHANGED <<throttle, sent, shown>>
    /\ closedWaits' = closedWaits \ {s}
    /\ polled' = polled \ {s}
    /\ UNCHANGED <<table, connected, failures, drops>>

\* The last good snapshot is kept.
SnapshotAfterError(s) == snapshots[s]

\* computeFromDb rejects: the error is logged, whoever awaited it gets nothing.
QueryFails(s) ==
    /\ failures < MaxFailures
    /\ failures' = failures + 1
    /\ \E v \in queries[s] :
          RefreshAfter(s, [queries EXCEPT ![s] = @ \ {v}], TRUE)
    /\ snapshots' = [snapshots EXCEPT ![s] = SnapshotAfterError(s)]
    /\ closedWaits' = closedWaits \ {s}
    /\ polled' = polled \ {s}
    /\ initial' = Answered(initial, s, None)
    /\ request' = Answered(request, s, Absent)
    /\ UNCHANGED <<table, throttle, connected, sent, shown, drops>>

\* getOverview: the snapshot, or the computation that will make it.
Overview(s) == IF snapshots[s] # None THEN snapshots[s] ELSE Unread

\* getOverview computes only while there is no snapshot.
Computes(S) ==
    queries' = [s \in Symbols |-> IF s \in S /\ snapshots[s] = None THEN computeOnce(queries[s])
                                  ELSE queries[s]]

\* The browser connects: the initial snapshot is put together.
Connect ==
    /\ ~connected
    /\ connected' = TRUE
    /\ initial' = [s \in Symbols |-> Overview(s)]
    /\ Computes(Symbols)
    /\ UNCHANGED <<table, snapshots, refresh, closedWaits, polled, throttle, sent, browser,
                   failures, drops>>

\* The connection breaks: the last subscriber leaves, and share() takes the polls
\* and the throttle down.
Disconnect ==
    /\ connected
    /\ drops < MaxDrops
    /\ drops' = drops + 1
    /\ connected' = FALSE
    /\ polled' = {}
    /\ throttle' = [s \in Symbols |-> Closed]
    /\ initial' = [s \in Symbols |-> Absent]
    /\ sent' = [s \in Symbols |-> None]
    /\ UNCHANGED <<cache, browser, failures>>

\* The initial snapshot leaves once every part of it is settled; the parts that
\* failed are left out.
InitialSent ==
    /\ connected
    /\ \A s \in Symbols : initial[s] \notin {Unread, Absent}
    /\ shown' = [s \in Symbols |-> IF initial[s] # None THEN initial[s] ELSE shown[s]]
    /\ initial' = [s \in Symbols |-> Absent]
    /\ UNCHANGED <<cache, polled, throttle, connected, sent, request, failures, drops>>

\* The poll of metrics$ asks the cache, unless its last answer is still to come.
PollTicks(s) ==
    /\ connected
    /\ s \notin polled
    /\ IF snapshots[s] # None
       THEN Enters(s, snapshots[s]) /\ UNCHANGED polled
       ELSE /\ polled' = polled \union {s}
            /\ UNCHANGED <<throttle, sent, shown>>
    /\ Computes({s})
    /\ UNCHANGED <<table, snapshots, refresh, closedWaits, connected, initial, request,
                   failures, drops>>

\* The window of the throttle ends: the value kept goes out and opens another.
WindowEnds(s) ==
    /\ throttle[s].open
    /\ IF throttle[s].trailing = None
       THEN /\ throttle' = [throttle EXCEPT ![s] = Closed]
            /\ UNCHANGED <<sent, shown>>
       ELSE /\ throttle' = [throttle EXCEPT ![s].trailing = None]
            /\ sent' = [sent EXCEPT ![s] = throttle[s].trailing]
            /\ shown' = [shown EXCEPT ![s] = throttle[s].trailing]
    /\ UNCHANGED <<cache, polled, connected, initial, request, failures, drops>>

\* useMetricsOverview: the browser asks when it has nothing or has no stream.
RequestSent(s) ==
    /\ request[s] = Absent
    /\ ~connected \/ shown[s] = None
    /\ request' = [request EXCEPT ![s] = Overview(s)]
    /\ Computes({s})
    /\ UNCHANGED <<table, snapshots, refresh, closedWaits, sse, shown, failures, drops>>

\* The answer replaces what the query cache holds, whatever came in between.
ResponseArrives(s) ==
    /\ request[s] \in Versions
    /\ shown' = [shown EXCEPT ![s] = request[s]]
    /\ request' = [request EXCEPT ![s] = Absent]
    /\ UNCHANGED <<cache, sse, failures, drops>>

Next ==
    \/ RefreshStarts \/ Connect \/ Disconnect \/ InitialSent
    \/ \E s \in Symbols :
          \/ CandleCloses(s) \/ QueryReads(s) \/ QueryReturns(s) \/ QueryFails(s)
          \/ PollTicks(s) \/ WindowEnds(s) \/ RequestSent(s) \/ ResponseArrives(s)

(***************************************************************************)
(* The interval timers fire, the database answers every query, the         *)
(* browser reconnects and what was sent arrives.  Nothing has to fail.     *)
(***************************************************************************)
Fairness ==
    /\ WF_vars(RefreshStarts) /\ WF_vars(Connect) /\ WF_vars(InitialSent)
    /\ \A s \in Symbols :
          /\ WF_vars(QueryReads(s)) /\ WF_vars(QueryReturns(s) \/ QueryFails(s))
          /\ WF_vars(PollTicks(s)) /\ WF_vars(WindowEnds(s)) /\ WF_vars(ResponseArrives(s))

Spec == Init /\ [][Next]_vars /\ Fairness

-----------------------------------------------------------------------------
\* Type correctness, with one computation per symbol at a time.
TypeOK ==
    /\ table \in [Symbols -> Versions]
    /\ snapshots \in [Symbols -> Versions \union {None}]
    /\ queries \in [Symbols -> SUBSET (Versions \union {Unread})]
    /\ \A s \in Symbols : Cardinality(queries[s]) <= 1
    /\ refresh \in 0 .. Len(Order)
    /\ closedWaits \subseteq Symbols
    /\ polled \subseteq Symbols
    /\ throttle \in [Symbols -> [open : BOOLEAN, trailing : Versions \union {None}]]
    /\ connected \in BOOLEAN
    /\ initial \in [Symbols -> Versions \union {None, Unread, Absent}]
    /\ request \in [Symbols -> Versions \union {Unread, Absent}]
    /\ shown \in [Symbols -> Versions \union {None}]
    /\ sent \in [Symbols -> Versions \union {None}]
    /\ failures \in 0 .. MaxFailures
    /\ drops \in 0 .. MaxDrops

\* Nobody waits for a computation that is not under way: a caller of the cache
\* that joined one is answered by it, by its failure too.
WaitersAreServed ==
    \A s \in Symbols :
        (\/ refresh # 0 /\ Order[refresh] = s
         \/ s \in closedWaits \union polled
         \/ initial[s] = Unread
         \/ request[s] = Unread) => queries[s] # {}

\* The cache never goes back to an older snapshot: the refresh timer, the closed
\* candles and the requests share one computation, and an error keeps the last one.
SnapshotsNeverGoBack ==
    [][\A s \in Symbols : snapshots'[s] >= snapshots[s]]_vars

\* The overviews of metrics$ keep their order on a connection, through the polls
\* that answer at once or wait, and the value the throttle keeps back.
FramesInOrder ==
    [][\A s \in Symbols : connected' => sent'[s] >= sent[s]]_vars

\* Whatever joined a computation that was too old, whatever answer came late: once
\* no candle closes any more, both the cache and the screen come to show the last.
ScreenCatchesUp ==
    \A s \in Symbols : <>[](snapshots[s] = table[s] /\ shown[s] = table[s])

\* metrics-cache.service.ts:6 and sse-stream.service.ts:110: a new snapshot that is
\* published is pushed to the browsers, the poll is there for when no push comes.  Of
\* a browser that has its initial snapshot, which would bring it as well.
SnapshotIsPushed ==
    [][\A s \in Symbols :
         connected /\ initial[s] = Absent /\ Published(s) /\ snapshots'[s] # snapshots[s]
             => sent'[s] = snapshots'[s] \/ throttle'[s].trailing = snapshots'[s]]_vars

\* Neither the cache nor the frames of a connection ever go back to an older
\* overview, although timer, closes, polls and requests overtake each other.
NothingGoesBack == SnapshotsNeverGoBack /\ FramesInOrder

\* No caller is left waiting, and no more than one computation per symbol runs.
CallersAreServed == TypeOK /\ WaitersAreServed
==============================================================================
