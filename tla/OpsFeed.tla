------------------------------- MODULE OpsFeed --------------------------------
(***************************************************************************)
(* The operator's health panel over the dashboard's connection: what the   *)
(* collector is like changes, announced by an event or not; the SSE        *)
(* service computes the health again, on a throttled event or on its       *)
(* timer, and while no computation runs; the frame goes to the browser if  *)
(* its connection is alive; without a live stream the panel polls.         *)
(* (src/backend/src/realtime/sse-stream.service.ts,                        *)
(* api/ops/ops-health.service.ts, src/frontend/src/hooks/useOpsQueries.ts, *)
(* useStreamCacheSync.ts, lib/stream/event-stream-client.ts)               *)
(*                                                                         *)
(* A health is the version of the collector it was computed from.  The     *)
(* server's side of the stream is there while the connection is; on a half *)
(* open one what it sends is lost.                                         *)
(***************************************************************************)
EXTENDS EventStream

CONSTANT MaxChanges      \* bound: changes of the collector

ASSUME FeedAssumption == MaxChanges \in Nat

Versions == 0 .. MaxChanges

None == -1       \* no computation, no health

Unread == -2     \* a computation that has not read the tables yet

VARIABLES
    truth,           \* the version of the collector
    throttle,        \* throttleTime of the events: "closed", "open", "trailing"
    computing,       \* the computations of ops$ under way, by what they read
    initial,         \* the health of the initial snapshot
    sent,            \* history: the last frame of ops$ on this connection
    request,         \* the GET /ops/health under way
    panel            \* the health in the browser's query cache

server == <<throttle, computing, initial, sent>>

feed == <<truth, server, request, panel>>

feedVars == <<vars, feed>>

FeedInit ==
    /\ Init
    /\ truth = 0
    /\ throttle = "closed" /\ computing = {} /\ initial = None /\ sent = None
    /\ request = None
    /\ panel = None

\* Mutant: mergeMap, every trigger computes for itself.
fetchHealthEach == computing \union {Unread}

\* exhaustMap: a trigger is dropped while a computation is under way.
fetchHealth == IF computing = {} THEN {Unread} ELSE computing

-----------------------------------------------------------------------------
\* The connection takes a step of its own.  A new one is sent the initial snapshot;
\* with the old one its subscriber leaves, and share() takes ops$ down.
ConnectionSteps ==
    /\ Next
    /\ IF Live /\ Live'
       THEN UNCHANGED server
       ELSE /\ throttle' = "closed" /\ computing' = {} /\ sent' = None
            /\ initial' = IF Live' THEN Unread ELSE None
    /\ UNCHANGED <<truth, request, panel>>

\* A stream opens or closes, a job makes progress: the events STREAM_STATUS and
\* BACKFILL_PROGRESS enter the throttle.
Announced ==
    /\ truth < MaxChanges
    /\ truth' = truth + 1
    /\ IF ~Live
       THEN UNCHANGED <<throttle, computing>>
       ELSE IF throttle = "closed"
            THEN throttle' = "open" /\ computing' = fetchHealth
            ELSE throttle' = "trailing" /\ UNCHANGED computing
    /\ UNCHANGED <<vars, initial, sent, request, panel>>

\* A candle comes to be missing, a job is created: nobody says so.
Unannounced ==
    /\ truth < MaxChanges
    /\ truth' = truth + 1
    /\ UNCHANGED <<vars, server, request, panel>>

\* The window of the throttle ends; its trailing event begins another.
ThrottleEnds ==
    /\ throttle # "closed"
    /\ IF throttle = "trailing"
       THEN throttle' = "open" /\ computing' = fetchHealth
       ELSE throttle' = "closed" /\ UNCHANGED computing
    /\ UNCHANGED <<vars, truth, initial, sent, request, panel>>

\* Mutant: ops$ is made of the events alone.
PeriodicOff == computing

\* What a tick of periodic$ leads to.
Periodic == fetchHealth

\* The timer of ops$.
RefreshTicks ==
    /\ Live
    /\ computing' = Periodic
    /\ UNCHANGED <<vars, truth, throttle, initial, sent, request, panel>>

\* getHealth reads the tables for ops$.
HealthReads ==
    /\ Unread \in computing
    /\ computing' = (computing \ {Unread}) \union {truth}
    /\ UNCHANGED <<vars, truth, throttle, initial, sent, request, panel>>

\* It does for the initial snapshot.
InitialReads ==
    /\ initial = Unread
    /\ initial' = truth
    /\ UNCHANGED <<vars, truth, throttle, computing, sent, request, panel>>

\* It does for a request of the panel.
RequestReads ==
    /\ request = Unread
    /\ request' = truth
    /\ UNCHANGED <<vars, truth, server, panel>>

\* A frame of ops$ arrives: markAlive, and onOps writes it to the query cache.
HealthArrives ==
    /\ MarkAlive
    /\ \E v \in computing \ {Unread} :
          computing' = computing \ {v} /\ sent' = v /\ panel' = v
    /\ UNCHANGED <<truth, throttle, initial, request>>

\* So does the initial one, when the rest of its snapshot is there too.
InitialArrives ==
    /\ initial \in Versions
    /\ MarkAlive
    /\ initial' = None
    /\ panel' = initial
    /\ UNCHANGED <<truth, throttle, computing, sent, request>>

\* getHealth rejects: it is logged, no frame is sent, the stream goes on.
HealthFails ==
    /\ Faulty
    /\ \/ \E v \in computing : computing' = computing \ {v} /\ UNCHANGED <<initial, request>>
       \/ initial # None /\ initial' = None /\ UNCHANGED <<computing, request>>
       \/ request # None /\ request' = None /\ UNCHANGED <<computing, initial>>
    /\ UNCHANGED <<stopped, source, sources, retryTimer, watchdogTimer, status, attempt,
                   pingDue, quiet, truth, throttle, sent, panel>>

\* refetchInterval of useOpsHealth: off while the stream is live.
Polls == status # "live" \/ panel = None

\* useOpsHealth asks; one request at a time.
PollSent ==
    /\ request = None
    /\ Polls
    /\ request' = Unread
    /\ UNCHANGED <<vars, truth, server, panel>>

\* Its answer replaces what the cache holds, whatever arrived in between.
PollArrives ==
    /\ request \in Versions
    /\ panel' = request
    /\ request' = None
    /\ UNCHANGED <<vars, truth, server>>

FeedNext ==
    \/ ConnectionSteps
    \/ Announced \/ Unannounced \/ ThrottleEnds \/ RefreshTicks
    \/ HealthReads \/ InitialReads \/ RequestReads
    \/ HealthArrives \/ InitialArrives \/ HealthFails
    \/ PollSent \/ PollArrives

(***************************************************************************)
(* Besides the fairness of the connection: the server's timer fires, the   *)
(* database answers, frames and answers arrive.  The panel polls however   *)
(* often the status changes: without a failure it leaves "live" only by    *)
(* the watchdog, after a handshake of STALE_AFTER_MS, which is several     *)
(* FALLBACK_POLL_MS.                                                       *)
(***************************************************************************)
FeedFairness ==
    /\ Fairness
    /\ WF_feedVars(RefreshTicks)
    /\ WF_feedVars(HealthReads) /\ WF_feedVars(InitialReads) /\ WF_feedVars(RequestReads)
    /\ WF_feedVars(HealthArrives) /\ WF_feedVars(InitialArrives)
    /\ SF_feedVars(PollSent) /\ WF_feedVars(PollArrives)

FeedSpec == FeedInit /\ [][FeedNext]_feedVars /\ FeedFairness

-----------------------------------------------------------------------------
\* Type correctness; ops$ has one computation under way at a time.
FeedTypeOK ==
    /\ truth \in Versions
    /\ throttle \in {"closed", "open", "trailing"}
    /\ \E v \in Versions \union {Unread} : computing \subseteq {v}
    /\ initial \in Versions \union {None, Unread}
    /\ sent \in Versions \union {None}
    /\ request \in Versions \union {None, Unread}
    /\ panel \in Versions \union {None}

\* The frames of ops$ keep the order of what they tell, on one connection: a slow
\* computation is not overtaken by a later one.
HealthInOrder == [][sent' # None => sent' >= sent]_feedVars

\* The panel comes to show what the collector is like: an event the computation under
\* way made it drop, a change nobody announced, an initial snapshot or an answer that
\* came late, a connection that froze while it counted as live - each is made up for by
\* the timer, the watchdog or the poll.  The provider has to stay, or to stay away.
PanelCatchesUp == (<>[]stopped \/ <>[]~stopped) => <>[](panel = truth)

\* The connection of the panel and what waits on either side of it.
FeedIsSound == SourceIsSound /\ FeedTypeOK

==============================================================================
