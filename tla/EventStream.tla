----------------------------- MODULE EventStream ------------------------------
(***************************************************************************)
(* The dashboard's connection to the SSE endpoint: one EventSource at a    *)
(* time, the watchdog that finds it half open, the retries with backoff,   *)
(* the browser's online event, and start and stop as components mount.     *)
(* (src/frontend/src/lib/stream/event-stream-client.ts, components/        *)
(* providers/EventStreamProvider.tsx, hooks/useStreamConnection.ts)        *)
(*                                                                         *)
(* Time is counted in ticks; a timer is the number of ticks left, Off when *)
(* it is not set, and fires before time goes on.  The EventSource is the   *)
(* browser's, modelled from its use: "mute" is half open or a handshake    *)
(* nobody answers, and no event comes of it.                               *)
(***************************************************************************)
EXTENDS Integers, FiniteSets, Sequences

CONSTANTS
    PingEvery,       \* HEARTBEAT_INTERVAL_MS of the server
    StaleAfter,      \* STALE_AFTER_MS
    BackoffSteps,    \* BACKOFF_STEPS_MS
    JitterPercent,   \* of backoffDelay
    MaxQuiet,        \* bound: the age of the last event stops growing there
    MaxFaults        \* bound: things that go wrong with the connection

ASSUME StreamAssumption ==
    /\ PingEvery \in Nat \ {0} /\ StaleAfter \in Nat /\ PingEvery < StaleAfter
    /\ BackoffSteps \in Seq(Nat \ {0}) /\ BackoffSteps # <<>>
    /\ JitterPercent \in 0 .. 100
    /\ MaxQuiet \in Nat /\ MaxQuiet > StaleAfter
    /\ MaxFaults \in Nat

Off == -1

\* There is never more than one; the second is there to tell.
Sources == {1, 2}

NoSource == 0

VARIABLES
    stopped,         \* of the client
    source,          \* its EventSource, or NoSource
    sources,         \* the EventSources: "closed", "connecting", "open", "mute"
    retryTimer,
    watchdogTimer,
    status,          \* snapshot.status
    attempt,         \* snapshot.attempt
    pingDue,         \* ticks until the server sends its next event at the latest
    quiet,           \* history: age of the last event of the source, or of the source
    faults           \* bound: things that went wrong so far

vars == <<stopped, source, sources, retryTimer, watchdogTimer, status, attempt,
          pingDue, quiet, faults>>

Init ==
    /\ stopped = TRUE
    /\ source = NoSource
    /\ sources = [i \in Sources |-> "closed"]
    /\ retryTimer = Off
    /\ watchdogTimer = Off
    /\ status = "idle"
    /\ attempt = 0
    /\ pingDue = 0
    /\ quiet = 0
    /\ faults = 0

Live == source # NoSource /\ sources[source] = "open"

AtMost(n, cap) == IF n < cap THEN n ELSE cap

CountDown(timer) == IF timer = Off THEN Off ELSE timer - 1

\* The attempts at which the delay still grows; later ones are like the last.
MaxAttempt == Len(BackoffSteps)

\* The delays backoffDelay may return.
backoffDelay(n) ==
    LET base   == BackoffSteps[AtMost(n, Len(BackoffSteps) - 1) + 1]
        jitter == (base * JitterPercent) \div 100
    IN  base - jitter .. base + jitter

\* The sources once closeSource has run.
Closed == IF source = NoSource THEN sources ELSE [sources EXCEPT ![source] = "closed"]

\* scheduleRetry: nothing while a retry is pending.
ScheduleRetry ==
    IF retryTimer # Off
    THEN UNCHANGED <<retryTimer, status, attempt>>
    ELSE /\ retryTimer' \in backoffDelay(attempt)
         /\ status' = "reconnecting"
         /\ attempt' = AtMost(attempt + 1, MaxAttempt)

\* Mutant: the watchdog is armed by the first event only.
WatchdogWhenConnectingOff == Off

\* armWatchdog, in connect.
WatchdogWhenConnecting == StaleAfter

\* connect: the source before it is closed, a new one is made and watched.
Connect(n) ==
    /\ \E i \in {j \in Sources : Closed[j] = "closed"} :
          /\ source' = i
          /\ sources' = [Closed EXCEPT ![i] = "connecting"]
    /\ status' = IF n = 0 THEN "connecting" ELSE "reconnecting"
    /\ attempt' = n
    /\ watchdogTimer' = WatchdogWhenConnecting
    /\ quiet' = 0

\* Something goes wrong; the bound counts it.
Faulty ==
    /\ faults < MaxFaults
    /\ faults' = faults + 1

\* connect when the factory throws: no source, and a retry.
ConnectThrows(n) ==
    /\ Faulty
    /\ sources' = Closed
    /\ source' = NoSource
    /\ retryTimer' \in backoffDelay(n)
    /\ status' = "reconnecting"
    /\ attempt' = AtMost(n + 1, MaxAttempt)
    /\ UNCHANGED <<watchdogTimer, quiet>>

-----------------------------------------------------------------------------
\* start, as the provider mounts; a client that runs ignores it.
Start ==
    /\ stopped
    /\ stopped' = FALSE
    /\ \/ Connect(0) /\ UNCHANGED <<retryTimer, faults>>
       \/ ConnectThrows(0)
    /\ UNCHANGED pingDue

WatchdogWhenStopped == Off

\* stop, as the provider unmounts.
Stop ==
    /\ ~stopped
    /\ stopped' = TRUE
    /\ retryTimer' = Off
    /\ watchdogTimer' = WatchdogWhenStopped
    /\ sources' = Closed
    /\ source' = NoSource
    /\ status' = "closed"
    /\ UNCHANGED <<attempt, pingDue, quiet, faults>>

\* The open event of the source; the first ping of the server is sent at once.
HandleOpen ==
    /\ source # NoSource /\ sources[source] = "connecting"
    /\ sources' = [sources EXCEPT ![source] = "open"]
    /\ status' = "live"
    /\ attempt' = 0
    /\ pingDue' = 0
    /\ UNCHANGED <<stopped, source, retryTimer, watchdogTimer, quiet, faults>>

\* Mutant: the heartbeat of the server does not count as a sign of life.
WatchdogAfterPingKept == watchdogTimer

\* armWatchdog, in markAlive.
WatchdogAfterPing == StaleAfter

\* An event of the contract arrives: markAlive.
MarkAlive ==
    /\ Live
    /\ watchdogTimer' = WatchdogAfterPing
    /\ status' = "live"
    /\ attempt' = 0
    /\ pingDue' = PingEvery
    /\ quiet' = 0
    /\ UNCHANGED <<stopped, source, sources, retryTimer, faults>>

\* The error event: the source is closed and a retry scheduled.  The watchdog stays.
HandleError ==
    /\ source # NoSource
    /\ Faulty
    /\ sources' = Closed
    /\ source' = NoSource
    /\ ScheduleRetry
    /\ UNCHANGED <<stopped, watchdogTimer, pingDue, quiet>>

\* The connection is half open, or nobody answers the handshake.
GoesMute ==
    /\ source # NoSource /\ sources[source] \in {"connecting", "open"}
    /\ Faulty
    /\ sources' = [sources EXCEPT ![source] = "mute"]
    /\ UNCHANGED <<stopped, source, retryTimer, watchdogTimer, status, attempt, pingDue,
                   quiet>>

\* The retry timer fires: connect.
RetryTimerFires ==
    /\ retryTimer = 0
    /\ \/ Connect(attempt) /\ retryTimer' = Off /\ UNCHANGED faults
       \/ ConnectThrows(attempt)
    /\ UNCHANGED <<stopped, pingDue>>

\* The watchdog fires: nothing came for StaleAfter.
WatchdogFires ==
    /\ watchdogTimer = 0
    /\ watchdogTimer' = Off
    /\ sources' = Closed
    /\ source' = NoSource
    /\ ScheduleRetry
    /\ UNCHANGED <<stopped, pingDue, quiet, faults>>

\* Mutant: the online event leaves the retry pending.
RetryWhenOnlineKept == retryTimer

\* clearRetry, in handleOnline.
RetryWhenOnline == Off

\* The network is back: the wait of the backoff is skipped.
HandleOnline ==
    /\ ~stopped
    /\ status = "reconnecting"
    /\ \/ Connect(attempt) /\ retryTimer' = RetryWhenOnline /\ UNCHANGED faults
       \/ ConnectThrows(attempt)
    /\ UNCHANGED <<stopped, pingDue>>

\* Time goes on when no timer is due; an open source has an event every PingEvery.
Tick ==
    /\ 0 \notin {retryTimer, watchdogTimer}
    /\ Live => pingDue # 0
    /\ retryTimer' = CountDown(retryTimer)
    /\ watchdogTimer' = CountDown(watchdogTimer)
    /\ pingDue' = IF Live THEN pingDue - 1 ELSE pingDue
    /\ quiet' = AtMost(quiet + 1, MaxQuiet)
    /\ UNCHANGED <<stopped, source, sources, status, attempt, faults>>

Next ==
    \/ Start \/ Stop \/ HandleOpen \/ MarkAlive \/ HandleError \/ GoesMute
    \/ RetryTimerFires \/ WatchdogFires \/ HandleOnline \/ Tick

(***************************************************************************)
(* Time passes, timers fire, an open connection has its pings, and of      *)
(* handshakes tried again and again one is answered.                       *)
(* Nothing has to fail, and nobody has to start, stop or go online.        *)
(***************************************************************************)
Fairness ==
    /\ WF_vars(Tick) /\ WF_vars(RetryTimerFires) /\ WF_vars(WatchdogFires)
    /\ SF_vars(HandleOpen) /\ WF_vars(MarkAlive)

Spec == Init /\ [][Next]_vars /\ Fairness

-----------------------------------------------------------------------------
\* Type correctness; no timer is set in the past, so retries do not spin.
TypeOK ==
    /\ stopped \in BOOLEAN
    /\ source \in Sources \union {NoSource}
    /\ sources \in [Sources -> {"closed", "connecting", "open", "mute"}]
    /\ retryTimer \in Nat \union {Off}
    /\ watchdogTimer \in Off .. StaleAfter
    /\ status \in {"idle", "connecting", "live", "reconnecting", "closed"}
    /\ attempt \in 0 .. MaxAttempt
    /\ pingDue \in 0 .. PingEvery
    /\ quiet \in 0 .. MaxQuiet
    /\ faults \in 0 .. MaxFaults

\* The dashboard holds one connection: whatever the errors, the watchdog, the retry
\* timer and the online event do at the same time, no other source is left open.
OneSource == \A i \in Sources : sources[i] # "closed" => i = source

\* A client that is stopped does nothing more: no source, no timer.
StoppedIsDead ==
    stopped => source = NoSource /\ retryTimer = Off /\ watchdogTimer = Off

\* A client that runs is never stuck: it has a source that is watched, or a retry.
NeverStuck ==
    ~stopped => \/ source # NoSource /\ watchdogTimer # Off
                \/ retryTimer # Off

\* "live" means that there is a connection.  The polls that stand in for the stream
\* are off while the status is "live", so the screen would freeze without a word.
LiveHasSource == status = "live" => source # NoSource /\ ~stopped

\* A connection nothing comes from does not outlive StaleAfter, be it half open or
\* never answered.
MuteIsNoticed == source # NoSource => quiet <= StaleAfter

\* The watchdog does not cut a connection on which the server keeps its heartbeat; only
\* one that opened at the last instant, before its first ping is there, may be cut.
HealthyIsKept == [][WatchdogFires => ~(Live /\ pingDue # 0)]_vars

\* A client that runs is live again.
Reconnects == (~stopped /\ status # "live") ~> (stopped \/ status = "live")

\* One source, watched while it is wanted, and never taken for live when it is not there.
SourceIsSound == TypeOK /\ OneSource /\ StoppedIsDead /\ NeverStuck /\ LiveHasSource /\ MuteIsNoticed
==============================================================================
