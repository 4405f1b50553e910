------------------------------- MODULE WsClient -------------------------------
(***************************************************************************)
(* The connection to the exchange: one websocket, its heartbeat, the       *)
(* reconnection with backoff, the orderly stop, and what the ingest        *)
(* service and the backfill are told of it.                                *)
(* (src/backend/src/binance/binance-ws.client.ts, backoff.ts,              *)
(* ingest/ingest.service.ts, backfill/stream-status.util.ts)               *)
(*                                                                         *)
(* Time is counted in ticks.  A timer is the number of ticks left, Off     *)
(* when it is not set, and a timer that is due fires before time goes on.  *)
(* A moment is its age in ticks.  The socket is the library's, modelled    *)
(* from how the client uses it: "open" delivers, "silent" is half open and *)
(* delivers nothing, "ending" has its close event on the way.  While the   *)
(* client stops, an open socket is in its closing handshake.               *)
(***************************************************************************)
EXTENDS Integers, FiniteSets

CONSTANTS
    Symbols,             \* the collected symbols
    PingEvery,           \* the exchange sends something at least that often
    HeartbeatTimeout,    \* heartbeatTimeoutMs
    HeartbeatCheck,      \* heartbeatCheckMs
    StableReset,         \* stableResetMs
    StopTimeout,         \* STOP_CLOSE_TIMEOUT_MS
    BaseDelay,           \* BackoffPolicy.baseMs
    MaxDelay,            \* BackoffPolicy.maxMs
    JitterPercent,       \* BackoffPolicy.jitterRatio
    MaxAttempts,         \* bound: reconnectAttempts; the delay is at its maximum there
    MaxAge,              \* bound: ages stop growing there
    MaxBreaks            \* bound: things that go wrong with the connection

ASSUME WsAssumption ==
    /\ IsFiniteSet(Symbols)
    /\ PingEvery \in Nat \ {0} /\ HeartbeatTimeout \in Nat /\ PingEvery <= HeartbeatTimeout
    /\ HeartbeatCheck \in Nat \ {0} /\ StableReset \in Nat \ {0} /\ StopTimeout \in Nat \ {0}
    /\ BaseDelay \in Nat \ {0} /\ MaxDelay \in Nat /\ BaseDelay <= MaxDelay
    /\ JitterPercent \in 0 .. 100
    /\ MaxAttempts \in Nat \ {0} /\ BaseDelay * 2 ^ (MaxAttempts - 1) >= MaxDelay
    /\ MaxAge \in Nat /\ MaxAge > HeartbeatTimeout + HeartbeatCheck
    /\ MaxBreaks \in Nat

Off == -1

VARIABLES
    phase,               \* "new", "up", "stopping" (stop() awaits the close), "stopped"
    ws,                  \* the client holds a socket
    socket,              \* "none", "connecting", "open", "silent", "ending"
    idle,                \* age of lastActivityAt
    heartbeatTimer,
    stableTimer,
    reconnectTimer,
    stopTimer,           \* of the promise in stop()
    reconnectAttempts,
    disconnectedAt,      \* as an age, Off for null
    connected,           \* IngestService.connected
    repaired,            \* the repairs the last connection asked for, per symbol
    quiet,               \* history: age of the last thing the exchange sent
    outage,              \* history: age of the moment data ceased to arrive
    hasty,               \* history: immediate reconnections since a stable connection
    breaks               \* bound: things that went wrong so far

timers == <<heartbeatTimer, stableTimer, reconnectTimer, stopTimer>>

told == <<connected, repaired>>

ages == <<quiet, outage>>

vars == <<phase, ws, socket, idle, timers, reconnectAttempts, disconnectedAt, told,
          ages, hasty, breaks>>

\* The health keys: a kline and a trade stream for each symbol.
StreamKeys == {"kline", "trade"} \X Symbols

\* parseSymbolFromKlineStreamKey lets the kline keys through.
KlineKeys(s) == {key \in StreamKeys : key[1] = "kline" /\ key[2] = s}

NoRepair == [from |-> Off, times |-> 0]

Init ==
    /\ phase = "new"
    /\ ws = FALSE
    /\ socket = "none"
    /\ idle = 0
    /\ heartbeatTimer = Off /\ stableTimer = Off /\ reconnectTimer = Off /\ stopTimer = Off
    /\ reconnectAttempts = 0
    /\ disconnectedAt = Off
    /\ connected = FALSE
    /\ repaired = [s \in Symbols |-> NoRepair]
    /\ quiet = 0
    /\ outage = Off
    /\ hasty = 0
    /\ breaks = 0

AtMost(n, cap) == IF n < cap THEN n ELSE cap

Older(age) == IF age = Off THEN Off ELSE AtMost(age + 1, MaxAge)

CountDown(timer) == IF timer = Off THEN Off ELSE timer - 1

\* The delays computeBackoffMs may return for an attempt.
Backoff(attempt) ==
    LET raw    == AtMost(BaseDelay * 2 ^ (attempt - 1), MaxDelay)
        jitter == (raw * JitterPercent) \div 100
    IN  {AtMost(IF d < 0 THEN 0 ELSE d, MaxDelay) : d \in raw - jitter .. raw + jitter}

\* scheduleReconnect, on the way out of handleClose.
ScheduleReconnect ==
    /\ IF reconnectTimer # Off
       THEN UNCHANGED <<reconnectTimer, reconnectAttempts, hasty>>
       ELSE /\ reconnectTimer' \in IF reconnectAttempts = 0 THEN {0} ELSE Backoff(reconnectAttempts)
            /\ reconnectAttempts' = AtMost(reconnectAttempts + 1, MaxAttempts)
            /\ hasty' = IF reconnectAttempts = 0 THEN AtMost(hasty + 1, 2) ELSE hasty

-----------------------------------------------------------------------------
\* onModuleInit: start, which connects.
Start ==
    /\ phase = "new"
    /\ phase' = "up"
    /\ ws' = TRUE
    /\ socket' = "connecting"
    /\ UNCHANGED <<idle, timers, reconnectAttempts, disconnectedAt, told, ages, hasty, breaks>>

\* What handleOpen leaves of reconnectAttempts: only the stable timer resets it.
AttemptsWhenOpen == reconnectAttempts

\* Mutant: the time of the last message survives a reconnection.
IdleWhenOpenOld == idle

\* lastActivityAt = now.
IdleWhenOpen == 0

\* handleOpen, and through handleStatus the repairs of handleStreamStatus.
HandleOpen ==
    /\ socket = "connecting"
    /\ socket' = "open"
    /\ idle' = IdleWhenOpen
    /\ heartbeatTimer' = HeartbeatCheck
    /\ stableTimer' = StableReset
    /\ reconnectAttempts' = AttemptsWhenOpen
    /\ connected' = TRUE
    /\ repaired' = IF disconnectedAt = Off
                   THEN repaired
                   ELSE [s \in Symbols |-> [from |-> disconnectedAt,
                                            times |-> Cardinality(KlineKeys(s))]]
    /\ disconnectedAt' = Off
    /\ quiet' = 0
    /\ outage' = Off
    /\ UNCHANGED <<phase, ws, reconnectTimer, stopTimer, hasty, breaks>>

\* A message, a ping or a pong.
HandleMessage ==
    /\ socket = "open"
    /\ quiet # 0
    /\ quiet' = 0
    /\ idle' = 0
    /\ UNCHANGED <<phase, ws, socket, timers, reconnectAttempts, disconnectedAt, told, outage,
                   hasty, breaks>>

OutageBegins ==
    /\ outage' = IF outage = Off THEN 0 ELSE outage
    /\ UNCHANGED quiet

\* Something goes wrong with the connection; the bound counts it.
Breaks ==
    /\ breaks < MaxBreaks
    /\ breaks' = breaks + 1

\* Mutant: an error schedules the reconnection itself, besides the close after it.
HandleErrorReconnects ==
    /\ connected' = FALSE
    /\ ScheduleReconnect

\* handleError only reports; its close event follows.  A socket that was open
\* may still say it is.
HandleError ==
    /\ connected' \in IF socket = "connecting" THEN {FALSE} ELSE BOOLEAN
    /\ UNCHANGED <<reconnectTimer, reconnectAttempts, hasty>>

\* The handshake fails or times out.
ConnectFails ==
    /\ socket = "connecting"
    /\ Breaks
    /\ socket' = "ending"
    /\ HandleError
    /\ OutageBegins
    /\ UNCHANGED <<phase, ws, idle, heartbeatTimer, stableTimer, stopTimer, disconnectedAt,
                   repaired>>

\* The connection breaks with an error.
SocketErrs ==
    /\ socket \in {"open", "silent"}
    /\ Breaks
    /\ socket' = "ending"
    /\ HandleError
    /\ OutageBegins
    /\ UNCHANGED <<phase, ws, idle, heartbeatTimer, stableTimer, stopTimer, disconnectedAt,
                   repaired>>

\* The exchange closes it, as it does every 24 hours, or answers the close of stop().
PeerCloses ==
    /\ socket = "open"
    /\ IF phase = "up" THEN Breaks ELSE UNCHANGED breaks
    /\ socket' = "ending"
    /\ OutageBegins
    /\ UNCHANGED <<phase, ws, idle, timers, reconnectAttempts, disconnectedAt, told, hasty>>

\* The peer is gone and nobody said so.
GoesSilent ==
    /\ socket = "open"
    /\ Breaks
    /\ socket' = "silent"
    /\ OutageBegins
    /\ UNCHANGED <<phase, ws, idle, timers, reconnectAttempts, disconnectedAt, told, hasty>>

\* Mutant: each failed reconnection moves the start of the break.
BreakSinceOverwritten == 0

\* handleClose keeps the time of the first close since the last open.
BreakSince == IF disconnectedAt = Off THEN 0 ELSE disconnectedAt

\* Mutant: only the first close of an outage schedules a reconnection.
ReconnectAfterFirst ==
    IF disconnectedAt = Off
    THEN ScheduleReconnect
    ELSE UNCHANGED <<reconnectTimer, reconnectAttempts, hasty>>

ReconnectAfterClose == ScheduleReconnect

\* handleClose; the promise of stop() listens to the same event.
HandleClose ==
    /\ socket = "ending"
    /\ socket' = "none"
    /\ ws' = FALSE
    /\ heartbeatTimer' = Off
    /\ stableTimer' = Off
    /\ IF phase = "up"
       THEN /\ disconnectedAt' = BreakSince
            /\ connected' = FALSE
            /\ ReconnectAfterClose
            /\ UNCHANGED <<phase, stopTimer>>
       ELSE /\ phase' = "stopped"
            /\ stopTimer' = Off
            /\ UNCHANGED <<disconnectedAt, connected, reconnectTimer, reconnectAttempts, hasty>>
    /\ UNCHANGED <<idle, repaired, ages, breaks>>

\* checkHeartbeat terminates a connection that has been idle too long.
CheckHeartbeat ==
    /\ heartbeatTimer = 0
    /\ heartbeatTimer' = HeartbeatCheck
    /\ socket' = IF ws /\ idle > HeartbeatTimeout THEN "ending" ELSE socket
    /\ UNCHANGED <<phase, ws, idle, stableTimer, reconnectTimer, stopTimer, reconnectAttempts,
                   disconnectedAt, told, ages, hasty, breaks>>

\* The connection has been stable: the backoff starts again.
StableTimerFires ==
    /\ stableTimer = 0
    /\ stableTimer' = Off
    /\ reconnectAttempts' = 0
    /\ hasty' = 0
    /\ UNCHANGED <<phase, ws, socket, idle, heartbeatTimer, reconnectTimer, stopTimer,
                   disconnectedAt, told, ages, breaks>>

\* The reconnection timer fires: connect, unless the client is stopping.
ReconnectTimerFires ==
    /\ reconnectTimer = 0
    /\ reconnectTimer' = Off
    /\ IF phase = "up"
       THEN ws' = TRUE /\ socket' = "connecting"
       ELSE UNCHANGED <<ws, socket>>
    /\ UNCHANGED <<phase, idle, heartbeatTimer, stableTimer, stopTimer, reconnectAttempts,
                   disconnectedAt, told, ages, hasty, breaks>>

\* clearReconnectTimer.
StoppedReconnectTimer == Off

\* Mutant: stop() waits for the close event only.
CloseTimerNone == Off

\* The promise of stop() is resolved by the close or by this timer.
CloseTimer == StopTimeout

\* stop(): every timer is cleared and the socket, if there is one, is closed; one
\* that is still connecting is aborted, which reports an error.
Stop ==
    /\ phase = "up"
    /\ reconnectTimer' = StoppedReconnectTimer
    /\ heartbeatTimer' = Off
    /\ stableTimer' = Off
    /\ IF ws
       THEN phase' = "stopping" /\ stopTimer' = CloseTimer
       ELSE phase' = "stopped" /\ UNCHANGED stopTimer
    /\ IF socket = "connecting"
       THEN socket' = "ending" /\ connected' = FALSE
       ELSE UNCHANGED <<socket, connected>>
    /\ UNCHANGED <<ws, idle, reconnectAttempts, disconnectedAt, repaired, ages, hasty, breaks>>

\* The close did not come in time: terminate, and stop() returns.
StopTimesOut ==
    /\ stopTimer = 0
    /\ stopTimer' = Off
    /\ phase' = "stopped"
    /\ ws' = FALSE
    /\ socket' = "ending"
    /\ UNCHANGED <<idle, heartbeatTimer, stableTimer, reconnectTimer, reconnectAttempts,
                   disconnectedAt, told, ages, hasty, breaks>>

\* Time goes on when no timer is due and no event is in the queue of the process;
\* an open connection is not idle for longer than the exchange pings.
Tick ==
    /\ 0 \notin {heartbeatTimer, stableTimer, reconnectTimer, stopTimer}
    /\ socket # "ending"
    /\ socket = "open" => quiet < PingEvery
    /\ heartbeatTimer' = CountDown(heartbeatTimer)
    /\ stableTimer' = CountDown(stableTimer)
    /\ reconnectTimer' = CountDown(reconnectTimer)
    /\ stopTimer' = CountDown(stopTimer)
    /\ idle' = Older(idle)
    /\ disconnectedAt' = Older(disconnectedAt)
    /\ quiet' = Older(quiet)
    /\ outage' = Older(outage)
    /\ UNCHANGED <<phase, ws, socket, reconnectAttempts, told, hasty, breaks>>

Network == HandleOpen \/ HandleMessage \/ ConnectFails \/ SocketErrs \/ PeerCloses \/ GoesSilent

Process == Start \/ HandleClose \/ CheckHeartbeat \/ StableTimerFires \/ ReconnectTimerFires
           \/ StopTimesOut

Next == Network \/ Process \/ Stop \/ Tick

(***************************************************************************)
(* The event loop runs what is due, time passes, an open connection        *)
(* delivers and a handshake ends, as handshakeTimeout makes it.  Nothing   *)
(* has to break and nobody has to call stop().                             *)
(***************************************************************************)
Fairness ==
    /\ WF_vars(Process)
    /\ WF_vars(Tick)
    /\ WF_vars(HandleMessage)
    /\ WF_vars(HandleOpen \/ ConnectFails)

Spec == Init /\ [][Next]_vars /\ Fairness

-----------------------------------------------------------------------------
\* Type correctness: the timers never leave their ranges, and a reference is
\* held just while the library has a socket that is not given up.
TypeOK ==
    /\ phase \in {"new", "up", "stopping", "stopped"}
    /\ ws \in BOOLEAN
    /\ socket \in {"none", "connecting", "open", "silent", "ending"}
    /\ idle \in 0 .. MaxAge
    /\ heartbeatTimer \in Off .. HeartbeatCheck
    /\ stableTimer \in Off .. StableReset
    /\ reconnectTimer \in Off .. MaxDelay
    /\ stopTimer \in Off .. StopTimeout
    /\ reconnectAttempts \in 0 .. MaxAttempts
    /\ disconnectedAt \in Off .. MaxAge
    /\ connected \in BOOLEAN
    /\ repaired \in [Symbols -> [from : Off .. MaxAge, times : 0 .. Cardinality(StreamKeys)]]
    /\ quiet \in 0 .. MaxAge
    /\ outage \in Off .. MaxAge
    /\ hasty \in 0 .. 2
    /\ breaks \in 0 .. MaxBreaks

\* There is never a second connection: a reconnection is scheduled only when the
\* socket before it is gone, and once the client stops none is.
OneConnection ==
    reconnectTimer # Off => phase = "up" /\ socket = "none" /\ ~ws

\* A stopped client is quiet: no timer is left to bring the connection or the
\* heartbeat back, whatever the connection did when stop() was called.
StoppedIsQuiet ==
    /\ phase \in {"stopping", "stopped"} =>
         heartbeatTimer = Off /\ stableTimer = Off /\ reconnectTimer = Off
    /\ phase = "stopped" => socket \in {"none", "ending"} /\ ~ws /\ stopTimer = Off

\* A dead connection does not go unnoticed for longer than the time-out and one
\* check, however its last message and the checks fall.
ZombieIsClosed ==
    phase = "up" /\ socket = "silent" => outage <= HeartbeatTimeout + HeartbeatCheck

\* The exchange is asked at most once, between two stable connections, without
\* waiting: no storm of reconnections, which it answers with a ban.
NoReconnectStorm == hasty <= 1

\* The heartbeat ends no connection on which the exchange keeps its promise.
HealthyIsKept ==
    [][CheckHeartbeat /\ socket = "open" => socket' = "open"]_vars

\* When the connection is back, one repair per symbol is asked for, and it goes
\* back to the start of the whole outage, through all the failed reconnections in
\* it, less the time it took to notice a dead connection.
RepairCoversOutage ==
    [][socket = "connecting" /\ socket' = "open" /\ outage # Off =>
         \A s \in Symbols :
            /\ repaired'[s].times = 1
            /\ repaired'[s].from >= outage - (HeartbeatTimeout + HeartbeatCheck)]_vars

\* A client that is not stopped is connected again, whatever broke.
Reconnects == (phase = "up" /\ socket # "open") ~> (phase # "up" \/ socket = "open")

\* stop() always returns.
StopReturns == (phase = "stopping") ~> (phase = "stopped")

\* One connection, watched while it is wanted and left alone once it is not.
ConnectionIsSound == TypeOK /\ OneConnection /\ StoppedIsQuiet /\ ZombieIsClosed /\ NoReconnectStorm
==============================================================================
