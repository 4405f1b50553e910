---------------------------- MODULE WsClientProofs ----------------------------
(***************************************************************************)
(* The connection to the exchange, for every set of symbols, every timing  *)
(* and every number of breaks: there is only one, a dead one is noticed, a *)
(* healthy one is kept, and the repair asked for covers the outage.        *)
(***************************************************************************)
EXTENDS WsClient, FiniteSetTheorems, TLAPS

-----------------------------------------------------------------------------
\* The inductive invariant

\* A dead connection is closed within this age of its last sign of life.
Patience == HeartbeatTimeout + HeartbeatCheck

\* Which sockets and timers go with which phase.
SocketInv ==
    /\ phase = "new" => socket = "none"
    /\ phase \in {"new", "up"} => (ws <=> socket # "none")
    /\ phase = "stopping" => ws /\ socket \in {"open", "silent", "ending"}
    /\ phase = "stopped" => ~ws /\ socket \in {"none", "ending"}
    /\ stopTimer # Off => phase = "stopping"
    /\ reconnectTimer # Off => phase = "up" /\ socket = "none"
    /\ heartbeatTimer # Off \/ stableTimer # Off
          => phase = "up" /\ socket \in {"open", "silent", "ending"}
    /\ phase = "up" /\ socket \in {"open", "silent"} => heartbeatTimer # Off

\* What the heartbeat knows: since its last check, or the open, the connection
\* has been idle for at most the time-out; an open one is pinged before that.
WatchInv ==
    /\ phase = "up" /\ socket \in {"open", "silent"} => idle + heartbeatTimer <= Patience
    /\ socket = "open" => idle = quiet /\ quiet <= PingEvery /\ outage = Off
    /\ socket = "silent" => outage <= idle

\* The break that was noted began at most the patience after the outage did.
OutageInv ==
    /\ phase = "new" => outage = Off /\ disconnectedAt = Off
    /\ phase = "up" =>
          /\ disconnectedAt # Off => disconnectedAt >= outage - Patience
          /\ disconnectedAt = Off => outage <= Patience
          /\ socket = "connecting" /\ disconnectedAt = Off => outage = Off
          /\ socket = "none" => disconnectedAt # Off

\* Only the first reconnection since a stable connection is immediate.
StormInv == hasty <= 1 /\ (reconnectAttempts = 0 => hasty = 0)

ConnectionInv == TypeOK /\ SocketInv /\ WatchInv /\ OutageInv /\ StormInv

LEMMA ConnectionInvMeans == ConnectionInv => ConnectionIsSound
<1> SUFFICES ASSUME ConnectionInv PROVE ConnectionIsSound
    OBVIOUS
<1>1. OneConnection
    BY DEF ConnectionInv, SocketInv, OneConnection
<1>2. StoppedIsQuiet
    BY DEF ConnectionInv, SocketInv, StoppedIsQuiet
<1>3. ZombieIsClosed
    BY WsAssumption
       DEF ConnectionInv, TypeOK, SocketInv, WatchInv, ZombieIsClosed, Patience, Off
<1> QED BY <1>1, <1>2, <1>3 DEF ConnectionInv, StormInv, NoReconnectStorm, ConnectionIsSound

-----------------------------------------------------------------------------
\* Types

\* Each symbol has one kline key.
LEMMA OneKlineKey ==
    ASSUME NEW s \in Symbols
    PROVE  /\ Cardinality(KlineKeys(s)) = 1
           /\ Cardinality(StreamKeys) \in Nat /\ Cardinality(StreamKeys) >= 1
<1>1. KlineKeys(s) = {<<"kline", s>>}
    BY DEF KlineKeys, StreamKeys
<1>2. Cardinality(KlineKeys(s)) = 1
    BY <1>1, FS_Singleton
<1>3. IsFiniteSet(StreamKeys)
    <2>1. IsFiniteSet({"kline", "trade"})
        <3>1. {"kline", "trade"} = {"kline"} \union {"trade"}
            OBVIOUS
        <3>2. IsFiniteSet({"kline"}) /\ IsFiniteSet({"trade"})
            BY FS_Singleton
        <3> QED BY <3>1, <3>2, FS_Union
    <2> QED BY <2>1, WsAssumption, FS_Product DEF StreamKeys
<1>4. KlineKeys(s) \subseteq StreamKeys
    BY DEF KlineKeys
<1>5. Cardinality(KlineKeys(s)) <= Cardinality(StreamKeys) /\ Cardinality(StreamKeys) \in Nat
    BY <1>3, <1>4, FS_Subset, FS_CardinalityType
<1> QED BY <1>2, <1>5

\* A number below a summand of a bounded sum is bounded with it.
LEMMA WithinSum ==
    ASSUME NEW x \in Int, NEW y \in Int, NEW z \in Int, NEW p \in Int, x + y <= p, z <= x, y >= 0
    PROVE  z <= p
OBVIOUS

LEMMA AgesGrow ==
    ASSUME NEW age \in Off .. MaxAge
    PROVE  /\ Older(age) \in Off .. MaxAge
           /\ age # Off => Older(age) \in 0 .. MaxAge /\ Older(age) = AtMost(age + 1, MaxAge)
           /\ age = Off => Older(age) = Off
BY WsAssumption DEF Older, AtMost, Off

LEMMA BackoffIsBounded ==
    ASSUME NEW attempt \in Nat
    PROVE  Backoff(attempt) \subseteq 0 .. MaxDelay
<1>1. MaxDelay \in Nat
    BY WsAssumption
<1> DEFINE raw == AtMost(BaseDelay * 2 ^ (attempt - 1), MaxDelay)
           jitter == (raw * JitterPercent) \div 100
<1>2. ASSUME NEW d \in raw - jitter .. raw + jitter
      PROVE  AtMost(IF d < 0 THEN 0 ELSE d, MaxDelay) \in 0 .. MaxDelay
    <2>1. d \in Int
        OBVIOUS
    <2> QED BY <1>1, <2>1 DEF AtMost
<1> QED BY <1>2 DEF Backoff

\* What a close may do to the reconnection timer and its counters.
LEMMA ScheduleTypes ==
    ASSUME TypeOK, StormInv, ScheduleReconnect
    PROVE  /\ reconnectTimer' \in Off .. MaxDelay
           /\ reconnectAttempts' \in 0 .. MaxAttempts
           /\ hasty' \in 0 .. 2
           /\ StormInv'
<1>0. /\ MaxDelay \in Nat /\ MaxAttempts \in Nat \ {0} /\ reconnectAttempts \in 0 .. MaxAttempts
      /\ hasty \in 0 .. 2 /\ reconnectTimer \in Off .. MaxDelay
    BY WsAssumption DEF TypeOK
<1>1. CASE reconnectTimer # Off
    BY <1>0, <1>1 DEF ScheduleReconnect, StormInv
<1>2. CASE reconnectTimer = Off
    <2>1. /\ reconnectTimer' \in IF reconnectAttempts = 0 THEN {0} ELSE Backoff(reconnectAttempts)
          /\ reconnectAttempts' = AtMost(reconnectAttempts + 1, MaxAttempts)
          /\ hasty' = IF reconnectAttempts = 0 THEN AtMost(hasty + 1, 2) ELSE hasty
        BY <1>2 DEF ScheduleReconnect
    <2>2. reconnectTimer' \in 0 .. MaxDelay
        BY <1>0, <2>1, BackoffIsBounded
    <2>3. reconnectAttempts' \in 1 .. MaxAttempts
        BY <1>0, <2>1 DEF AtMost
    <2>4. hasty' \in 0 .. 2 /\ hasty' <= 1
        BY <1>0, <2>1 DEF AtMost, StormInv
    <2> QED BY <1>0, <2>2, <2>3, <2>4 DEF StormInv, Off
<1> QED BY <1>1, <1>2

LEMMA ConnectionInit == Init => ConnectionInv
<1> SUFFICES ASSUME Init PROVE ConnectionInv
    OBVIOUS
<1>1. TypeOK
    <2>1. repaired \in [Symbols -> [from : Off .. MaxAge, times : 0 .. Cardinality(StreamKeys)]]
        <3>1. \A s \in Symbols : NoRepair \in [from : Off .. MaxAge, times : 0 .. Cardinality(StreamKeys)]
            <4>1. MaxAge \in Nat /\ \A s \in Symbols : Cardinality(StreamKeys) \in Nat
                BY WsAssumption, OneKlineKey
            <4> QED BY <4>1 DEF NoRepair, Off
        <3> QED BY <3>1 DEF Init
    <2>2. /\ HeartbeatCheck \in Nat /\ StableReset \in Nat /\ StopTimeout \in Nat
          /\ MaxDelay \in Nat /\ MaxAttempts \in Nat /\ MaxAge \in Nat /\ MaxBreaks \in Nat
        BY WsAssumption
    <2>3. /\ idle \in 0 .. MaxAge /\ quiet \in 0 .. MaxAge
          /\ disconnectedAt \in Off .. MaxAge /\ outage \in Off .. MaxAge
          /\ reconnectAttempts \in 0 .. MaxAttempts /\ hasty \in 0 .. 2 /\ breaks \in 0 .. MaxBreaks
        BY <2>2 DEF Init, Off
    <2>4. /\ heartbeatTimer \in Off .. HeartbeatCheck /\ stableTimer \in Off .. StableReset
          /\ reconnectTimer \in Off .. MaxDelay /\ stopTimer \in Off .. StopTimeout
        BY <2>2 DEF Init, Off
    <2>5. /\ phase \in {"new", "up", "stopping", "stopped"}
          /\ ws \in BOOLEAN /\ connected \in BOOLEAN
          /\ socket \in {"none", "connecting", "open", "silent", "ending"}
        BY DEF Init
    <2> QED BY <2>1, <2>3, <2>4, <2>5 DEF TypeOK
<1>2. SocketInv /\ WatchInv /\ OutageInv /\ StormInv
    BY DEF Init, SocketInv, WatchInv, OutageInv, StormInv, Off
<1> QED BY <1>1, <1>2 DEF ConnectionInv

LEMMA TypeStep == ASSUME TypeOK, SocketInv, StormInv, [Next]_vars PROVE TypeOK'
<1>0. /\ HeartbeatCheck \in Nat \ {0} /\ StableReset \in Nat \ {0} /\ StopTimeout \in Nat \ {0}
      /\ MaxDelay \in Nat /\ MaxAttempts \in Nat \ {0} /\ MaxAge \in Nat /\ MaxBreaks \in Nat
      /\ Off = -1
    BY WsAssumption DEF Off
<1>1. CASE Start
    BY <1>0, <1>1 DEF Start, TypeOK, timers, told, ages
<1>2. CASE HandleOpen
    <2>1. repaired' \in [Symbols -> [from : Off .. MaxAge, times : 0 .. Cardinality(StreamKeys)]]
        <3>1. CASE disconnectedAt = Off
            BY <1>2, <3>1 DEF HandleOpen, TypeOK
        <3>2. CASE disconnectedAt # Off
            <4>1. repaired' = [s \in Symbols |-> [from |-> disconnectedAt,
                                                  times |-> Cardinality(KlineKeys(s))]]
                BY <1>2, <3>2 DEF HandleOpen
            <4>2. \A s \in Symbols : Cardinality(KlineKeys(s)) \in 0 .. Cardinality(StreamKeys)
                <5> SUFFICES ASSUME NEW s \in Symbols
                             PROVE  Cardinality(KlineKeys(s)) \in 0 .. Cardinality(StreamKeys)
                    OBVIOUS
                <5> QED BY OneKlineKey
            <4>3. disconnectedAt \in Off .. MaxAge
                BY DEF TypeOK
            <4> QED BY <4>1, <4>2, <4>3
        <3> QED BY <3>1, <3>2
    <2> QED BY <1>0, <1>2, <2>1 DEF HandleOpen, TypeOK, IdleWhenOpen, AttemptsWhenOpen
<1>3. CASE HandleMessage
    BY <1>0, <1>3 DEF HandleMessage, TypeOK, timers, told
<1>4. CASE ConnectFails
    BY <1>0, <1>4 DEF ConnectFails, HandleError, OutageBegins, Breaks, TypeOK
<1>5. CASE SocketErrs
    <2>1. /\ UNCHANGED <<phase, ws, idle, heartbeatTimer, stableTimer, stopTimer, disconnectedAt,
                         repaired, reconnectTimer, reconnectAttempts, hasty, quiet>>
          /\ socket' = "ending"
        BY <1>5 DEF SocketErrs, HandleError, OutageBegins
    <2>2. outage' \in Off .. MaxAge
        BY <1>0, <1>5 DEF SocketErrs, OutageBegins, TypeOK
    <2>3. breaks' \in 0 .. MaxBreaks
        BY <1>0, <1>5 DEF SocketErrs, Breaks, TypeOK
    <2>4. connected' \in BOOLEAN
        BY <1>5 DEF SocketErrs, HandleError
    <2> QED BY <2>1, <2>2, <2>3, <2>4 DEF TypeOK
<1>6. CASE PeerCloses
    BY <1>0, <1>6 DEF PeerCloses, OutageBegins, Breaks, TypeOK, timers, told
<1>7. CASE GoesSilent
    BY <1>0, <1>7 DEF GoesSilent, OutageBegins, Breaks, TypeOK, timers, told
<1>8. CASE HandleClose
    <2>1. /\ UNCHANGED <<idle, repaired, ages, breaks>> /\ socket' = "none" /\ ws' = FALSE
          /\ heartbeatTimer' = Off /\ stableTimer' = Off
        BY <1>8 DEF HandleClose
    <2>i. /\ idle' \in 0 .. MaxAge /\ breaks' \in 0 .. MaxBreaks
          /\ repaired' \in [Symbols -> [from : Off .. MaxAge, times : 0 .. Cardinality(StreamKeys)]]
          /\ quiet' \in 0 .. MaxAge /\ outage' \in Off .. MaxAge
          /\ socket' = "none" /\ ws' \in BOOLEAN
          /\ heartbeatTimer' \in Off .. HeartbeatCheck /\ stableTimer' \in Off .. StableReset
        <3>1. UNCHANGED <<idle, repaired, quiet, outage, breaks>>
            BY <2>1 DEF ages
        <3>2. Off \in Off .. HeartbeatCheck /\ Off \in Off .. StableReset
            BY <1>0
        <3> QED BY <2>1, <3>1, <3>2 DEF TypeOK
    <2>2. CASE phase = "up"
        <3>1. /\ disconnectedAt' = BreakSince /\ connected' = FALSE /\ UNCHANGED <<phase, stopTimer>>
              /\ ScheduleReconnect
            BY <1>8, <2>2 DEF HandleClose, ReconnectAfterClose
        <3>2. /\ reconnectTimer' \in Off .. MaxDelay
              /\ reconnectAttempts' \in 0 .. MaxAttempts /\ hasty' \in 0 .. 2
            BY <3>1, ScheduleTypes
        <3>3. disconnectedAt' \in Off .. MaxAge
            BY <1>0, <3>1 DEF BreakSince, TypeOK
        <3>4. /\ phase' \in {"new", "up", "stopping", "stopped"} /\ stopTimer' \in Off .. StopTimeout
              /\ connected' \in BOOLEAN
            BY <3>1 DEF TypeOK
        <3> QED BY <2>i, <3>2, <3>3, <3>4 DEF TypeOK
    <2>3. CASE phase # "up"
        <3>1. /\ phase' = "stopped" /\ stopTimer' = Off
              /\ UNCHANGED <<disconnectedAt, connected, reconnectTimer, reconnectAttempts, hasty>>
            BY <1>8, <2>3 DEF HandleClose
        <3>2. stopTimer' \in Off .. StopTimeout
            BY <1>0, <3>1
        <3> QED BY <2>i, <3>1, <3>2 DEF TypeOK
    <2> QED BY <2>2, <2>3
<1>9. CASE CheckHeartbeat
    BY <1>0, <1>9 DEF CheckHeartbeat, TypeOK, told, ages
<1>10. CASE StableTimerFires
    BY <1>0, <1>10 DEF StableTimerFires, TypeOK, told, ages
<1>11. CASE ReconnectTimerFires
    <2>1. UNCHANGED <<phase, idle, heartbeatTimer, stableTimer, stopTimer, reconnectAttempts,
                      disconnectedAt, told, ages, hasty, breaks>>
        BY <1>11 DEF ReconnectTimerFires
    <2>2. ws' \in BOOLEAN /\ socket' \in {"none", "connecting", "open", "silent", "ending"}
        BY <1>11 DEF ReconnectTimerFires, TypeOK
    <2>3. reconnectTimer' \in Off .. MaxDelay
        BY <1>0, <1>11 DEF ReconnectTimerFires
    <2> QED BY <2>1, <2>2, <2>3 DEF TypeOK, told, ages
<1>12. CASE StopTimesOut
    <2>1. UNCHANGED <<idle, heartbeatTimer, stableTimer, reconnectTimer, reconnectAttempts,
                      disconnectedAt, told, ages, hasty, breaks>>
        BY <1>12 DEF StopTimesOut
    <2>2. /\ ws' = FALSE /\ socket' = "ending" /\ phase' = "stopped"
          /\ stopTimer' \in Off .. StopTimeout
        BY <1>0, <1>12 DEF StopTimesOut
    <2> QED BY <2>1, <2>2 DEF TypeOK, told, ages
<1>13. CASE Stop
    <2>1. UNCHANGED <<ws, idle, reconnectAttempts, disconnectedAt, repaired, ages, hasty, breaks>>
        BY <1>13 DEF Stop
    <2>2. /\ phase' \in {"stopping", "stopped"} /\ stopTimer' \in Off .. StopTimeout
          /\ reconnectTimer' \in Off .. MaxDelay /\ heartbeatTimer' \in Off .. HeartbeatCheck
          /\ stableTimer' \in Off .. StableReset
        BY <1>0, <1>13 DEF Stop, StoppedReconnectTimer, CloseTimer, TypeOK
    <2>3. /\ socket' \in {"none", "connecting", "open", "silent", "ending"}
          /\ connected' \in BOOLEAN
        BY <1>13 DEF Stop, TypeOK
    <2> QED BY <2>1, <2>2, <2>3 DEF TypeOK, ages
<1>14. CASE Tick
    <2>1. ASSUME NEW bound \in Nat, NEW timer \in Off .. bound, timer # 0
          PROVE  CountDown(timer) \in Off .. bound
        BY <1>0, <2>1 DEF CountDown
    <2>2. /\ heartbeatTimer' \in Off .. HeartbeatCheck /\ stableTimer' \in Off .. StableReset
          /\ reconnectTimer' \in Off .. MaxDelay /\ stopTimer' \in Off .. StopTimeout
        BY <1>0, <1>14, <2>1 DEF Tick, TypeOK
    <2>3. /\ idle' \in 0 .. MaxAge /\ quiet' \in 0 .. MaxAge
          /\ disconnectedAt' \in Off .. MaxAge /\ outage' \in Off .. MaxAge
        BY <1>0, <1>14, AgesGrow DEF Tick, TypeOK
    <2> QED BY <1>14, <2>2, <2>3 DEF Tick, TypeOK, told
<1>15. CASE UNCHANGED vars
    BY <1>15 DEF vars, timers, told, ages, TypeOK
<1> QED BY <1>1, <1>2, <1>3, <1>4, <1>5, <1>6, <1>7, <1>8, <1>9, <1>10, <1>11, <1>12, <1>13,
           <1>14, <1>15 DEF Next, Network, Process

-----------------------------------------------------------------------------
\* Sockets and timers

LEMMA SocketStep == ASSUME TypeOK, SocketInv, [Next]_vars PROVE SocketInv'
<1>0. /\ HeartbeatCheck # Off /\ StopTimeout # Off /\ Off = -1
      /\ phase \in {"new", "up", "stopping", "stopped"} /\ ws \in BOOLEAN
      /\ socket \in {"none", "connecting", "open", "silent", "ending"}
    BY WsAssumption DEF TypeOK, Off
<1>1. CASE Start
    BY <1>1 DEF Start, SocketInv, timers
<1>2. CASE HandleOpen
    BY <1>0, <1>2 DEF HandleOpen, SocketInv
<1>3. CASE HandleMessage
    BY <1>3 DEF HandleMessage, SocketInv, timers
<1>4. CASE ConnectFails
    BY <1>0, <1>4 DEF ConnectFails, HandleError, SocketInv
<1>5. CASE SocketErrs
    BY <1>0, <1>5 DEF SocketErrs, HandleError, SocketInv
<1>6. CASE PeerCloses \/ GoesSilent
    BY <1>0, <1>6 DEF PeerCloses, GoesSilent, SocketInv, timers
<1>7. CASE HandleClose
    BY <1>0, <1>7 DEF HandleClose, SocketInv
<1>8. CASE CheckHeartbeat
    BY <1>0, <1>8 DEF CheckHeartbeat, SocketInv
<1>9. CASE StableTimerFires
    BY <1>0, <1>9 DEF StableTimerFires, SocketInv
<1>10. CASE ReconnectTimerFires
    BY <1>0, <1>10 DEF ReconnectTimerFires, SocketInv
<1>11. CASE StopTimesOut
    BY <1>0, <1>11 DEF StopTimesOut, SocketInv
<1>12. CASE Stop
    BY <1>0, <1>12 DEF Stop, StoppedReconnectTimer, CloseTimer, SocketInv
<1>13. CASE Tick
    <2>1. /\ UNCHANGED <<phase, ws, socket>>
          /\ reconnectTimer' # Off => reconnectTimer # Off
          /\ stopTimer' # Off => stopTimer # Off
          /\ stableTimer' # Off => stableTimer # Off
          /\ heartbeatTimer' # Off <=> heartbeatTimer # Off
        BY <1>0, <1>13 DEF Tick, CountDown, TypeOK
    <2> QED BY <2>1 DEF SocketInv
<1>14. CASE UNCHANGED vars
    BY <1>14 DEF vars, timers, SocketInv
<1> QED BY <1>1, <1>2, <1>3, <1>4, <1>5, <1>6, <1>7, <1>8, <1>9, <1>10, <1>11, <1>12, <1>13,
           <1>14 DEF Next, Network, Process

-----------------------------------------------------------------------------
\* The heartbeat, the outage and the counter of reconnections

LEMMA WatchStep ==
    ASSUME TypeOK, SocketInv, WatchInv, [Next]_vars PROVE WatchInv'
<1>0. /\ HeartbeatTimeout \in Nat /\ HeartbeatCheck \in Nat \ {0} /\ PingEvery \in Nat \ {0}
      /\ PingEvery <= HeartbeatTimeout /\ MaxAge \in Nat /\ MaxAge > Patience /\ Off = -1
      /\ Patience = HeartbeatTimeout + HeartbeatCheck
      /\ idle \in 0 .. MaxAge /\ quiet \in 0 .. MaxAge /\ outage \in Off .. MaxAge
      /\ heartbeatTimer \in Off .. HeartbeatCheck
      /\ phase \in {"new", "up", "stopping", "stopped"}
      /\ socket \in {"none", "connecting", "open", "silent", "ending"}
    BY WsAssumption DEF TypeOK, Patience, Off
<1>1. CASE \/ ConnectFails \/ SocketErrs \/ PeerCloses \/ HandleClose \/ StopTimesOut
    <2>1. socket' \in {"ending", "none"}
        BY <1>1 DEF ConnectFails, SocketErrs, PeerCloses, HandleClose, StopTimesOut
    <2> QED BY <2>1 DEF WatchInv
<1>2. CASE Start
    <2>1. socket' = "connecting"
        BY <1>2 DEF Start
    <2> QED BY <2>1 DEF WatchInv
<1>3. CASE HandleOpen
    <2>1. /\ socket' = "open" /\ idle' = 0 /\ quiet' = 0 /\ outage' = Off
          /\ heartbeatTimer' = HeartbeatCheck
        BY <1>3 DEF HandleOpen, IdleWhenOpen
    <2> QED BY <1>0, <2>1 DEF WatchInv, Patience
<1>4. CASE HandleMessage
    <2>1. /\ socket = "open" /\ idle' = 0 /\ quiet' = 0
          /\ UNCHANGED <<socket, outage, heartbeatTimer>>
        BY <1>4 DEF HandleMessage, timers
    <2> QED BY <1>0, <2>1 DEF WatchInv, Patience
<1>5. CASE GoesSilent
    <2>1. /\ socket = "open" /\ socket' = "silent" /\ UNCHANGED <<phase, idle, heartbeatTimer>>
          /\ outage' = 0
        BY <1>5 DEF GoesSilent, OutageBegins, timers, WatchInv
    <2> QED BY <1>0, <2>1 DEF WatchInv, Patience
<1>6. CASE CheckHeartbeat
    <2>1. /\ UNCHANGED <<phase, idle, ages, ws>> /\ heartbeatTimer' = HeartbeatCheck
          /\ socket' = IF ws /\ idle > HeartbeatTimeout THEN "ending" ELSE socket
          /\ heartbeatTimer = 0
        BY <1>6 DEF CheckHeartbeat
    <2>2. CASE ws /\ idle > HeartbeatTimeout
        BY <2>1, <2>2 DEF WatchInv
    <2>3. CASE ~(ws /\ idle > HeartbeatTimeout)
        <3>1. phase = "up" /\ socket \in {"open", "silent"} => idle <= HeartbeatTimeout
            BY <1>0, <2>3 DEF SocketInv
        <3>2. socket' = socket /\ UNCHANGED <<quiet, outage>>
            BY <2>1, <2>3 DEF ages
        <3> QED BY <1>0, <2>1, <3>1, <3>2 DEF WatchInv, Patience
    <2> QED BY <2>2, <2>3
<1>7. CASE ReconnectTimerFires
    <2>1. socket' = "connecting" \/ UNCHANGED <<phase, socket, idle, quiet, outage, heartbeatTimer>>
        BY <1>7 DEF ReconnectTimerFires, ages
    <2> QED BY <2>1 DEF WatchInv, Patience
<1>8. CASE Stop
    <2>1. /\ phase' # "up" /\ UNCHANGED <<idle, quiet, outage>>
          /\ socket' = socket \/ socket' = "ending"
        BY <1>8 DEF Stop, ages
    <2> QED BY <1>0, <2>1 DEF WatchInv
<1>9. CASE Tick
    <2>1. /\ UNCHANGED <<phase, socket>> /\ heartbeatTimer # 0 /\ (socket = "open" => quiet < PingEvery)
          /\ heartbeatTimer' = CountDown(heartbeatTimer)
          /\ idle' = AtMost(idle + 1, MaxAge) /\ quiet' = AtMost(quiet + 1, MaxAge)
          /\ outage = Off => outage' = Off
          /\ outage # Off => outage' = AtMost(outage + 1, MaxAge)
        BY <1>0, <1>9, AgesGrow DEF Tick, Older
    <2>2. phase = "up" /\ socket \in {"open", "silent"} =>
              idle' = idle + 1 /\ heartbeatTimer' = heartbeatTimer - 1
        BY <1>0, <2>1 DEF SocketInv, WatchInv, CountDown, AtMost
    <2>3. phase' = "up" /\ socket' \in {"open", "silent"} => idle' + heartbeatTimer' <= Patience
        BY <1>0, <2>1, <2>2 DEF WatchInv
    <2>4. socket' = "open" => idle' = quiet' /\ quiet' <= PingEvery /\ outage' = Off
        BY <1>0, <2>1 DEF WatchInv, AtMost
    <2>5. socket' = "silent" => outage' <= idle'
        BY <1>0, <2>1 DEF WatchInv, AtMost
    <2> QED BY <2>3, <2>4, <2>5 DEF WatchInv, Patience
<1>10. CASE UNCHANGED <<phase, socket, idle, heartbeatTimer, quiet, outage>>
    BY <1>10 DEF WatchInv, Patience
<1>11. CASE StableTimerFires
    BY <1>10, <1>11 DEF StableTimerFires, ages
<1>12. CASE UNCHANGED vars
    BY <1>10, <1>12 DEF vars, timers, ages
<1> QED BY <1>1, <1>2, <1>3, <1>4, <1>5, <1>6, <1>7, <1>8, <1>9, <1>11, <1>12
        DEF Next, Network, Process

LEMMA OutageStep ==
    ASSUME TypeOK, SocketInv, WatchInv, WatchInv', TypeOK', SocketInv', OutageInv, [Next]_vars
    PROVE  OutageInv'
<1>0. /\ Patience \in Nat /\ MaxAge \in Nat /\ MaxAge > Patience /\ Off = -1
      /\ outage \in Off .. MaxAge /\ disconnectedAt \in Off .. MaxAge
      /\ phase \in {"new", "up", "stopping", "stopped"}
      /\ socket \in {"none", "connecting", "open", "silent", "ending"}
    BY WsAssumption DEF TypeOK, Patience, Off
<1>n. Patience' = Patience
    BY DEF Patience
<1>1. CASE Start
    <2>1. phase = "new" /\ socket' = "connecting" /\ UNCHANGED <<outage, disconnectedAt>>
          /\ phase' = "up"
        BY <1>1 DEF Start, ages
    <2> QED BY <1>0, <1>n, <2>1 DEF OutageInv
<1>2. CASE HandleOpen
    <2>1. socket' = "open" /\ outage' = Off /\ disconnectedAt' = Off
        BY <1>2 DEF HandleOpen
    <2> QED BY <1>0, <1>n, <2>1 DEF OutageInv
<1>3. CASE ConnectFails \/ SocketErrs \/ PeerCloses \/ GoesSilent
    <2>1. /\ UNCHANGED <<phase, disconnectedAt>> /\ socket' \in {"ending", "silent"}
          /\ outage' = IF outage = Off THEN 0 ELSE outage
          /\ phase # "new"
        BY <1>3 DEF ConnectFails, SocketErrs, PeerCloses, GoesSilent, OutageBegins, SocketInv
    <2> QED BY <1>0, <1>n, <2>1 DEF OutageInv
<1>4. CASE HandleClose
    <2>1. socket' = "none" /\ socket = "ending" /\ UNCHANGED outage
        BY <1>4 DEF HandleClose, ages
    <2>2. CASE phase = "up"
        <3>1. disconnectedAt' = (IF disconnectedAt = Off THEN 0 ELSE disconnectedAt)
              /\ UNCHANGED phase
            BY <1>4, <2>2 DEF HandleClose, BreakSince
        <3> QED BY <1>0, <1>n, <2>1, <2>2, <3>1 DEF OutageInv
    <2>3. CASE phase # "up"
        <3>1. phase' = "stopped"
            BY <1>4, <2>3 DEF HandleClose
        <3> QED BY <3>1 DEF OutageInv
    <2> QED BY <2>2, <2>3
<1>5. CASE CheckHeartbeat
    <2>1. UNCHANGED <<phase, outage, disconnectedAt>> /\ (socket' = socket \/ socket' = "ending")
        BY <1>5 DEF CheckHeartbeat, ages
    <2> QED BY <1>n, <2>1 DEF OutageInv
<1>6. CASE ReconnectTimerFires
    <2>1. /\ UNCHANGED <<phase, outage, disconnectedAt>>
          /\ (socket' = socket \/ (socket = "none" /\ socket' = "connecting"))
        BY <1>0, <1>6 DEF ReconnectTimerFires, ages, SocketInv
    <2> QED BY <1>0, <1>n, <2>1 DEF OutageInv
<1>7. CASE Stop \/ StopTimesOut
    <2>1. phase' \in {"stopping", "stopped"}
        BY <1>7 DEF Stop, StopTimesOut
    <2> QED BY <2>1 DEF OutageInv
<1>8. CASE Tick
    <2>1. /\ UNCHANGED <<phase, socket>> /\ socket # "ending"
          /\ outage = Off => outage' = Off
          /\ outage # Off => outage' = AtMost(outage + 1, MaxAge)
          /\ disconnectedAt = Off => disconnectedAt' = Off
          /\ disconnectedAt # Off => disconnectedAt' = AtMost(disconnectedAt + 1, MaxAge)
        BY <1>0, <1>8, AgesGrow DEF Tick
    <2>2. CASE phase = "up"
        <3>1. disconnectedAt' # Off => disconnectedAt' >= outage' - Patience
            BY <1>0, <2>1, <2>2 DEF OutageInv, AtMost
        <3>2. disconnectedAt' = Off => outage' <= Patience
            <4>1. CASE socket \in {"open", "connecting"} /\ disconnectedAt' = Off
                BY <1>0, <2>1, <2>2, <4>1 DEF OutageInv, WatchInv, AtMost
            <4>2. CASE socket = "silent"
                <5>1. /\ idle' + heartbeatTimer' <= Patience /\ outage' <= idle'
                      /\ heartbeatTimer' # Off
                    BY <1>n, <2>1, <2>2, <4>2 DEF WatchInv, SocketInv
                <5>2. idle' \in 0 .. MaxAge /\ outage' \in Off .. MaxAge
                    BY DEF TypeOK
                <5>3. heartbeatTimer' \in Off .. HeartbeatCheck
                    BY DEF TypeOK
                <5>4. HeartbeatCheck \in Nat
                    BY WsAssumption
                <5>5. heartbeatTimer' \in Int /\ heartbeatTimer' >= 0
                    BY <1>0, <5>1, <5>3, <5>4
                <5>6. outage' \in Int /\ idle' \in Int
                    BY <1>0, <5>2
                <5>7. Patience \in Int
                    BY <1>0
                <5>8. outage' <= Patience
                    BY <5>1, <5>5, <5>6, <5>7, WithinSum
                <5> QED BY <5>8
            <4>3. CASE socket = "none"
                BY <1>0, <2>1, <2>2, <4>3 DEF OutageInv, AtMost
            <4> QED BY <1>0, <2>1, <4>1, <4>2, <4>3
        <3>3. socket' = "connecting" /\ disconnectedAt' = Off => outage' = Off
            BY <1>0, <2>1, <2>2 DEF OutageInv, AtMost
        <3>4. socket' = "none" => disconnectedAt' # Off
            BY <1>0, <2>1, <2>2 DEF OutageInv, AtMost
        <3> QED BY <1>n, <2>1, <2>2, <3>1, <3>2, <3>3, <3>4 DEF OutageInv
    <2>3. CASE phase # "up"
        BY <1>n, <2>1, <2>3 DEF OutageInv
    <2> QED BY <2>2, <2>3
<1>9. CASE UNCHANGED <<phase, socket, outage, disconnectedAt>>
    BY <1>9 DEF OutageInv, Patience
<1>10. CASE HandleMessage \/ StableTimerFires \/ UNCHANGED vars
    BY <1>9, <1>10 DEF HandleMessage, StableTimerFires, ages, vars
<1> QED BY <1>1, <1>2, <1>3, <1>4, <1>5, <1>6, <1>7, <1>8, <1>10 DEF Next, Network, Process

LEMMA StormStep == ASSUME TypeOK, StormInv, [Next]_vars PROVE StormInv'
<1>1. CASE HandleClose
    <2>1. CASE phase = "up"
        <3>1. ScheduleReconnect
            BY <1>1, <2>1 DEF HandleClose, ReconnectAfterClose
        <3> QED BY <3>1, ScheduleTypes
    <2>2. CASE phase # "up"
        BY <1>1, <2>2 DEF HandleClose, StormInv
    <2> QED BY <2>1, <2>2
<1>2. CASE StableTimerFires
    BY <1>2 DEF StableTimerFires, StormInv
<1>3. CASE UNCHANGED <<hasty, reconnectAttempts>>
    BY <1>3 DEF StormInv
<1>4. CASE UNCHANGED vars
    BY <1>3, <1>4 DEF vars
<1> QED BY <1>1, <1>2, <1>3, <1>4
        DEF Next, Network, Process, Start, HandleOpen, AttemptsWhenOpen, HandleMessage,
            ConnectFails, SocketErrs, HandleError, PeerCloses, GoesSilent, CheckHeartbeat,
            ReconnectTimerFires, StopTimesOut, Stop, Tick

LEMMA ConnectionStep == ConnectionInv /\ [Next]_vars => ConnectionInv'
<1> SUFFICES ASSUME ConnectionInv, [Next]_vars PROVE ConnectionInv'
    OBVIOUS
<1>1. TypeOK' /\ SocketInv' /\ WatchInv' /\ StormInv'
    BY TypeStep, SocketStep, WatchStep, StormStep DEF ConnectionInv
<1> QED BY <1>1, OutageStep DEF ConnectionInv

LEMMA ConnectionAlways == Spec => []ConnectionInv
BY ConnectionInit, ConnectionStep, PTL DEF Spec

-----------------------------------------------------------------------------
\* There is never a second connection, no timer outlives stop(), a dead connection
\* is ended within the time-out and one check, and only the first reconnection since
\* a stable connection is immediate: whatever breaks, whenever the timers fire and
\* whenever stop() is called (BinanceWsClient).
THEOREM ConnectionIsSoundHolds == Spec => []ConnectionIsSound
BY ConnectionAlways, ConnectionInvMeans, PTL

\* The heartbeat never ends a connection on which the exchange sends something as
\* often as it promises (checkHeartbeat).
THEOREM HealthyIsKeptHolds == Spec => HealthyIsKept
<1>1. ConnectionInv /\ [Next]_vars => [CheckHeartbeat /\ socket = "open" => socket' = "open"]_vars
    <2> SUFFICES ASSUME ConnectionInv, CheckHeartbeat, socket = "open" PROVE socket' = "open"
        OBVIOUS
    <2>1. idle \in Nat /\ quiet \in Nat /\ idle = quiet /\ quiet <= PingEvery
        BY DEF ConnectionInv, TypeOK, WatchInv
    <2>2. ~(idle > HeartbeatTimeout)
        BY <2>1, WsAssumption
    <2> QED BY <2>2 DEF CheckHeartbeat
<1> QED BY <1>1, ConnectionAlways, PTL DEF Spec, HealthyIsKept

\* When the connection is back one repair per symbol is asked for, from the start of
\* the whole outage less the patience of the heartbeat, however many reconnections
\* failed in between (handleClose, handleOpen, handleStreamStatus).
THEOREM RepairCoversOutageHolds == Spec => RepairCoversOutage
<1> DEFINE Covers ==
        socket = "connecting" /\ socket' = "open" /\ outage # Off =>
            \A s \in Symbols :
                /\ repaired'[s].times = 1
                /\ repaired'[s].from >= outage - (HeartbeatTimeout + HeartbeatCheck)
<1>1. ConnectionInv /\ [Next]_vars => [Covers]_vars
    <2> SUFFICES ASSUME ConnectionInv, Next,
                        socket = "connecting", socket' = "open", outage # Off,
                        NEW s \in Symbols
                 PROVE  /\ repaired'[s].times = 1
                        /\ repaired'[s].from >= outage - (HeartbeatTimeout + HeartbeatCheck)
        OBVIOUS
    <2>1. HandleOpen
        BY DEF Next, Network, Process, Start, HandleMessage, ConnectFails, SocketErrs, PeerCloses,
               GoesSilent, HandleClose, CheckHeartbeat, StableTimerFires, ReconnectTimerFires,
               StopTimesOut, Stop, Tick
    <2>2. phase = "up"
        BY DEF ConnectionInv, TypeOK, SocketInv
    <2>3. disconnectedAt # Off /\ disconnectedAt >= outage - Patience
        BY <2>2 DEF ConnectionInv, OutageInv
    <2>4. repaired'[s] = [from |-> disconnectedAt, times |-> Cardinality(KlineKeys(s))]
        BY <2>1, <2>3 DEF HandleOpen
    <2> QED BY <2>3, <2>4, OneKlineKey DEF Patience
<1> QED BY <1>1, ConnectionAlways, PTL DEF Spec, RepairCoversOutage
===============================================================================
