---------------------------- MODULE OpsFeedProofs -----------------------------
(***************************************************************************)
(* Theorems about EventStream and OpsFeed, for every heartbeat, every      *)
(* patience of the watchdog, every list of pauses and any jitter.          *)
(***************************************************************************)
EXTENDS OpsFeed, TLAPS

-----------------------------------------------------------------------------
\* The pauses

\* The jitter never turns a pause negative.
LEMMA BackoffIsNat ==
    ASSUME NEW n \in 0 .. MaxAttempt
    PROVE  backoffDelay(n) \subseteq Nat
<1> DEFINE k == AtMost(n, Len(BackoffSteps) - 1) + 1
           base == BackoffSteps[k]
           jitter == (base * JitterPercent) \div 100
<1>1. BackoffSteps \in Seq(Nat \ {0}) /\ Len(BackoffSteps) \in Nat \ {0}
    BY StreamAssumption
<1>2. k \in 1 .. Len(BackoffSteps)
    BY <1>1 DEF AtMost, MaxAttempt
<1>3. base \in Nat \ {0}
    BY <1>1, <1>2
<1>4. JitterPercent \in 0 .. 100
    BY StreamAssumption
<1>5. base * JitterPercent \in Nat /\ base * JitterPercent <= base * 100
    <2> HIDE DEF base
    <2> QED BY <1>3, <1>4, Z3
<1>6. jitter \in Nat /\ jitter <= base
    <2> DEFINE p == base * JitterPercent
    <2>1. p \in Nat /\ p <= base * 100
        BY <1>5
    <2>2. p \div 100 \in Nat /\ p \div 100 <= base
        <3> HIDE DEF p, base
        <3> QED BY <2>1, <1>3, Z3
    <2> QED BY <2>2
<1>7. backoffDelay(n) = base - jitter .. base + jitter
    BY DEF backoffDelay
<1> HIDE DEF base, jitter
<1> QED BY <1>3, <1>6, <1>7

-----------------------------------------------------------------------------
\* The connection

\* A source is watched from its birth on, and no retry is pending beside it.
SourceWatched ==
    source # NoSource =>
        retryTimer = Off /\ watchdogTimer # Off /\ quiet + watchdogTimer <= StaleAfter

\* Without a source, a client that runs will try again.
RetryPending == ~stopped /\ source = NoSource => retryTimer # Off

SourceInv ==
    TypeOK /\ OneSource /\ StoppedIsDead /\ LiveHasSource /\ SourceWatched /\ RetryPending

LEMMA SourceInvIsSound == SourceInv => SourceIsSound
BY StreamAssumption
   DEF SourceInv, SourceIsSound, SourceWatched, RetryPending, NeverStuck, MuteIsNoticed,
       StoppedIsDead, TypeOK, Off, Sources, NoSource

LEMMA SourceInit == Init => SourceInv
BY StreamAssumption
   DEF Init, SourceInv, TypeOK, OneSource, StoppedIsDead, LiveHasSource, SourceWatched,
       RetryPending, Off, Sources, NoSource, MaxAttempt

\* closeSource leaves no source open.
LEMMA AllClosed ==
    ASSUME SourceInv
    PROVE  /\ Closed \in [Sources -> {"closed", "connecting", "open", "mute"}]
           /\ \A i \in Sources : Closed[i] = "closed"
BY DEF SourceInv, TypeOK, OneSource, Closed, Sources, NoSource

\* connect leaves one source, watched, with no retry beside it.
LEMMA ConnectSound ==
    ASSUME SourceInv, NEW n \in 0 .. MaxAttempt, Connect(n), stopped' = FALSE,
           retryTimer' = Off, UNCHANGED <<pingDue, faults>>
    PROVE  SourceInv'
<1>1. PICK i \in Sources : source' = i /\ sources' = [Closed EXCEPT ![i] = "connecting"]
    BY DEF Connect
<1>2. /\ status' \in {"connecting", "reconnecting"} /\ attempt' = n
      /\ watchdogTimer' = StaleAfter /\ quiet' = 0
    BY DEF Connect, WatchdogWhenConnecting
<1>3. source' # NoSource
    BY <1>1 DEF Sources, NoSource
<1>4. TypeOK'
    <2>1. sources' \in [Sources -> {"closed", "connecting", "open", "mute"}]
        BY <1>1, AllClosed
    <2>2. StaleAfter \in Off .. StaleAfter /\ 0 \in 0 .. MaxQuiet
        BY StreamAssumption DEF Off
    <2>3. stopped' \in BOOLEAN
        OBVIOUS
    <2>4. retryTimer' \in Nat \union {Off}
        OBVIOUS
    <2> QED BY <1>1, <1>2, <2>1, <2>2, <2>3, <2>4 DEF SourceInv, TypeOK
<1>5. OneSource'
    BY <1>1, AllClosed DEF OneSource
<1>6. SourceWatched'
    BY <1>2, StreamAssumption DEF SourceWatched, Off
<1> QED BY <1>2, <1>3, <1>4, <1>5, <1>6 DEF SourceInv, StoppedIsDead, LiveHasSource, RetryPending

\* The number of attempts stays within its bound.
LEMMA NextAttempt ==
    ASSUME NEW n \in 0 .. MaxAttempt
    PROVE  AtMost(n + 1, MaxAttempt) \in 0 .. MaxAttempt
BY StreamAssumption DEF AtMost, MaxAttempt

\* A factory that throws leaves no source and a retry.
LEMMA ConnectThrowsSound ==
    ASSUME SourceInv, NEW n \in 0 .. MaxAttempt, ConnectThrows(n), stopped' = FALSE,
           UNCHANGED pingDue
    PROVE  SourceInv'
<1>1. retryTimer' \in Nat
    BY BackoffIsNat DEF ConnectThrows
<1>2. /\ sources' = Closed /\ source' = NoSource /\ status' = "reconnecting"
      /\ attempt' \in 0 .. MaxAttempt /\ UNCHANGED <<watchdogTimer, quiet>>
    BY NextAttempt DEF ConnectThrows
<1>3. faults' \in 0 .. MaxFaults
    BY StreamAssumption DEF ConnectThrows, Faulty, SourceInv, TypeOK
<1>4. TypeOK'
    BY <1>1, <1>2, <1>3, AllClosed DEF SourceInv, TypeOK
<1>5. OneSource'
    BY <1>2, AllClosed DEF OneSource
<1> QED
    BY <1>1, <1>2, <1>4, <1>5
       DEF SourceInv, StoppedIsDead, LiveHasSource, SourceWatched, RetryPending, Off

\* A source that goes leaves a retry behind, on the error event and by the watchdog.
LEMMA SourceGoes ==
    ASSUME SourceInv, ~stopped, sources' = Closed, source' = NoSource, ScheduleRetry,
           UNCHANGED <<stopped, pingDue, quiet>>,
           watchdogTimer' \in {watchdogTimer, Off}, faults' \in 0 .. MaxFaults
    PROVE  SourceInv'
<1>1. attempt \in 0 .. MaxAttempt
    BY DEF SourceInv, TypeOK
<1>2. CASE retryTimer # Off
    <2>1. UNCHANGED <<retryTimer, status, attempt>>
        BY <1>2 DEF ScheduleRetry
    <2>2. status # "live"
        BY <1>2 DEF SourceInv, SourceWatched, LiveHasSource
    <2>3. TypeOK'
        BY <2>1, AllClosed, StreamAssumption DEF SourceInv, TypeOK, NoSource, Off
    <2>4. OneSource'
        BY AllClosed DEF OneSource
    <2> QED
        BY <1>2, <2>1, <2>2, <2>3, <2>4
           DEF SourceInv, StoppedIsDead, LiveHasSource, SourceWatched, RetryPending
<1>3. CASE retryTimer = Off
    <2>1. /\ retryTimer' \in Nat /\ status' = "reconnecting"
          /\ attempt' \in 0 .. MaxAttempt
        BY <1>1, <1>3, BackoffIsNat, NextAttempt DEF ScheduleRetry
    <2>2. TypeOK'
        BY <2>1, AllClosed, StreamAssumption DEF SourceInv, TypeOK, NoSource, Off
    <2>3. OneSource'
        BY AllClosed DEF OneSource
    <2> QED
        BY <2>1, <2>2, <2>3
           DEF SourceInv, StoppedIsDead, LiveHasSource, SourceWatched, RetryPending, Off
<1> QED BY <1>2, <1>3

\* What the connection does keeps the invariant, one step per action.
LEMMA SourceStep == SourceInv /\ [Next]_vars => SourceInv'
<1> SUFFICES ASSUME SourceInv, [Next]_vars PROVE SourceInv'
    OBVIOUS
<1>0. attempt \in 0 .. MaxAttempt /\ 0 \in 0 .. MaxAttempt
    BY StreamAssumption DEF SourceInv, TypeOK, MaxAttempt
<1>1. CASE Start
    <2>1. stopped /\ stopped' = FALSE /\ UNCHANGED pingDue
        BY <1>1 DEF Start
    <2>2. retryTimer = Off
        BY <2>1 DEF SourceInv, StoppedIsDead
    <2> QED BY <1>0, <1>1, <2>1, <2>2, ConnectSound, ConnectThrowsSound DEF Start
<1>2. CASE Stop
    <2>1. /\ stopped' = TRUE /\ retryTimer' = Off /\ watchdogTimer' = Off
          /\ sources' = Closed /\ source' = NoSource /\ status' = "closed"
          /\ UNCHANGED <<attempt, pingDue, quiet, faults>>
        BY <1>2 DEF Stop, WatchdogWhenStopped
    <2>2. TypeOK'
        BY <2>1, AllClosed, StreamAssumption DEF SourceInv, TypeOK, Off
    <2>3. OneSource'
        BY <2>1, AllClosed DEF OneSource
    <2> QED
        BY <2>1, <2>2, <2>3
           DEF SourceInv, StoppedIsDead, LiveHasSource, SourceWatched, RetryPending
<1>3. CASE HandleOpen
    <2>1. /\ source # NoSource /\ sources[source] = "connecting" /\ status' = "live"
          /\ sources' = [sources EXCEPT ![source] = "open"] /\ attempt' = 0 /\ pingDue' = 0
          /\ UNCHANGED <<stopped, source, retryTimer, watchdogTimer, quiet, faults>>
        BY <1>3 DEF HandleOpen
    <2>2. TypeOK'
        BY <1>0, <2>1, StreamAssumption DEF SourceInv, TypeOK
    <2>3. OneSource'
        BY <2>1 DEF SourceInv, TypeOK, OneSource
    <2> QED
        BY <2>1, <2>2, <2>3
           DEF SourceInv, StoppedIsDead, LiveHasSource, SourceWatched, RetryPending
<1>4. CASE MarkAlive
    <2>1. /\ source # NoSource /\ watchdogTimer' = StaleAfter /\ status' = "live"
          /\ attempt' = 0 /\ pingDue' = PingEvery /\ quiet' = 0
          /\ UNCHANGED <<stopped, source, sources, retryTimer, faults>>
        BY <1>4 DEF MarkAlive, Live, WatchdogAfterPing
    <2>2. TypeOK'
        BY <1>0, <2>1, StreamAssumption DEF SourceInv, TypeOK, Off
    <2>3. SourceWatched'
        BY <2>1, StreamAssumption DEF SourceInv, SourceWatched, Off
    <2> QED
        BY <2>1, <2>2, <2>3
           DEF SourceInv, OneSource, StoppedIsDead, LiveHasSource, RetryPending
<1>5. CASE HandleError
    <2>1. ~stopped /\ faults' \in 0 .. MaxFaults
        BY <1>5, StreamAssumption DEF HandleError, Faulty, SourceInv, StoppedIsDead, TypeOK
    <2> QED BY <1>5, <2>1, SourceGoes DEF HandleError
<1>6. CASE GoesMute
    <2>1. /\ source # NoSource /\ sources' = [sources EXCEPT ![source] = "mute"]
          /\ faults' \in 0 .. MaxFaults
          /\ UNCHANGED <<stopped, source, retryTimer, watchdogTimer, status, attempt,
                         pingDue, quiet>>
        BY <1>6, StreamAssumption DEF GoesMute, Faulty, SourceInv, TypeOK
    <2>2. TypeOK'
        BY <2>1 DEF SourceInv, TypeOK
    <2>3. OneSource'
        BY <2>1 DEF SourceInv, TypeOK, OneSource
    <2> QED
        BY <2>1, <2>2, <2>3
           DEF SourceInv, StoppedIsDead, LiveHasSource, SourceWatched, RetryPending
<1>7. CASE RetryTimerFires
    <2>1. stopped = FALSE /\ stopped' = FALSE /\ UNCHANGED pingDue
        BY <1>7 DEF RetryTimerFires, SourceInv, StoppedIsDead, TypeOK, Off
    <2> QED BY <1>0, <1>7, <2>1, ConnectSound, ConnectThrowsSound DEF RetryTimerFires
<1>8. CASE WatchdogFires
    <2>1. ~stopped /\ faults' \in 0 .. MaxFaults
        BY <1>8 DEF WatchdogFires, SourceInv, StoppedIsDead, TypeOK, Off
    <2> QED BY <1>8, <2>1, SourceGoes DEF WatchdogFires
<1>9. CASE HandleOnline
    <2>1. stopped' = FALSE /\ UNCHANGED pingDue
        BY <1>9 DEF HandleOnline, SourceInv, TypeOK
    <2> QED
        BY <1>0, <1>9, <2>1, ConnectSound, ConnectThrowsSound DEF HandleOnline, RetryWhenOnline
<1>10. CASE Tick
    <2>1. /\ retryTimer # 0 /\ watchdogTimer # 0
          /\ retryTimer' = CountDown(retryTimer) /\ watchdogTimer' = CountDown(watchdogTimer)
          /\ pingDue' = (IF Live THEN pingDue - 1 ELSE pingDue) /\ (Live => pingDue # 0)
          /\ quiet' = AtMost(quiet + 1, MaxQuiet)
          /\ UNCHANGED <<stopped, source, sources, status, attempt, faults>>
        BY <1>10 DEF Tick
    <2>2. /\ retryTimer' \in Nat \union {Off} /\ watchdogTimer' \in Off .. StaleAfter
          /\ (retryTimer' = Off <=> retryTimer = Off)
          /\ (watchdogTimer' = Off <=> watchdogTimer = Off)
        BY <2>1, StreamAssumption DEF SourceInv, TypeOK, CountDown, Off
    <2>3. quiet' \in 0 .. MaxQuiet /\ quiet' <= quiet + 1
        BY <2>1, StreamAssumption DEF SourceInv, TypeOK, AtMost
    <2>4. pingDue' \in 0 .. PingEvery
        BY <2>1, StreamAssumption DEF SourceInv, TypeOK
    <2>5. TypeOK'
        BY <2>1, <2>2, <2>3, <2>4 DEF SourceInv, TypeOK
    <2>6. SourceWatched'
        BY <2>1, <2>2, <2>3, StreamAssumption
           DEF SourceInv, TypeOK, SourceWatched, CountDown, Off
    <2> QED
        BY <2>1, <2>2, <2>5, <2>6
           DEF SourceInv, OneSource, StoppedIsDead, LiveHasSource, RetryPending
<1>11. CASE UNCHANGED vars
    BY <1>11
       DEF vars, SourceInv, TypeOK, OneSource, StoppedIsDead, LiveHasSource, SourceWatched,
           RetryPending
<1> QED
    BY <1>1, <1>2, <1>3, <1>4, <1>5, <1>6, <1>7, <1>8, <1>9, <1>10, <1>11 DEF Next

-----------------------------------------------------------------------------
\* The panel's feed

\* What was sent and what is computed was true once, and in this order.
Ordered ==
    /\ sent <= truth
    /\ \A v \in computing \ {Unread} : sent <= v /\ v <= truth

FeedInv == SourceInv /\ FeedTypeOK /\ Ordered

LEMMA FeedInitSound == FeedInit => FeedInv
<1> SUFFICES ASSUME FeedInit PROVE FeedInv
    OBVIOUS
<1>1. SourceInv
    BY SourceInit DEF FeedInit
<1>2. 0 \in Versions
    BY FeedAssumption DEF Versions
<1>3. FeedTypeOK
    BY <1>2 DEF FeedInit, FeedTypeOK
<1>4. Ordered
    BY DEF FeedInit, Ordered, None
<1> QED BY <1>1, <1>3, <1>4 DEF FeedInv

\* A version is a number, and neither of the marks.
LEMMA VersionIsNat == \A v \in Versions : v \in Nat /\ v # None /\ v # Unread /\ None < v
BY FeedAssumption DEF Versions, None, Unread

\* A trigger starts a computation or is dropped; it does not change what was read.
LEMMA FetchOne ==
    ASSUME FeedTypeOK, Ordered
    PROVE  /\ \E v \in Versions \union {Unread} : fetchHealth \subseteq {v}
           /\ \A v \in fetchHealth \ {Unread} : sent <= v /\ v <= truth
BY DEF FeedTypeOK, Ordered, fetchHealth

\* What the connection alone does, or nothing does, keeps SourceInv.
LEMMA ConnectionKept ==
    ASSUME SourceInv, UNCHANGED vars
    PROVE  SourceInv'
BY SourceStep

\* Every step keeps the invariant of the feed and the order of its frames.
LEMMA FeedStep ==
    FeedInv /\ [FeedNext]_feedVars => FeedInv' /\ (sent' # None => sent' >= sent)
<1> SUFFICES ASSUME FeedInv, [FeedNext]_feedVars
             PROVE  FeedInv' /\ (sent' # None => sent' >= sent)
    OBVIOUS
<1> USE DEF FeedInv
<1>0. /\ truth \in Versions /\ truth \in Nat
      /\ sent \in Versions \union {None} /\ sent \in Int /\ sent >= sent
    BY VersionIsNat DEF FeedTypeOK, None
<1>1. CASE ConnectionSteps
    <2>1. SourceInv'
        BY <1>1, SourceStep DEF ConnectionSteps
    <2>2. UNCHANGED <<truth, request, panel>>
        BY <1>1 DEF ConnectionSteps
    <2>3. CASE UNCHANGED server
        BY <1>0, <2>1, <2>2, <2>3 DEF server, FeedTypeOK, Ordered
    <2>4. CASE /\ throttle' = "closed" /\ computing' = {} /\ sent' = None
               /\ initial' \in {Unread, None}
        <3>1. FeedTypeOK'
            BY <1>0, <2>2, <2>4 DEF FeedTypeOK
        <3>2. Ordered'
            BY <1>0, <2>2, <2>4 DEF Ordered, None
        <3> QED BY <2>1, <2>4, <3>1, <3>2
    <2> QED BY <1>1, <2>3, <2>4 DEF ConnectionSteps
<1>2. CASE Announced
    <2>1. SourceInv'
        BY <1>2, ConnectionKept DEF Announced
    <2>2. /\ truth' \in Versions /\ truth' = truth + 1
          /\ UNCHANGED <<initial, sent, request, panel>>
          /\ throttle' \in {"closed", "open", "trailing"}
          /\ computing' \in {computing, fetchHealth}
        BY <1>0, <1>2, FeedAssumption DEF Announced, Versions, FeedTypeOK
    <2>3. FeedTypeOK'
        BY <2>2, FetchOne DEF FeedTypeOK
    <2>4. Ordered'
        <3>1. ASSUME NEW v \in computing' \ {Unread} PROVE sent <= v /\ v <= truth
            BY <2>2, FetchOne DEF Ordered
        <3>2. \A v \in computing' \ {Unread} : v \in Int
            BY <2>3, VersionIsNat DEF FeedTypeOK
        <3> QED BY <1>0, <2>2, <3>1, <3>2 DEF Ordered
    <2> QED BY <1>0, <2>1, <2>2, <2>3, <2>4
<1>3. CASE Unannounced
    <2>1. SourceInv'
        BY <1>3, ConnectionKept DEF Unannounced
    <2>2. /\ truth' \in Versions /\ truth' = truth + 1
          /\ UNCHANGED <<throttle, computing, initial, sent, request, panel>>
        BY <1>0, <1>3, FeedAssumption DEF Unannounced, Versions, server
    <2>3. FeedTypeOK' /\ Ordered'
        BY <1>0, <2>2 DEF FeedTypeOK, Ordered
    <2> QED BY <1>0, <2>1, <2>2, <2>3
<1>4. CASE ThrottleEnds \/ RefreshTicks
    <2>1. SourceInv'
        BY <1>4, ConnectionKept DEF ThrottleEnds, RefreshTicks
    <2>2. /\ UNCHANGED <<truth, initial, sent, request, panel>>
          /\ throttle' \in {"closed", "open", "trailing"}
          /\ computing' \in {computing, fetchHealth}
        BY <1>4 DEF ThrottleEnds, RefreshTicks, Periodic, FeedTypeOK
    <2>3. FeedTypeOK'
        BY <2>2, FetchOne DEF FeedTypeOK
    <2>4. Ordered'
        BY <2>2, FetchOne DEF Ordered
    <2> QED BY <1>0, <2>1, <2>2, <2>3, <2>4
<1>5. CASE HealthReads
    <2>1. SourceInv'
        BY <1>5, ConnectionKept DEF HealthReads
    <2>2. /\ Unread \in computing /\ computing' = (computing \ {Unread}) \union {truth}
          /\ UNCHANGED <<truth, throttle, initial, sent, request, panel>>
        BY <1>5 DEF HealthReads
    <2>3. computing' = {truth}
        BY <2>2 DEF FeedTypeOK
    <2>4. FeedTypeOK'
        BY <1>0, <2>2, <2>3 DEF FeedTypeOK
    <2>5. Ordered'
        BY <1>0, <2>2, <2>3 DEF Ordered
    <2> QED BY <1>0, <2>1, <2>2, <2>4, <2>5
<1>6. CASE InitialReads \/ RequestReads \/ PollSent \/ PollArrives
    <2>1. SourceInv'
        BY <1>6, ConnectionKept DEF InitialReads, RequestReads, PollSent, PollArrives
    <2>2. UNCHANGED <<truth, throttle, computing, sent>>
        BY <1>6 DEF InitialReads, RequestReads, PollSent, PollArrives, server
    <2>3. /\ initial' \in Versions \union {None, Unread}
          /\ request' \in Versions \union {None, Unread}
          /\ panel' \in Versions \union {None}
        BY <1>0, <1>6 DEF InitialReads, RequestReads, PollSent, PollArrives, server, FeedTypeOK
    <2>4. FeedTypeOK' /\ Ordered'
        BY <2>2, <2>3 DEF FeedTypeOK, Ordered
    <2> QED BY <1>0, <2>1, <2>2, <2>4
<1>7. CASE HealthArrives
    <2>1. SourceInv'
        BY <1>7, SourceStep DEF HealthArrives, Next
    <2>2. PICK v \in computing \ {Unread} :
              computing' = computing \ {v} /\ sent' = v /\ panel' = v
        BY <1>7 DEF HealthArrives
    <2>3. UNCHANGED <<truth, throttle, initial, request>>
        BY <1>7 DEF HealthArrives
    <2>4. v \in Versions /\ computing' = {}
        BY <2>2 DEF FeedTypeOK
    <2>5. sent <= v
        BY <2>2 DEF Ordered
    <2>6. FeedTypeOK'
        BY <1>0, <2>2, <2>3, <2>4 DEF FeedTypeOK
    <2>7. v <= truth
        BY <2>2 DEF Ordered
    <2>8. Ordered'
        BY <2>2, <2>3, <2>4, <2>7 DEF Ordered
    <2> QED BY <1>0, <2>1, <2>2, <2>4, <2>5, <2>6, <2>8, VersionIsNat
<1>8. CASE InitialArrives
    <2>1. SourceInv'
        BY <1>8, SourceStep DEF InitialArrives, Next
    <2>2. /\ initial \in Versions /\ initial' = None /\ panel' = initial
          /\ UNCHANGED <<truth, throttle, computing, sent, request>>
        BY <1>8 DEF InitialArrives
    <2>3. FeedTypeOK' /\ Ordered'
        BY <2>2 DEF FeedTypeOK, Ordered
    <2> QED BY <1>0, <2>1, <2>2, <2>3
<1>9. CASE HealthFails
    <2>1. /\ UNCHANGED <<stopped, source, sources, retryTimer, watchdogTimer, status, attempt,
                         pingDue, quiet, truth, throttle, sent, panel>>
          /\ faults < MaxFaults /\ faults' = faults + 1
        BY <1>9 DEF HealthFails, Faulty
    <2>2. faults' \in 0 .. MaxFaults
        BY <2>1, StreamAssumption DEF SourceInv, TypeOK
    <2>3. SourceInv'
        BY <2>1, <2>2
           DEF SourceInv, TypeOK, OneSource, StoppedIsDead, LiveHasSource, SourceWatched,
               RetryPending
    <2>4. /\ computing' \subseteq computing
          /\ initial' \in {initial, None} /\ request' \in {request, None}
        BY <1>9 DEF HealthFails
    <2>5. FeedTypeOK'
        BY <2>1, <2>4 DEF FeedTypeOK
    <2>6. Ordered'
        BY <2>1, <2>4 DEF Ordered
    <2> QED BY <1>0, <2>1, <2>3, <2>5, <2>6
<1>10. CASE UNCHANGED feedVars
    <2>1. UNCHANGED <<vars, truth, throttle, computing, initial, sent, request, panel>>
        BY <1>10 DEF feedVars, feed, server
    <2>2. SourceInv'
        BY <2>1, ConnectionKept
    <2>3. FeedTypeOK' /\ Ordered'
        BY <2>1 DEF FeedTypeOK, Ordered
    <2> QED BY <1>0, <2>1, <2>2, <2>3
<1> QED BY <1>1, <1>2, <1>3, <1>4, <1>5, <1>6, <1>7, <1>8, <1>9, <1>10 DEF FeedNext

\* The invariant of connection and feed.
THEOREM FeedCorrect == FeedSpec => []FeedInv
<1>1. FeedInit => FeedInv
    BY FeedInitSound
<1>2. FeedInv /\ [FeedNext]_feedVars => FeedInv'
    BY FeedStep
<1> QED BY <1>1, <1>2, PTL DEF FeedSpec

\* The dashboard never holds two connections, never runs without a watched source or
\* a pending retry, never takes a connection that is gone for live, and never keeps
\* a silent one longer than STALE_AFTER_MS (EventStreamClient).
THEOREM FeedIsSoundHolds == FeedSpec => []FeedIsSound
<1>1. FeedInv => FeedIsSound
    BY SourceInvIsSound DEF FeedInv, FeedIsSound
<1> QED BY <1>1, FeedCorrect, PTL

\* On one connection no frame of ops$ tells of an earlier state than the one before
\* (exhaustMap of buildOpsStream).
THEOREM HealthInOrderHolds == FeedSpec => HealthInOrder
<1>1. FeedInv /\ [FeedNext]_feedVars => [sent' # None => sent' >= sent]_feedVars
    BY FeedStep
<1> QED BY <1>1, FeedCorrect, PTL DEF FeedSpec, HealthInOrder

-----------------------------------------------------------------------------
\* The watchdog and the heartbeat

\* While the server keeps its heartbeat, the watchdog is set beyond the next ping.
Pinged ==
    Live /\ pingDue # 0 => watchdogTimer - pingDue >= StaleAfter - PingEvery

\* A step of the connection that leaves a source open either sets the watchdog anew
\* with the ping, or waits for the first one, or takes a tick off both.
LEMMA PingedStep ==
    ASSUME SourceInv, Pinged, [Next]_vars
    PROVE  Pinged' /\ (WatchdogFires => ~(Live /\ pingDue # 0))
<1>0. /\ StaleAfter \in Nat /\ PingEvery \in Nat /\ PingEvery < StaleAfter
      /\ pingDue \in 0 .. PingEvery /\ watchdogTimer \in Off .. StaleAfter /\ Off = -1
      /\ sources \in [Sources -> {"closed", "connecting", "open", "mute"}]
      /\ source \in Sources \union {NoSource}
    BY StreamAssumption DEF SourceInv, TypeOK, Off
<1>1. WatchdogFires => ~(Live /\ pingDue # 0)
    BY <1>0 DEF WatchdogFires, Pinged
<1>2. ASSUME NEW n, Connect(n) PROVE ~Live'
    <2>1. PICK i \in Sources : source' = i /\ sources' = [Closed EXCEPT ![i] = "connecting"]
        BY <1>2 DEF Connect
    <2>2. Closed \in [Sources -> {"closed", "connecting", "open", "mute"}]
        BY AllClosed
    <2> QED BY <2>1, <2>2 DEF Live
<1>3. ASSUME source' = NoSource PROVE ~Live'
    BY <1>3 DEF Live
<1>4. Pinged'
    <2>1. CASE Start \/ RetryTimerFires \/ HandleOnline
        BY <1>2, <1>3, <2>1 DEF Start, RetryTimerFires, HandleOnline, ConnectThrows, Pinged
    <2>2. CASE Stop \/ HandleError \/ WatchdogFires
        BY <1>3, <2>2 DEF Stop, HandleError, WatchdogFires, Pinged
    <2>3. CASE HandleOpen
        BY <2>3 DEF HandleOpen, Pinged
    <2>4. CASE MarkAlive
        BY <1>0, <2>4 DEF MarkAlive, WatchdogAfterPing, Pinged
    <2>5. CASE GoesMute
        BY <1>0, <2>5 DEF GoesMute, Live, Pinged
    <2>6. CASE Tick
        <3>1. Live' <=> Live
            BY <2>6 DEF Tick, Live
        <3>2. CASE Live
            <4>1. pingDue # 0 /\ pingDue' = pingDue - 1
                BY <2>6, <3>2 DEF Tick
            <4>2. watchdogTimer # Off /\ watchdogTimer' = watchdogTimer - 1
                BY <2>6, <3>2 DEF Tick, CountDown, Live, SourceInv, SourceWatched
            <4> QED BY <1>0, <3>2, <4>1, <4>2 DEF Pinged
        <3> QED BY <3>1, <3>2 DEF Pinged
    <2>7. CASE UNCHANGED vars
        BY <2>7 DEF vars, Live, Pinged
    <2> QED BY <2>1, <2>2, <2>3, <2>4, <2>5, <2>6, <2>7 DEF Next
<1> QED BY <1>1, <1>4

\* A step of the feed is one of the connection, or leaves it alone but for the bound.
LEMMA FeedMovesConnection ==
    ASSUME [FeedNext]_feedVars
    PROVE  \/ [Next]_vars
           \/ UNCHANGED <<stopped, source, sources, retryTimer, watchdogTimer, status, attempt,
                          pingDue, quiet>> /\ ~WatchdogFires
<1>1. CASE HealthFails
    BY <1>1 DEF HealthFails, WatchdogFires, Off
<1> QED BY <1>1
        DEF FeedNext, feedVars, ConnectionSteps, Announced, Unannounced, ThrottleEnds,
            RefreshTicks, HealthReads, InitialReads, RequestReads, HealthArrives,
            InitialArrives, PollSent, PollArrives, Next

\* The watchdog does not cut a connection on which the server keeps its heartbeat
\* (armWatchdog, markAlive).
THEOREM HealthyIsKeptHolds == FeedSpec => HealthyIsKept
<1>1. FeedInit => Pinged
    BY DEF FeedInit, Init, Pinged, Live, NoSource
<1>2. FeedInv /\ Pinged /\ [FeedNext]_feedVars =>
          Pinged' /\ [WatchdogFires => ~(Live /\ pingDue # 0)]_vars
    <2> SUFFICES ASSUME FeedInv, Pinged, [FeedNext]_feedVars
                 PROVE  Pinged' /\ (WatchdogFires => ~(Live /\ pingDue # 0))
        OBVIOUS
    <2>1. CASE [Next]_vars
        BY <2>1, PingedStep DEF FeedInv
    <2>2. CASE UNCHANGED <<source, sources, watchdogTimer, pingDue>> /\ ~WatchdogFires
        BY <2>2 DEF Pinged, Live
    <2> QED BY <2>1, <2>2, FeedMovesConnection
<1> QED BY <1>1, <1>2, FeedCorrect, PTL DEF FeedSpec, HealthyIsKept
==============================================================================
