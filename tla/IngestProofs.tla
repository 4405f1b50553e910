----------------------------- MODULE IngestProofs -----------------------------
(***************************************************************************)
(* The ingest, for every value of the constants: first CandlePipeline      *)
(* (no write takes a stored candle back, whatever goes wrong how often),   *)
(* then TradeIngest (no trade is lost silently between the stream and the  *)
(* trades table).                                                          *)
(***************************************************************************)
EXTENDS CandlePipeline, TradeIngest, SequenceTheorems, FiniteSetTheorems, TLAPS

\* What a job may be asked for: closed candles.
JobRanges(n) == {r \in [start : Candles, end : Candles] : r.start < r.end /\ r.end <= n}

JobType(n) == [kind : {"engine", "repair"}, range : JobRanges(n)]

ChainType == Seq([candle : Candles, level : {partial, final}])

LEMMA NowIsNat == ASSUME TypeOK PROVE now \in Nat /\ now <= Horizon
BY PipelineAssumption DEF TypeOK, Candles

-----------------------------------------------------------------------------
\* Jobs

\* The gaps of any window are ranges of closed candles.
LEMMA GapsAreClosed ==
    ASSUME TypeOK, NEW start \in Int, NEW end \in Int,
           NEW g \in Gaps([start |-> start, end |-> end])
    PROVE  g \in JobRanges(now)
<1> DEFINE win == [start |-> start, end |-> end]
           cap == capEndToClosedCandles(end, now, 1)
           M == {m \in start .. (cap - 1) : m \in Candles /\ klines[m] = absent}
<1>1. now \in Nat /\ now <= Horizon /\ Horizon \in Nat
    BY NowIsNat, PipelineAssumption
<1>2. cap \in Int /\ cap <= now
    BY <1>1 DEF capEndToClosedCandles, floorToStep
<1>3. M \subseteq 0 .. (now - 1)
    <2> HIDE DEF cap
    <2> QED BY <1>1, <1>2 DEF Candles
<1>4. g \in GapRanges(M)
    BY DEF Gaps
<1> HIDE DEF M
<1>5. g \in [start : M, end : {m + 1 : m \in M}] /\ g.start < g.end
    BY <1>4 DEF GapRanges
<1>6. g.start \in 0 .. (now - 1) /\ g.end \in 1 .. now
    <2>1. g.start \in M
        BY <1>5
    <2>2. PICK m \in M : g.end = m + 1
        BY <1>5
    <2>3. m \in 0 .. (now - 1) /\ g.start \in 0 .. (now - 1)
        BY <1>3, <2>1, <2>2
    <2> QED BY <1>1, <2>2, <2>3
<1>7. g = [start |-> g.start, end |-> g.end]
    BY <1>5
<1>8. g.start \in Candles /\ g.end \in Candles
    BY <1>1, <1>6 DEF Candles
<1>9. g \in [start : Candles, end : Candles]
    BY <1>7, <1>8
<1> QED BY <1>5, <1>6, <1>9, <1>1 DEF JobRanges

\* So are the jobs made of them.
LEMMA JobsForType ==
    ASSUME NEW kind \in {"engine", "repair"}, NEW R, R \subseteq JobRanges(now)
    PROVE  JobsFor(kind, R) \subseteq JobType(now)
BY DEF JobsFor, Runnable, JobType

\* A scan or the bootstrap asks for closed candles only.
LEMMA EngineRunsType ==
    ASSUME TypeOK, NEW start \in Int, NEW end \in Int,
           EngineRuns([start |-> start, end |-> end])
    PROVE  jobs' \subseteq JobType(now) /\ engine' \in {"idle", "busy"}
<1>1. jobs \subseteq JobType(now)
    BY DEF TypeOK, JobType, JobRanges
<1>2. Gaps([start |-> start, end |-> end]) \subseteq JobRanges(now)
    BY GapsAreClosed
<1>3. JobsFor("engine", Gaps([start |-> start, end |-> end])) \subseteq JobType(now)
    BY <1>2, JobsForType
<1> QED BY <1>1, <1>3 DEF EngineRuns

-----------------------------------------------------------------------------
\* Rows

RowsGrow == \A m \in Candles : klines'[m] >= klines[m]

\* Rows that do not change do not regress.
LEMMA RowsStay == ASSUME TypeOK, UNCHANGED klines PROVE RowsGrow
<1>1. \A m \in Candles : klines[m] \in Int
    BY DEF TypeOK, absent, partial, final
<1> QED BY <1>1 DEF RowsGrow

\* The guard of the upsert (setWhere) keeps the fuller version.
LEMMA UpsertGrows ==
    ASSUME TypeOK, NEW m \in Candles, NEW level \in {partial, final},
           klines' = Upserted(m, level)
    PROVE  RowsGrow /\ klines' \in [Candles -> {absent, partial, final}]
<1>1. klines \in [Candles -> {absent, partial, final}]
    BY DEF TypeOK
<1>2. klines' = [klines EXCEPT ![m] = IF level >= klines[m] THEN level ELSE klines[m]]
    BY DEF Upserted
<1> QED BY <1>1, <1>2 DEF RowsGrow, absent, partial, final

\* A job writes final rows.
LEMMA BackfillGrows ==
    ASSUME TypeOK, NEW range, NEW limit, klines' = Backfilled(range, limit)
    PROVE  RowsGrow /\ klines' \in [Candles -> {absent, partial, final}]
<1>1. klines \in [Candles -> {absent, partial, final}]
    BY DEF TypeOK
<1>2. \A m \in Candles : klines'[m] \in {final, klines[m]}
    BY DEF Backfilled
<1>3. klines' \in [Candles -> {absent, partial, final}]
    BY <1>1 DEF Backfilled
<1> QED BY <1>1, <1>2, <1>3 DEF RowsGrow, absent, partial, final

-----------------------------------------------------------------------------
\* The process

LEMMA PipelineInit == Init => TypeOK
<1> SUFFICES ASSUME Init PROVE TypeOK
    OBVIOUS
<1>1. now \in Candles /\ mishaps \in 0 .. Budget /\ jobs = {} /\ suffered = {}
    BY PipelineAssumption DEF Init, Candles
<1>2. klines \in [Candles -> {absent, partial, final}]
    BY PipelineAssumption DEF Init, absent, partial, final
<1>3. chain \in Seq([candle : Candles, level : {partial, final}])
    BY DEF Init
<1> QED BY <1>1, <1>2, <1>3 DEF Init, TypeOK

\* A mishap is counted and remembered.
LEMMA MishapType ==
    ASSUME TypeOK, NEW kinds, Mishap(kinds)
    PROVE  mishaps' \in 0 .. Budget /\ suffered' \subseteq Mishaps
BY PipelineAssumption DEF TypeOK, Mishap, Suffers

\* A job that ends leaves the others.
LEMMA JobEndsType ==
    ASSUME TypeOK, NEW j, JobEnds(j)
    PROVE  /\ jobs' \subseteq JobType(now)
           /\ engine' \in {"off", "plan", "idle", "busy"}
BY DEF TypeOK, JobEnds, JobType, JobRanges

\* Steps that are about the stream and the clock.
LEMMA StreamSteps ==
    ASSUME TypeOK,
           Tick \/ SnapshotArrives \/ FinalArrives \/ StreamCloses \/ StreamGoesSilent
    PROVE  TypeOK' /\ UNCHANGED klines
<1> USE DEF TypeOK
<1>1. CASE Tick
    <2>1. now' \in Candles /\ now' = now + 1
        BY <1>1, NowIsNat, PipelineAssumption DEF Tick, Candles
    <2>2. finalDue' \in Candles \union {None}
        BY <1>1 DEF Tick
    <2>3. jobs' \subseteq JobType(now')
        BY <1>1, <2>1, NowIsNat, PipelineAssumption DEF Tick, JobType, JobRanges, Candles
    <2> QED BY <1>1, <2>1, <2>2, <2>3 DEF Tick, JobType, JobRanges
<1>2. CASE SnapshotArrives
    <2>1. chain' \in ChainType
        BY <1>2 DEF SnapshotArrives, ChainType
    <2> QED BY <1>2, <2>1 DEF SnapshotArrives, ChainType
<1>3. CASE FinalArrives
    <2>1. chain' \in ChainType
        BY <1>3 DEF FinalArrives, ChainType
    <2> QED BY <1>3, <2>1 DEF FinalArrives, ChainType
<1>4. CASE StreamCloses
    <2>1. mishaps' \in 0 .. Budget /\ suffered' \subseteq Mishaps
        BY <1>4, MishapType DEF StreamCloses
    <2> QED BY <1>4, <2>1 DEF StreamCloses
<1>5. CASE StreamGoesSilent
    <2>1. mishaps' \in 0 .. Budget /\ suffered' \subseteq Mishaps
        BY <1>5, MishapType DEF StreamGoesSilent
    <2> QED BY <1>5, <2>1 DEF StreamGoesSilent
<1> QED BY <1>1, <1>2, <1>3, <1>4, <1>5

\* The stream opens again: the repair is of closed candles.
LEMMA StreamOpensStep == ASSUME TypeOK, StreamOpens PROVE TypeOK' /\ UNCHANGED klines
<1> DEFINE repair == IF disconnectedAt = None THEN {} ELSE RepairWindow(disconnectedAt, now)
<1>1. repair \subseteq JobRanges(now)
    BY NowIsNat, PipelineAssumption DEF TypeOK, RepairWindow, JobRanges, Candles, None
<1>2. jobs' = jobs \union JobsFor("repair", repair)
    BY DEF StreamOpens
<1>3. suffered' \subseteq Mishaps
    BY PipelineAssumption DEF StreamOpens, Suffers, TypeOK
<1> HIDE DEF repair
<1>4. jobs' \subseteq JobType(now)
    BY <1>1, <1>2, JobsForType DEF TypeOK, JobType, JobRanges
<1> QED BY <1>3, <1>4 DEF StreamOpens, TypeOK, JobType, JobRanges

\* The serial writes of klineChain.
LEMMA WriteSteps ==
    ASSUME TypeOK, WriteKline \/ WriteKlineFails
    PROVE  TypeOK' /\ RowsGrow
<1>1. chain \in Seq([candle : Candles, level : {partial, final}]) /\ chain # <<>>
    BY DEF TypeOK, WriteKline, WriteKlineFails
<1>2. /\ Head(chain) \in [candle : Candles, level : {partial, final}]
      /\ Tail(chain) \in Seq([candle : Candles, level : {partial, final}])
    <2> DEFINE Writes == [candle : Candles, level : {partial, final}]
    <2>1. chain \in Seq(Writes) /\ chain # <<>>
        BY <1>1
    <2> HIDE DEF Writes
    <2>2. Head(chain) \in Writes /\ Tail(chain) \in Seq(Writes)
        BY <2>1
    <2> QED BY <2>2 DEF Writes
<1>3. Head(chain).candle \in Candles /\ Head(chain).level \in {partial, final}
    BY <1>2
<1>4. CASE WriteKline
    <2>1. klines' = Upserted(Head(chain).candle, Head(chain).level)
        BY <1>4 DEF WriteKline
    <2>2. RowsGrow /\ klines' \in [Candles -> {absent, partial, final}]
        BY <1>3, <2>1, UpsertGrows
    <2> QED BY <1>2, <1>4, <2>2 DEF WriteKline, TypeOK
<1>5. CASE WriteKlineFails
    <2>1. mishaps' \in 0 .. Budget /\ suffered' \subseteq Mishaps
        BY <1>5, MishapType DEF WriteKlineFails
    <2> QED BY <1>2, <1>5, <2>1, RowsStay DEF WriteKlineFails, TypeOK
<1> QED BY <1>4, <1>5

\* The engine begins to work.
LEMMA EngineSteps == ASSUME TypeOK, Bootstrap \/ Scan PROVE TypeOK' /\ UNCHANGED klines
<1>1. PICK start \in Int, end \in Int : EngineRuns([start |-> start, end |-> end])
    <2>1. now \in Int /\ Depth \in Int /\ Grace \in Int /\ Lookback \in Int
        BY NowIsNat, PipelineAssumption
    <2>2. CASE Bootstrap
        <3>1. PICK latest \in Candles \union {NoOpenTime}, earliest \in Candles \union {NoOpenTime} :
                  EngineRuns(resolveStartupPlan(latest, earliest, now, Depth))
            BY <2>2 DEF Bootstrap
        <3>2. latest \in Int /\ earliest \in Int
            BY DEF Candles, NoOpenTime
        <3>3. \E start \in Int, end \in Int :
                  resolveStartupPlan(latest, earliest, now, Depth)
                      = [start |-> start, end |-> end]
            BY <2>1, <3>2 DEF resolveStartupPlan
        <3> QED BY <3>1, <3>3
    <2>3. CASE Scan
        <3>1. EngineRuns(ScanWindow)
            BY <2>3 DEF Scan
        <3>2. \E start \in Int, end \in Int : ScanWindow = [start |-> start, end |-> end]
            BY <2>1 DEF ScanWindow
        <3> QED BY <3>1, <3>2
    <2> QED BY <2>2, <2>3
<1>2. jobs' \subseteq JobType(now) /\ engine' \in {"idle", "busy"}
    BY <1>1, EngineRunsType
<1>3. UNCHANGED <<now, stream, finalDue, disconnectedAt, chain, klines, mishaps, suffered>>
    BY DEF Bootstrap, Scan
<1> QED BY <1>2, <1>3 DEF TypeOK, JobType, JobRanges

\* Jobs end.
LEMMA JobSteps == ASSUME TypeOK, EndsSomeJob PROVE TypeOK' /\ RowsGrow
<1>1. PICK j \in jobs : JobSucceeds(j) \/ JobFails(j)
    BY DEF EndsSomeJob
<1>2. jobs' \subseteq JobType(now) /\ engine' \in {"off", "plan", "idle", "busy"}
    BY <1>1, JobEndsType DEF JobSucceeds, JobFails
<1>3. PICK limit : klines' = Backfilled(j.range, limit)
    BY <1>1 DEF JobSucceeds, JobFails
<1>4. RowsGrow /\ klines' \in [Candles -> {absent, partial, final}]
    BY <1>3, BackfillGrows
<1>5. mishaps' \in 0 .. Budget /\ suffered' \subseteq Mishaps
    BY <1>1, MishapType DEF JobSucceeds, JobFails, TypeOK
<1>6. UNCHANGED <<now, stream, finalDue, disconnectedAt, chain>>
    BY <1>1 DEF JobSucceeds, JobFails
<1> QED BY <1>2, <1>4, <1>5, <1>6 DEF TypeOK, JobType, JobRanges

\* Crash and restart leave the table alone.
LEMMA ProcessSteps == ASSUME TypeOK, Crash \/ Restart PROVE TypeOK' /\ UNCHANGED klines
<1>1. CASE Crash
    <2>1. mishaps' \in 0 .. Budget /\ suffered' \subseteq Mishaps
        BY <1>1, MishapType DEF Crash
    <2>2. chain' \in ChainType
        BY <1>1 DEF Crash, ChainType
    <2> QED BY <1>1, <2>1, <2>2 DEF Crash, TypeOK, ChainType
<1>2. CASE Restart
    BY <1>2 DEF Restart, TypeOK
<1> QED BY <1>1, <1>2

LEMMA PipelineStep == TypeOK /\ [Next]_vars => TypeOK' /\ RowsGrow
<1> SUFFICES ASSUME TypeOK, [Next]_vars PROVE TypeOK' /\ RowsGrow
    OBVIOUS
<1>1. CASE Tick \/ SnapshotArrives \/ FinalArrives \/ StreamCloses \/ StreamGoesSilent
    BY <1>1, StreamSteps, RowsStay
<1>2. CASE StreamOpens
    BY <1>2, StreamOpensStep, RowsStay
<1>3. CASE WriteKline \/ WriteKlineFails
    BY <1>3, WriteSteps
<1>4. CASE Bootstrap \/ Scan
    BY <1>4, EngineSteps, RowsStay
<1>5. CASE EndsSomeJob
    BY <1>5, JobSteps
<1>6. CASE Crash \/ Restart
    BY <1>6, ProcessSteps, RowsStay
<1>7. CASE UNCHANGED vars
    <2>1. TypeOK'
        BY <1>7 DEF vars, TypeOK
    <2> QED BY <1>7, <2>1, RowsStay DEF vars
<1> QED BY <1>1, <1>2, <1>3, <1>4, <1>5, <1>6, <1>7 DEF Next

\* Types of the pipeline; in particular no job is asked for a candle that has not closed.
THEOREM PipelineTypeCorrect == Spec => []TypeOK
<1>1. TypeOK /\ [Next]_vars => TypeOK'
    BY PipelineStep
<1> QED BY <1>1, PipelineInit, PTL DEF Spec

\* No write makes a row less complete, in whatever order the stream, the repair, the
\* scan and restarts write it (the setWhere of upsertMany).
THEOREM RowsOnlyGrowHolds == Spec => RowsOnlyGrow
<1>1. TypeOK /\ [Next]_vars =>
          [TypeOK' /\ \A m \in Candles : klines'[m] >= klines[m]]_vars
    BY PipelineStep DEF RowsGrow
<1> QED BY <1>1, PipelineTypeCorrect, PTL DEF Spec, RowsOnlyGrow

-----------------------------------------------------------------------------
\* Trades: the inductive invariant

FlushRec == [pc : {"idle", "insert", "mark", "writeMark"}, rows : Seq(Trades),
             rest : Seq(Trades), snapshot : 0 .. MaxTrades]

\* What the variables range over; ShutdownInv bounds the two counters.
Types ==
    /\ received \in 0 .. MaxTrades
    /\ buffer \in Seq(Trades)
    /\ queued \in Nat
    /\ flush \in FlushRec
    /\ table \subseteq Trades
    /\ droppedTrades \in Nat
    /\ dirty \in 0 .. MaxTrades /\ dbMark \in 0 .. MaxTrades
    /\ phase \in {"up", "stopping", "flush1", "flush2", "down"}
    /\ failures \in 0 .. MaxFailures
    /\ lastTries \in Nat

\* The run of trades that ends with `last`, without a gap.
IsRun(s, last) == \A i \in 1 .. Len(s) : s[i] = last - Len(s) + i

\* The trades after Base are held, in the order they arrived: the flush under
\* way has those up to Newest, the buffer the rest.
Newest == received - Len(buffer)
Base == Newest - Len(flush.rows)

\* What a flush under way has not inserted yet is the end of its rows.
RowsInv ==
    /\ Base >= 0
    /\ IsRun(buffer, received)
    /\ IsRun(flush.rows, Newest)
    /\ IsRun(flush.rest, Newest)
    /\ Len(flush.rest) <= Len(flush.rows)
    /\ (Base + 1) .. (Newest - Len(flush.rest)) \subseteq table
    /\ flush.pc # "insert" => Len(flush.rows) = 0
    /\ Cardinality((1 .. Base) \ table) <= droppedTrades

\* The dirty mark is that of the last trade, and stays dirty while it is written.
MarkInv ==
    /\ dirty \in {0, received}
    /\ dirty = 0 => dbMark = received
    /\ flush.pc = "writeMark" => dirty # 0 /\ flush.snapshot \in 1 .. received

\* How the two flushes of a shutdown and what they left in the buffer go together.
ShutdownInv ==
    /\ phase \in {"up", "stopping"} => queued <= MaxQueued /\ lastTries = 0
    /\ phase = "flush1" =>
          /\ queued <= MaxQueued + 1
          /\ queued > 0 => lastTries = 0
          /\ queued = 0 =>
                IF flush.pc = "insert" THEN lastTries = 0 /\ buffer = <<>>
                                       ELSE lastTries \in {0, 1} /\ (buffer # <<>> => lastTries = 1)
    /\ phase = "flush2" =>
          /\ queued > 0 => queued = 1 /\ lastTries = 1 /\ flush.pc = "idle"
          /\ queued = 0 =>
                IF flush.pc = "insert" THEN lastTries = 1 /\ buffer = <<>>
                                       ELSE lastTries \in {1, 2} /\ (buffer # <<>> => lastTries = 2)
    /\ phase = "down" =>
          queued = 0 /\ flush.pc = "idle" /\ lastTries \in 0 .. 2 /\ (buffer # <<>> => lastTries = 2)

IngestInv == Types /\ RowsInv /\ MarkInv /\ ShutdownInv

LEMMA IngestInit == TradeInit => IngestInv
<1> SUFFICES ASSUME TradeInit PROVE IngestInv
    OBVIOUS
<1>0. MaxTrades \in Nat /\ MaxFailures \in Nat /\ MaxQueued \in Nat
    BY IngestAssumption
<1>1. <<>> \in Seq(Trades) /\ Len(<<>>) = 0
    OBVIOUS
<1>2. Types
    BY <1>0, <1>1 DEF TradeInit, Types, NoFlush, FlushRec
<1>3. RowsInv
    <2>1. Newest = 0 /\ Base = 0
        <3>1. received = 0
            BY DEF TradeInit
        <3>2. Len(buffer) = 0 /\ Len(flush.rows) = 0
            <4>1. buffer = <<>> /\ flush.rows = <<>>
                BY DEF TradeInit, NoFlush
            <4> QED BY <4>1
        <3>3. Newest = 0
            BY <3>1, <3>2 DEF Newest
        <3> QED BY <3>2, <3>3 DEF Base
    <2>2. Cardinality((1 .. Base) \ table) = 0
        <3>1. (1 .. Base) \ table = {}
            BY <2>1
        <3> QED BY <3>1, FS_EmptySet
    <2> QED BY <1>1, <2>1, <2>2 DEF TradeInit, NoFlush, RowsInv, IsRun
<1>4. MarkInv /\ ShutdownInv
    BY <1>0 DEF TradeInit, NoFlush, MarkInv, ShutdownInv
<1> QED BY <1>2, <1>3, <1>4 DEF IngestInv

-----------------------------------------------------------------------------
\* Runs of trades

\* The front and the rest of a run.
LEMMA RunSplit ==
    ASSUME NEW s \in Seq(Trades), NEW last \in Int, IsRun(s, last), NEW k \in 0 .. Len(s)
    PROVE  /\ SubSeq(s, 1, k) \in Seq(Trades) /\ Len(SubSeq(s, 1, k)) = k
           /\ ToSet(SubSeq(s, 1, k)) = (last - Len(s) + 1) .. (last - Len(s) + k)
           /\ SubSeq(s, k + 1, Len(s)) \in Seq(Trades)
           /\ Len(SubSeq(s, k + 1, Len(s))) = Len(s) - k
           /\ IsRun(SubSeq(s, k + 1, Len(s)), last)
<1> DEFINE front == SubSeq(s, 1, k)  rest == SubSeq(s, k + 1, Len(s))
<1>0. Len(s) \in Nat /\ \A i \in 1 .. Len(s) : s[i] \in Trades
    BY ElementOfSeq, LenProperties
<1>1. front \in Seq(Trades) /\ Len(front) = k /\ \A i \in 1 .. k : front[i] = s[i]
    <2>1. \A i \in 1 .. k : s[i] \in Trades
        BY <1>0
    <2> QED BY <1>0, <2>1, SubSeqProperties
<1>2. /\ rest \in Seq(Trades) /\ Len(rest) = Len(s) - k
      /\ \A i \in 1 .. Len(s) - k : rest[i] = s[k + i]
    <2>1. \A i \in (k + 1) .. Len(s) : s[i] \in Trades
        BY <1>0
    <2>2. /\ rest \in Seq(Trades)
          /\ Len(rest) = IF k + 1 <= Len(s) THEN Len(s) - (k + 1) + 1 ELSE 0
          /\ \A i \in 1 .. Len(s) - (k + 1) + 1 : rest[i] = s[(k + 1) + i - 1]
        BY <1>0, <2>1, SubSeqProperties
    <2>3. \A i \in 1 .. Len(s) - k : i \in 1 .. Len(s) - (k + 1) + 1 /\ (k + 1) + i - 1 = k + i
        BY <1>0
    <2> QED BY <1>0, <2>2, <2>3
<1> HIDE DEF front, rest
<1>3. ToSet(front) = (last - Len(s) + 1) .. (last - Len(s) + k)
    <2>1. DOMAIN front = 1 .. k
        BY <1>1, LenProperties
    <2>2. \A i \in 1 .. k : front[i] = last - Len(s) + i
        BY <1>0, <1>1 DEF IsRun
    <2>3. ToSet(front) = {last - Len(s) + i : i \in 1 .. k}
        BY <2>1, <2>2 DEF ToSet
    <2> DEFINE before == last - Len(s)
    <2>4. before \in Int
        BY <1>0
    <2>5. ToSet(front) = {before + i : i \in 1 .. k}
        BY <2>3
    <2> HIDE DEF before
    <2>6. \A t \in (before + 1) .. (before + k) : t - before \in 1 .. k /\ t = before + (t - before)
        BY <2>4
    <2>7. {before + i : i \in 1 .. k} = (before + 1) .. (before + k)
        BY <2>4, <2>6
    <2> QED BY <2>5, <2>7 DEF before
<1>4. IsRun(rest, last)
    <2> SUFFICES ASSUME NEW i \in 1 .. Len(s) - k PROVE rest[i] = last - (Len(s) - k) + i
        BY <1>2 DEF IsRun
    <2>1. k + i \in 1 .. Len(s)
        BY <1>0
    <2> QED BY <1>0, <1>2, <2>1 DEF IsRun
<1> QED BY <1>1, <1>2, <1>3, <1>4 DEF front, rest

\* One run after the other.
LEMMA RunConcat ==
    ASSUME NEW s \in Seq(Trades), NEW t \in Seq(Trades), NEW last \in Int,
           IsRun(s, last - Len(t)), IsRun(t, last)
    PROVE  s \o t \in Seq(Trades) /\ Len(s \o t) = Len(s) + Len(t) /\ IsRun(s \o t, last)
<1>1. /\ s \o t \in Seq(Trades) /\ Len(s \o t) = Len(s) + Len(t)
      /\ \A i \in 1 .. Len(s) + Len(t) :
            (s \o t)[i] = IF i <= Len(s) THEN s[i] ELSE t[i - Len(s)]
    BY ConcatProperties
<1>2. Len(s) \in Nat /\ Len(t) \in Nat
    BY LenProperties
<1>3. ASSUME NEW i \in 1 .. Len(s) + Len(t)
      PROVE  (s \o t)[i] = last - (Len(s) + Len(t)) + i
    <2>1. CASE i <= Len(s)
        <3>1. i \in 1 .. Len(s)
            BY <1>2, <2>1
        <3> QED BY <1>1, <1>2, <2>1, <3>1 DEF IsRun
    <2>2. CASE ~(i <= Len(s))
        <3>1. i - Len(s) \in 1 .. Len(t)
            BY <1>2, <2>2
        <3>2. (s \o t)[i] = t[i - Len(s)]
            BY <1>1, <2>2
        <3>3. t[i - Len(s)] = last - Len(t) + (i - Len(s))
            BY <3>1 DEF IsRun
        <3> QED BY <1>2, <3>2, <3>3
    <2> QED BY <2>1, <2>2
<1> QED BY <1>1, <1>3 DEF IsRun

\* The sequences of the model have lengths.
LEMMA Lengths ==
    ASSUME Types
    PROVE  /\ Len(buffer) \in Nat /\ Len(flush.rows) \in Nat /\ Len(flush.rest) \in Nat
           /\ received \in Nat /\ Newest \in Int /\ Base \in Int
           /\ flush.rows \in Seq(Trades) /\ flush.rest \in Seq(Trades) /\ buffer \in Seq(Trades)
<1>1. flush.rows \in Seq(Trades) /\ flush.rest \in Seq(Trades) /\ buffer \in Seq(Trades)
    BY DEF Types, FlushRec
<1>2. Len(buffer) \in Nat /\ Len(flush.rows) \in Nat /\ Len(flush.rest) \in Nat
    BY <1>1, LenProperties
<1>3. received \in Nat
    BY IngestAssumption DEF Types
<1> QED BY <1>1, <1>2, <1>3 DEF Newest, Base

\* What is held, seen as one run.
LEMMA HeldIsRun ==
    ASSUME Types, RowsInv
    PROVE  /\ Held \in Seq(Trades) /\ Len(Held) = received - Base /\ IsRun(Held, received)
           /\ ToSet(Held) = (Base + 1) .. received
<1>1. Held \in Seq(Trades) /\ Len(Held) = Len(flush.rows) + Len(buffer) /\ IsRun(Held, received)
    BY Lengths, RunConcat DEF Held, RowsInv, Newest
<1>2. Len(Held) = received - Base
    BY <1>1, Lengths DEF Base, Newest
<1>3. ToSet(Held) = (Base + 1) .. received
    <2>1. SubSeq(Held, 1, Len(Held)) = Held
        BY <1>1, SubSeqFull
    <2>2. Len(Held) \in 0 .. Len(Held)
        BY <1>1, Lengths
    <2>3. ToSet(Held) = (received - Len(Held) + 1) .. (received - Len(Held) + Len(Held))
        <3>1. received \in Int
            BY Lengths
        <3>2. ToSet(SubSeq(Held, 1, Len(Held)))
                  = (received - Len(Held) + 1) .. (received - Len(Held) + Len(Held))
            BY <1>1, <2>2, <3>1, RunSplit
        <3> QED BY <2>1, <3>2
    <2> QED BY <1>2, <2>3, Lengths
<1> QED BY <1>1, <1>2, <1>3

-----------------------------------------------------------------------------
\* What the invariant says to a reader of the model

LEMMA LostIsOld == ASSUME Types, RowsInv PROVE Lost = (1 .. Base) \ table
BY HeldIsRun, Lengths DEF Lost, RowsInv

LEMMA IngestInvMeans == IngestInv => TradesAreKept
<1> SUFFICES ASSUME Types, RowsInv, MarkInv, ShutdownInv PROVE TradesAreKept
    BY DEF IngestInv
<1>1. TradeTypeOK
    <2>1. queued \in 0 .. (MaxQueued + 1) /\ lastTries \in 0 .. 2
        BY IngestAssumption DEF Types, ShutdownInv
    <2> QED BY <2>1 DEF TradeTypeOK, Types, FlushRec
<1>2. LossReported
    BY LostIsOld DEF LossReported, RowsInv
<1>3. OldestFirst
    <2>1. ASSUME NEW i \in DOMAIN Held, NEW j \in DOMAIN Held, i < j PROVE Held[i] < Held[j]
        <3>1. /\ Len(Held) \in Nat /\ i \in 1 .. Len(Held) /\ j \in 1 .. Len(Held)
              /\ IsRun(Held, received) /\ received \in Nat
            BY HeldIsRun, Lengths, LenProperties
        <3>2. Held[i] = received - Len(Held) + i /\ Held[j] = received - Len(Held) + j
            BY <3>1 DEF IsRun
        <3> QED BY <2>1, <3>1, <3>2
    <2>2. ASSUME NEW lost \in Lost, NEW t \in ToSet(Held) PROVE lost < t
        BY HeldIsRun, LostIsOld, Lengths
    <2> QED BY <2>1, <2>2 DEF OldestFirst
<1>4. CleanMeansCurrent
    BY DEF CleanMeansCurrent, MarkInv
<1>5. ShutdownKeepsTrades
    BY DEF ShutdownKeepsTrades, ShutdownInv
<1> QED BY <1>1, <1>2, <1>3, <1>4, <1>5 DEF TradesAreKept

-----------------------------------------------------------------------------
\* The chunk that is inserted and the rows that are restored

LEMMA ChunkFacts ==
    ASSUME Types, RowsInv
    PROVE  /\ Chunk(flush.rest) \in Seq(Trades) /\ AfterChunk(flush.rest) \in Seq(Trades)
           /\ ToSet(Chunk(flush.rest)) \subseteq Trades
           /\ Len(AfterChunk(flush.rest)) <= Len(flush.rest)
           /\ ToSet(Chunk(flush.rest))
                  = (Newest - Len(flush.rest) + 1) .. (Newest - Len(AfterChunk(flush.rest)))
           /\ IsRun(AfterChunk(flush.rest), Newest)
<1> DEFINE s == flush.rest
           k == IF Len(s) < ChunkSize THEN Len(s) ELSE ChunkSize
<1>1. s \in Seq(Trades) /\ Len(s) \in Nat /\ Newest \in Int /\ IsRun(s, Newest)
    BY Lengths DEF RowsInv
<1>2. k \in 0 .. Len(s)
    BY <1>1, IngestAssumption
<1>3. Chunk(s) = SubSeq(s, 1, k)
    BY DEF Chunk
<1> HIDE DEF k, s
<1>4. /\ Chunk(s) \in Seq(Trades) /\ Len(Chunk(s)) = k
      /\ ToSet(Chunk(s)) = (Newest - Len(s) + 1) .. (Newest - Len(s) + k)
    BY <1>1, <1>2, <1>3, RunSplit
<1>5. AfterChunk(s) = SubSeq(s, k + 1, Len(s))
    BY <1>4 DEF AfterChunk
<1>6. AfterChunk(s) \in Seq(Trades) /\ Len(AfterChunk(s)) = Len(s) - k /\ IsRun(AfterChunk(s), Newest)
    BY <1>1, <1>2, <1>5, RunSplit
<1>7. ToSet(Chunk(s)) \subseteq Trades
    <2>1. \A i \in DOMAIN Chunk(s) : Chunk(s)[i] \in Trades
        BY <1>4, LenProperties, ElementOfSeq
    <2> QED BY <2>1 DEF ToSet
<1>8. Newest - Len(AfterChunk(s)) = Newest - Len(s) + k /\ Len(AfterChunk(s)) <= Len(s)
    BY <1>1, <1>2, <1>6
<1> QED BY <1>4, <1>6, <1>7, <1>8 DEF s

LEMMA RestoredFacts ==
    ASSUME Types, RowsInv
    PROVE  /\ DroppedBy(flush.rows) \in Nat
           /\ Restored(flush.rows) \in Seq(Trades)
           /\ Len(Restored(flush.rows)) = received - (Base + DroppedBy(flush.rows))
           /\ Base + DroppedBy(flush.rows) <= received
           /\ IsRun(Restored(flush.rows), received)
<1> DEFINE d == DroppedBy(flush.rows)
<1>1. /\ Held \in Seq(Trades) /\ Len(Held) = received - Base /\ IsRun(Held, received)
      /\ received \in Int /\ Base \in Int
    BY HeldIsRun, Lengths
<1>2. Len(Held) = Len(flush.rows) + Len(buffer)
    BY <1>1, Lengths DEF Base, Newest
<1>3. d \in Nat /\ d \in 0 .. Len(Held)
    BY <1>2, Lengths, IngestAssumption DEF DroppedBy
<1>4. Restored(flush.rows) = SubSeq(Held, d + 1, Len(Held))
    <2>1. Restored(flush.rows) = SubSeq(Held, 1 + d, Len(Held))
        BY DEF Restored, Held
    <2>2. 1 + d = d + 1
        BY <1>3
    <2> QED BY <2>1, <2>2
<1> HIDE DEF d
<1>5. Restored(flush.rows) \in Seq(Trades) /\ Len(Restored(flush.rows)) = Len(Held) - d
      /\ IsRun(Restored(flush.rows), received)
    <2>1. /\ SubSeq(Held, d + 1, Len(Held)) \in Seq(Trades)
          /\ Len(SubSeq(Held, d + 1, Len(Held))) = Len(Held) - d
          /\ IsRun(SubSeq(Held, d + 1, Len(Held)), received)
        BY <1>1, <1>3, RunSplit
    <2> QED BY <1>4, <2>1
<1> QED BY <1>1, <1>3, <1>5 DEF d

-----------------------------------------------------------------------------
\* Types

\* A flush record that starts from NoFlush.
LEMMA FreshFlush ==
    ASSUME NEW pc \in {"idle", "insert", "mark", "writeMark"}, NEW rows \in Seq(Trades)
    PROVE  /\ NoFlush \in FlushRec
           /\ [NoFlush EXCEPT !.pc = pc] \in FlushRec
           /\ [NoFlush EXCEPT !.pc = pc, !.rows = rows, !.rest = rows] \in FlushRec
<1>1. NoFlush \in FlushRec
    <2>1. 0 \in 0 .. MaxTrades /\ <<>> \in Seq(Trades)
        BY IngestAssumption
    <2> QED BY <2>1 DEF NoFlush, FlushRec
<1> QED BY <1>1 DEF FlushRec

LEMMA TypesStep == ASSUME Types, RowsInv, MarkInv, [TradeNext]_tradeVars PROVE Types'
<1>0. /\ MaxTrades \in Nat /\ MaxFailures \in Nat /\ <<>> \in Seq(Trades)
      /\ flush \in FlushRec /\ received \in Nat
    BY IngestAssumption, Lengths DEF Types
<1>1. CASE HandleTrade
    <2>1. received + 1 \in Trades
        BY <1>0, <1>1 DEF HandleTrade, Trades, Types
    <2>2. Append(buffer, received + 1) \in Seq(Trades)
        BY <2>1 DEF Types
    <2> QED BY <1>0, <1>1, <2>1, <2>2 DEF HandleTrade, add, markTrade, Types, Trades
<1>2. CASE FlushTimerFires
    BY <1>2 DEF FlushTimerFires, Types
<1>3. CASE StartFlush
    <2>1. flush' \in FlushRec
        <3>1. buffer \in Seq(Trades)
            BY DEF Types
        <3>2. PICK pc \in {"mark", "insert"} :
                  flush' = [NoFlush EXCEPT !.pc = pc, !.rows = buffer, !.rest = buffer]
            BY <1>3 DEF StartFlush
        <3> QED BY <3>1, <3>2, FreshFlush
    <2>2. queued' \in Nat
        BY <1>3 DEF StartFlush, Types
    <2> QED BY <1>0, <1>3, <2>1, <2>2 DEF StartFlush, Types
<1>4. CASE InsertChunk
    <2>1. AfterChunk(flush.rest) \in Seq(Trades) /\ ToSet(Chunk(flush.rest)) \subseteq Trades
        BY ChunkFacts
    <2> QED BY <1>0, <1>4, <2>1 DEF InsertChunk, Types, FlushRec
<1>5. CASE InsertFails
    <2>1. Restored(flush.rows) \in Seq(Trades) /\ DroppedBy(flush.rows) \in Nat
        BY RestoredFacts
    <2>2. ToSet(Chunk(flush.rest)) \subseteq Trades
        BY ChunkFacts
    <2>3. flush' \in FlushRec
        BY <1>0, <1>5, FreshFlush DEF InsertFails
    <2>4. table' \subseteq Trades /\ buffer' \in Seq(Trades) /\ failures' \in 0 .. MaxFailures
        BY <1>0, <1>5, <2>1, <2>2 DEF InsertFails, Types
    <2>5. lastTries' \in Nat /\ droppedTrades' \in Nat
        BY <1>5, <2>1 DEF InsertFails, Types
    <2> QED BY <1>5, <2>3, <2>4, <2>5 DEF InsertFails, Types
<1>6. CASE ReadMark
    BY <1>0, <1>6 DEF ReadMark, Types, FlushRec, NoFlush
<1>7. CASE WriteMark
    BY <1>0, <1>7 DEF WriteMark, Cleaned, Types, FlushRec, NoFlush
<1>8. CASE WriteMarkFails
    BY <1>0, <1>8 DEF WriteMarkFails, Types, FlushRec, NoFlush
<1>9. CASE BeginShutdown \/ StreamClosed \/ ShutdownFlushed
    BY <1>9 DEF BeginShutdown, StreamClosed, ShutdownFlushed, Types
<1>10. CASE UNCHANGED tradeVars
    BY <1>10 DEF tradeVars, Types
<1> QED BY <1>1, <1>2, <1>3, <1>4, <1>5, <1>6, <1>7, <1>8, <1>9, <1>10 DEF TradeNext, FlushSteps

-----------------------------------------------------------------------------
\* The watermark

LEMMA MarkStep == ASSUME Types, MarkInv, [TradeNext]_tradeVars PROVE MarkInv'
<1>0. received \in Nat /\ dirty \in Nat /\ flush \in FlushRec
    BY Lengths DEF Types
<1>1. CASE HandleTrade
    <2>1. received' = received + 1 /\ dirty' = received' /\ UNCHANGED <<flush, dbMark>>
        BY <1>0, <1>1 DEF HandleTrade, markTrade, MarkInv
    <2> QED BY <1>0, <2>1 DEF MarkInv
<1>2. CASE StartFlush
    <2>1. UNCHANGED <<received, dirty, dbMark>> /\ flush'.pc \in {"mark", "insert"}
        BY <1>2 DEF StartFlush, NoFlush
    <2> QED BY <2>1 DEF MarkInv
<1>3. CASE InsertChunk
    <2>1. UNCHANGED <<received, dirty, dbMark>> /\ flush'.pc \in {"mark", "insert"}
        BY <1>0, <1>3 DEF InsertChunk, FlushRec
    <2> QED BY <2>1 DEF MarkInv
<1>4. CASE InsertFails
    <2>1. UNCHANGED <<received, dirty, dbMark>> /\ flush'.pc = "mark"
        BY <1>4 DEF InsertFails, NoFlush
    <2> QED BY <2>1 DEF MarkInv
<1>5. CASE ReadMark
    <2>1. UNCHANGED <<received, dirty, dbMark>>
        BY <1>5 DEF ReadMark
    <2>2. flush'.pc = "writeMark" => dirty # 0 /\ flush'.snapshot = dirty
        BY <1>0, <1>5 DEF ReadMark, NoFlush, FlushRec
    <2> QED BY <1>0, <2>1, <2>2 DEF MarkInv
<1>6. CASE WriteMark \/ WriteMarkFails
    BY <1>0, <1>6 DEF WriteMark, WriteMarkFails, Cleaned, NoFlush, MarkInv
<1>7. CASE UNCHANGED <<received, flush, dirty, dbMark>>
    BY <1>7 DEF MarkInv
<1> QED BY <1>1, <1>2, <1>3, <1>4, <1>5, <1>6, <1>7
        DEF TradeNext, FlushSteps, FlushTimerFires, BeginShutdown, StreamClosed, ShutdownFlushed, tradeVars

-----------------------------------------------------------------------------
\* The shutdown

LEMMA ShutdownStep == ASSUME Types, Types', ShutdownInv, [TradeNext]_tradeVars PROVE ShutdownInv'
<1>0. /\ queued \in Nat /\ MaxQueued \in Nat /\ lastTries \in Nat /\ flush \in FlushRec
      /\ phase \in {"up", "stopping", "flush1", "flush2", "down"}
    BY IngestAssumption DEF Types
<1>1. CASE HandleTrade \/ FlushTimerFires
    BY <1>0, <1>1 DEF HandleTrade, FlushTimerFires, ShutdownInv
<1>2. CASE StartFlush
    <2>1. /\ queued > 0 /\ queued' = queued - 1 /\ buffer' = <<>> /\ UNCHANGED <<phase, lastTries>>
          /\ flush'.pc \in {"mark", "insert"} /\ flush.pc = "idle"
        BY <1>2 DEF StartFlush, NoFlush, flushInFlight
    <2> QED BY <1>0, <2>1 DEF ShutdownInv
<1>3. CASE InsertChunk
    <2>1. /\ flush.pc = "insert" /\ UNCHANGED <<phase, lastTries, queued, buffer>>
          /\ flush'.pc \in {"mark", "insert"}
        BY <1>0, <1>3 DEF InsertChunk, FlushRec
    <2> QED BY <1>0, <2>1 DEF ShutdownInv
<1>4. CASE InsertFails
    <2>1. /\ flush.pc = "insert" /\ UNCHANGED <<phase, queued>> /\ flush'.pc = "mark"
          /\ lastTries' = lastTries + (IF IsShutdownFlush THEN 1 ELSE 0)
        BY <1>4 DEF InsertFails, NoFlush
    <2>2. CASE IsShutdownFlush
        BY <1>0, <2>1, <2>2 DEF ShutdownInv, IsShutdownFlush
    <2>3. CASE ~IsShutdownFlush
        BY <1>0, <2>1, <2>3 DEF ShutdownInv, IsShutdownFlush
    <2> QED BY <2>2, <2>3
<1>5. CASE ReadMark \/ WriteMark \/ WriteMarkFails
    <2>1. /\ flush.pc \in {"mark", "writeMark"} /\ UNCHANGED <<phase, lastTries, queued, buffer>>
          /\ flush'.pc # "insert"
        <3>1. CASE ReadMark
            BY <1>0, <3>1 DEF ReadMark, NoFlush, FlushRec
        <3>2. CASE WriteMark \/ WriteMarkFails
            BY <3>2 DEF WriteMark, WriteMarkFails, NoFlush
        <3> QED BY <1>5, <3>1, <3>2
    <2> QED BY <1>0, <2>1 DEF ShutdownInv
<1>6. CASE BeginShutdown \/ StreamClosed
    BY <1>0, <1>6 DEF BeginShutdown, StreamClosed, ShutdownInv
<1>7. CASE ShutdownFlushed
    <2>1. queued = 0 /\ flush.pc = "idle" /\ UNCHANGED <<flush, buffer, lastTries>>
        BY <1>7 DEF ShutdownFlushed, flushInFlight
    <2>2. CASE phase = "flush1" /\ buffer # <<>>
        BY <1>0, <1>7, <2>1, <2>2 DEF ShutdownFlushed, ShutdownInv
    <2>3. CASE ~(phase = "flush1" /\ buffer # <<>>)
        BY <1>0, <1>7, <2>1, <2>3 DEF ShutdownFlushed, ShutdownInv
    <2> QED BY <2>2, <2>3
<1>8. CASE UNCHANGED tradeVars
    BY <1>8 DEF tradeVars, ShutdownInv
<1> QED BY <1>1, <1>2, <1>3, <1>4, <1>5, <1>6, <1>7, <1>8 DEF TradeNext, FlushSteps

-----------------------------------------------------------------------------
\* The rows

\* Giving up the next d trades, and storing some, adds at most d to what is lost.
LEMMA LostGrows ==
    ASSUME NEW b \in Nat, NEW d \in Nat, NEW S, NEW T, S \subseteq T
    PROVE  /\ Cardinality((1 .. b) \ S) \in Nat
           /\ Cardinality((1 .. (b + d)) \ T) <= Cardinality((1 .. b) \ S) + d
<1> DEFINE L == (1 .. b) \ S
           D == (b + 1) .. (b + d)
           M == (1 .. (b + d)) \ T
<1>1. IsFiniteSet(1 .. b) /\ IsFiniteSet(D) /\ Cardinality(D) = d
    <2>1. Cardinality(D) = IF b + 1 > b + d THEN 0 ELSE (b + d) - (b + 1) + 1
        BY FS_Interval
    <2> QED BY <2>1, FS_Interval
<1>2. IsFiniteSet(L)
    BY <1>1, FS_Subset
<1>3. M \subseteq L \union D
    OBVIOUS
<1> HIDE DEF L, D, M
<1>4. /\ IsFiniteSet(L \union D)
      /\ Cardinality(L \union D) = Cardinality(L) + Cardinality(D) - Cardinality(L \cap D)
    BY <1>1, <1>2, FS_Union
<1>5. Cardinality(L) \in Nat /\ Cardinality(L \cap D) \in Nat
    <2>1. IsFiniteSet(L \cap D)
        BY <1>2, FS_Subset
    <2> QED BY <1>2, <2>1, FS_CardinalityType
<1>6. IsFiniteSet(M) /\ Cardinality(M) <= Cardinality(L \union D)
    BY <1>3, <1>4, FS_Subset
<1>7. Cardinality(M) \in Nat
    BY <1>6, FS_CardinalityType
<1>8. Cardinality(M) <= Cardinality(L) + d
    BY <1>1, <1>4, <1>5, <1>6, <1>7
<1> QED BY <1>5, <1>8 DEF L, M

\* A step that leaves the rows where they are.
LEMMA RunStays ==
    ASSUME RowsInv, UNCHANGED <<received, buffer, table, droppedTrades>>,
           flush'.rows = flush.rows, flush'.rest = flush.rest,
           flush'.pc # "insert" => flush.pc # "insert"
    PROVE  RowsInv'
BY DEF RowsInv, Base, Newest, IsRun

\* Nothing in flight: an empty run of any end.
LEMMA EmptyRun == Len(<<>>) = 0 /\ \A last : IsRun(<<>>, last)
<1>1. Len(<<>>) = 0 /\ 1 .. 0 = {}
    OBVIOUS
<1> QED BY <1>1 DEF IsRun

\* A flush that had no rows left is over.
LEMMA FlushOver ==
    ASSUME Types, RowsInv, flush.pc # "insert", flush' = NoFlush,
           UNCHANGED <<received, buffer, table, droppedTrades>>
    PROVE  RowsInv'
<1>0. /\ received \in Nat /\ Len(buffer) \in Nat
      /\ Len(flush.rows) = 0 /\ Len(flush.rest) = 0
    BY Lengths DEF RowsInv
<1>1. flush'.rows = <<>> /\ flush'.rest = <<>>
    BY DEF NoFlush
<1>2. Newest' = Newest /\ Base' = Base
    BY <1>0, <1>1, EmptyRun DEF Newest, Base
<1>3. IsRun(buffer', received') /\ IsRun(flush'.rows, Newest') /\ IsRun(flush'.rest, Newest')
    BY <1>1, EmptyRun DEF RowsInv
<1> QED BY <1>0, <1>1, <1>2, <1>3, EmptyRun DEF RowsInv

LEMMA HandleTradeRows == ASSUME Types, RowsInv, HandleTrade PROVE RowsInv'
<1>0. /\ Len(buffer) \in Nat /\ received \in Nat /\ buffer \in Seq(Trades)
      /\ Len(flush.rows) \in Nat /\ Len(flush.rest) \in Nat
    BY Lengths
<1>1. /\ received' = received + 1 /\ buffer' = Append(buffer, received + 1)
      /\ UNCHANGED <<flush, table, droppedTrades>>
    BY DEF HandleTrade, add
<1>2. received + 1 \in Trades
    BY <1>0, IngestAssumption DEF HandleTrade, Trades
<1>3. /\ Len(buffer') = Len(buffer) + 1
      /\ \A i \in 1 .. (Len(buffer) + 1) :
            buffer'[i] = IF i = Len(buffer) + 1 THEN received + 1 ELSE buffer[i]
    BY <1>0, <1>1, <1>2
<1>4. Newest' = Newest /\ Base' = Base
    BY <1>0, <1>1, <1>3 DEF Newest, Base
<1>5. IsRun(buffer', received')
    <2> SUFFICES ASSUME NEW i \in 1 .. (Len(buffer) + 1)
                 PROVE  buffer'[i] = (received + 1) - (Len(buffer) + 1) + i
        BY <1>1, <1>3 DEF IsRun
    <2>1. CASE i = Len(buffer) + 1
        BY <1>0, <1>3, <2>1
    <2>2. CASE i # Len(buffer) + 1
        <3>1. i \in 1 .. Len(buffer) /\ buffer'[i] = buffer[i]
            BY <1>0, <1>3, <2>2
        <3> QED BY <1>0, <3>1 DEF RowsInv, IsRun
    <2> QED BY <2>1, <2>2
<1> QED BY <1>1, <1>4, <1>5 DEF RowsInv, IsRun

LEMMA StartFlushRows == ASSUME Types, RowsInv, StartFlush PROVE RowsInv'
<1>0. Len(buffer) \in Nat /\ received \in Nat /\ Len(flush.rows) \in Nat
    BY Lengths
<1>1. /\ flush.pc = "idle" /\ UNCHANGED <<received, table, droppedTrades>>
      /\ buffer' = <<>> /\ flush'.rows = buffer /\ flush'.rest = buffer
      /\ flush'.pc # "insert" => Len(buffer) = 0
    <2>1. /\ flush.pc = "idle" /\ UNCHANGED <<received, table, droppedTrades>> /\ buffer' = <<>>
          /\ flush' = [NoFlush EXCEPT !.pc = IF buffer = <<>> THEN "mark" ELSE "insert",
                                      !.rows = buffer, !.rest = buffer]
        BY DEF StartFlush, flushInFlight
    <2>2. buffer = <<>> => Len(buffer) = 0
        BY EmptyRun
    <2> QED BY <2>1, <2>2 DEF NoFlush
<1>2. Len(flush.rows) = 0
    BY <1>1 DEF RowsInv
<1>3. Newest' = received /\ Base' = Base /\ Base = received - Len(buffer)
    BY <1>0, <1>1, <1>2, EmptyRun DEF Newest, Base
<1>4. (Base' + 1) .. (Newest' - Len(flush'.rest)) = {}
    BY <1>0, <1>1, <1>3
<1>5. IsRun(buffer', received') /\ IsRun(flush'.rows, Newest') /\ IsRun(flush'.rest, Newest')
    BY <1>1, <1>3, EmptyRun DEF RowsInv, IsRun
<1> QED BY <1>0, <1>1, <1>3, <1>4, <1>5 DEF RowsInv

LEMMA InsertChunkRows == ASSUME Types, RowsInv, InsertChunk PROVE RowsInv'
<1> DEFINE after == AfterChunk(flush.rest)
<1>0. /\ Len(buffer) \in Nat /\ received \in Nat /\ Len(flush.rows) \in Nat
      /\ Len(flush.rest) \in Nat /\ Base \in Nat /\ Newest \in Nat /\ Base <= Newest
      /\ flush \in FlushRec
    BY Lengths DEF RowsInv, Base, Newest, Types
<1>1. /\ after \in Seq(Trades) /\ Len(after) \in Nat /\ Len(after) <= Len(flush.rest)
      /\ IsRun(after, Newest)
    BY ChunkFacts, LenProperties
<1>2. table' = table \union ((Newest - Len(flush.rest) + 1) .. (Newest - Len(after)))
    BY ChunkFacts DEF InsertChunk
<1>3. (Base + 1) .. (Newest - Len(after)) \subseteq table'
    <2> SUFFICES ASSUME NEW t \in (Base + 1) .. (Newest - Len(after)) PROVE t \in table'
        OBVIOUS
    <2>1. t \in (Base + 1) .. (Newest - Len(flush.rest))
             \/ t \in (Newest - Len(flush.rest) + 1) .. (Newest - Len(after))
        <3> HIDE DEF after
        <3> QED BY <1>0, <1>1
    <2> QED BY <1>2, <2>1 DEF RowsInv
<1>4. Cardinality((1 .. Base) \ table) \in Nat
      /\ Cardinality((1 .. Base) \ table') <= Cardinality((1 .. Base) \ table)
    <2>1. table \subseteq table' /\ Base + 0 = Base
        <3>1. table \subseteq table'
            BY <1>2
        <3> QED BY <1>0, <3>1
    <2>2. Cardinality((1 .. (Base + 0)) \ table') <= Cardinality((1 .. Base) \ table) + 0
        BY <1>0, <2>1, LostGrows
    <2>3. Cardinality((1 .. Base) \ table) \in Nat
        BY <1>0, <2>1, LostGrows
    <2> QED BY <2>1, <2>2, <2>3
<1>5. UNCHANGED <<received, buffer, droppedTrades>> /\ flush.pc = "insert"
    BY DEF InsertChunk
<1>6. CASE after = <<>>
    <2>1. flush' = [flush EXCEPT !.pc = "mark", !.rows = <<>>, !.rest = <<>>]
        BY <1>6 DEF InsertChunk
    <2>2. flush'.rows = <<>> /\ flush'.rest = <<>> /\ flush'.pc = "mark"
        BY <1>0, <2>1 DEF FlushRec
    <2>3. Newest' = Newest /\ Base' = Newest
        BY <1>0, <1>5, <2>2, EmptyRun DEF Newest, Base
    <2>4. (1 .. Newest) \ table' \subseteq (1 .. Base) \ table'
        <3>1. Len(after) = 0
            BY <1>6, EmptyRun
        <3> QED BY <1>0, <1>3, <3>1
    <2>5. Cardinality((1 .. Newest) \ table') <= Cardinality((1 .. Base) \ table')
          /\ Cardinality((1 .. Base) \ table') \in Nat /\ Cardinality((1 .. Newest) \ table') \in Nat
        <3>1. IsFiniteSet((1 .. Base) \ table')
            <4>1. IsFiniteSet(1 .. Base)
                BY <1>0, FS_Interval
            <4> QED BY <4>1, FS_Subset
        <3>2. IsFiniteSet((1 .. Newest) \ table')
            BY <2>4, <3>1, FS_Subset
        <3> QED BY <2>4, <3>1, <3>2, FS_Subset, FS_CardinalityType
    <2>6. Cardinality((1 .. Newest) \ table') <= droppedTrades
        BY <1>4, <2>5 DEF RowsInv, Types
    <2>7. (Base' + 1) .. (Newest' - Len(flush'.rest)) = {}
        BY <1>0, <2>2, <2>3, EmptyRun
    <2>8. IsRun(buffer', received') /\ IsRun(flush'.rows, Newest') /\ IsRun(flush'.rest, Newest')
        BY <1>5, <2>2, EmptyRun DEF RowsInv, IsRun
    <2> QED BY <1>0, <1>5, <2>2, <2>3, <2>6, <2>7, <2>8, EmptyRun DEF RowsInv
<1>7. CASE after # <<>>
    <2>1. flush' = [flush EXCEPT !.rest = after]
        BY <1>7 DEF InsertChunk
    <2> HIDE DEF after
    <2>2. flush'.rows = flush.rows /\ flush'.rest = after /\ flush'.pc = "insert"
        BY <1>0, <1>5, <2>1 DEF FlushRec
    <2>3. Newest' = Newest /\ Base' = Base
        BY <1>5, <2>2 DEF Newest, Base
    <2>4. Len(after) <= Len(flush.rows) /\ Cardinality((1 .. Base) \ table') <= droppedTrades
        <3>1. /\ Len(flush.rest) <= Len(flush.rows) /\ droppedTrades \in Nat
              /\ Cardinality((1 .. Base) \ table) <= droppedTrades
            BY DEF RowsInv, Types
        <3>2. Cardinality((1 .. Base) \ table') \in Nat
            BY <1>0, LostGrows
        <3> QED BY <1>0, <1>1, <1>4, <3>1, <3>2
    <2>5. IsRun(buffer', received') /\ IsRun(flush'.rows, Newest') /\ IsRun(flush'.rest, Newest')
        BY <1>1, <1>5, <2>2, <2>3 DEF RowsInv
    <2> QED BY <1>3, <1>5, <2>2, <2>3, <2>4, <2>5 DEF RowsInv
<1> QED BY <1>6, <1>7

LEMMA InsertFailsRows == ASSUME Types, RowsInv, InsertFails PROVE RowsInv'
<1> DEFINE d == DroppedBy(flush.rows)
<1>0. received \in Nat /\ Base \in Nat
    BY Lengths DEF RowsInv
<1>1. /\ d \in Nat /\ Len(Restored(flush.rows)) = received - (Base + d)
      /\ Base + d <= received /\ IsRun(Restored(flush.rows), received)
    BY RestoredFacts
<1>2. /\ UNCHANGED received /\ buffer' = Restored(flush.rows)
      /\ droppedTrades' = droppedTrades + d /\ table \subseteq table'
    BY DEF InsertFails
<1>3. flush'.rows = <<>> /\ flush'.rest = <<>> /\ flush'.pc = "mark"
    BY DEF InsertFails, NoFlush
<1> HIDE DEF d
<1>4. Newest' = Base + d /\ Base' = Base + d
    BY <1>0, <1>1, <1>2, <1>3, EmptyRun DEF Newest, Base
<1>5. Cardinality((1 .. (Base + d)) \ table') <= droppedTrades'
    <2>1. /\ Cardinality((1 .. Base) \ table) \in Nat
          /\ Cardinality((1 .. (Base + d)) \ table') <= Cardinality((1 .. Base) \ table) + d
        BY <1>0, <1>1, <1>2, LostGrows
    <2>2. IsFiniteSet((1 .. (Base + d)) \ table')
        <3>1. IsFiniteSet(1 .. (Base + d))
            BY <1>0, <1>1, FS_Interval
        <3> QED BY <3>1, FS_Subset
    <2>3. Cardinality((1 .. (Base + d)) \ table') \in Nat
        BY <2>2, FS_CardinalityType
    <2> QED BY <1>1, <1>2, <2>1, <2>3 DEF RowsInv, Types
<1>6. (Base' + 1) .. (Newest' - Len(flush'.rest)) = {}
    BY <1>0, <1>1, <1>3, <1>4, EmptyRun
<1>7. IsRun(buffer', received') /\ IsRun(flush'.rows, Newest') /\ IsRun(flush'.rest, Newest')
    BY <1>1, <1>2, <1>3, EmptyRun
<1> QED BY <1>0, <1>1, <1>3, <1>4, <1>5, <1>6, <1>7, EmptyRun DEF RowsInv

LEMMA RowsStep == ASSUME Types, RowsInv, [TradeNext]_tradeVars PROVE RowsInv'
<1>0. flush \in FlushRec
    BY DEF Types
<1>1. CASE ReadMark
    <2>1. flush.pc = "mark" /\ UNCHANGED <<received, buffer, table, droppedTrades>>
        BY <1>1 DEF ReadMark
    <2>2. CASE dirty = 0
        <3>1. flush' = NoFlush
            BY <1>1, <2>2 DEF ReadMark
        <3> QED BY <2>1, <3>1, FlushOver
    <2>3. CASE dirty # 0
        <3>1. flush' = [flush EXCEPT !.pc = "writeMark", !.snapshot = dirty]
            BY <1>1, <2>3 DEF ReadMark
        <3>2. flush'.rows = flush.rows /\ flush'.rest = flush.rest
            BY <1>0, <3>1 DEF FlushRec
        <3> QED BY <2>1, <3>2, RunStays
    <2> QED BY <2>2, <2>3
<1>2. CASE WriteMark \/ WriteMarkFails
    <2>1. /\ flush.pc = "writeMark" /\ flush' = NoFlush
          /\ UNCHANGED <<received, buffer, table, droppedTrades>>
        BY <1>2 DEF WriteMark, WriteMarkFails
    <2> QED BY <2>1, FlushOver
<1>3. CASE UNCHANGED <<received, buffer, flush, table, droppedTrades>>
    BY <1>3, RunStays
<1> QED BY <1>1, <1>2, <1>3, HandleTradeRows, StartFlushRows, InsertChunkRows, InsertFailsRows
        DEF TradeNext, FlushSteps, FlushTimerFires, BeginShutdown, StreamClosed, ShutdownFlushed, tradeVars

-----------------------------------------------------------------------------
\* Every trade that arrived is in the table, or held in memory in the order of
\* arrival, or older than all of those and counted as lost; a clean watermark is
\* that of the last trade; and a shutdown leaves trades behind only after both of
\* its flushes failed.  Whatever writes fail, however far an insert got, and
\* whenever the service stops (TradeBuffer, IngestService.flush, onModuleDestroy).
THEOREM TradesAreKeptHolds == TradeSpec => []TradesAreKept
<1>1. TradeInit => IngestInv
    BY IngestInit
<1>2. IngestInv /\ [TradeNext]_tradeVars => IngestInv'
    BY TypesStep, RowsStep, MarkStep, ShutdownStep DEF IngestInv
<1> QED BY <1>1, <1>2, IngestInvMeans, PTL DEF TradeSpec
==============================================================================
