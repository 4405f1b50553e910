---------------------------- MODULE CandlePipeline -----------------------------
(***************************************************************************)
(* How the candles of one symbol get into klines and become final: the     *)
(* stream with its breaks, the serial writes of the ingest service, the    *)
(* forced repair after a reconnection, the gap scan, and restarts.         *)
(* (src/backend/src/binance/binance-ws.client.ts, ingest/ingest.service.ts,*)
(* backfill/backfill.service.ts, db/repositories/kline.repository.ts)      *)
(*                                                                         *)
(* What is abstracted:                                                     *)
(*   - a row is absent, partial (a snapshot of the forming candle) or      *)
(*     final; completeness only grows with trade count and volume;         *)
(*   - the engine, detailed in BackfillEngine, reads and reserves in one   *)
(*     step, and a job ends in one step with all its candles or a prefix;  *)
(*   - the exchange serves every closed candle by REST.                    *)
(* Allowed says what may go wrong, Budget how many mishaps (a bound).      *)
(***************************************************************************)
EXTENDS CandleRanges, FiniteSets, Sequences

CONSTANTS
    Start,           \* index of the first forming candle
    Horizon,         \* bound: time stops with this candle forming
    Lookback,        \* GAP_SCAN_LOOKBACK_HOURS, in candles
    Grace,           \* GAP_SCAN_GRACE_CANDLES
    Depth,           \* BOOTSTRAP_BACKFILL_DAYS, in candles
    MaxChain,        \* bound: writes waiting in klineChain
    Budget,          \* bound: mishaps
    Allowed,         \* the mishaps that may happen
    FirstRows        \* what the rows before Start may be: absent, final

(***************************************************************************)
(* "close":    the stream closes and opens again                           *)
(* "boundary": it closes between the end of a candle and its final message *)
(* "silent":   it stops delivering before anyone notices                   *)
(* "overlap":  it opens while a job overlaps the window to repair          *)
(* "snapshot", "final": the ingest service fails to write such a version   *)
(* "job":      a job of the bootstrap or the scan fails for good           *)
(* "repair":   a forced repair fails for good                              *)
(* "crash":    the process dies; it is started again later                 *)
(***************************************************************************)
Mishaps == {"close", "boundary", "silent", "overlap", "snapshot", "final", "job", "repair", "crash"}

ASSUME PipelineAssumption ==
    /\ Start \in Nat /\ Horizon \in Nat /\ Start <= Horizon
    /\ Lookback \in Nat \ {0} /\ Grace \in Nat /\ Depth \in Nat
    /\ MaxChain \in Nat \ {0} /\ Budget \in Nat
    /\ Allowed \subseteq Mishaps
    /\ FirstRows \subseteq {0, 2}

Candles == 0 .. Horizon

None == -1

absent == 0
partial == 1
final == 2

VARIABLES
    now,             \* the forming candle
    stream,          \* the websocket: "down", "up", or "silent"
    finalDue,        \* the closed candle whose final message is on its way
    disconnectedAt,  \* of BinanceWsClient, as the candle it falls in
    chain,           \* writes waiting in klineChain
    klines,          \* completeness of each row
    engine,          \* "off", "plan" (startup), "idle" or "busy"
    jobs,            \* backfill jobs under way: kind and reserved range
    mishaps,         \* bound: mishaps so far
    suffered         \* history: their kinds

vars == <<now, stream, finalDue, disconnectedAt, chain, klines, engine, jobs, mishaps, suffered>>

\* The process runs.
Running == engine # "off"

Init ==
    /\ now = Start
    /\ stream = "down"
    /\ finalDue = None
    /\ disconnectedAt = None
    /\ chain = <<>>
    /\ \E stored \in FirstRows :
           klines = [m \in Candles |-> IF m < Start THEN stored ELSE absent]
    /\ engine = "plan"
    /\ jobs = {}
    /\ mishaps = 0
    /\ suffered = {}

Suffers(kinds) == kinds \subseteq Allowed /\ suffered' = suffered \union kinds

\* A mishap, of all these kinds.
Mishap(kinds) == mishaps < Budget /\ mishaps' = mishaps + 1 /\ Suffers(kinds)

-----------------------------------------------------------------------------
\* The exchange and the stream

\* A minute ends.  Bounds: the final message of the one before has arrived or
\* is lost by then, and an attempt to connect has an outcome by then
\* (HANDSHAKE_TIMEOUT_MS).
Tick ==
    /\ now < Horizon
    /\ finalDue = None
    /\ Running /\ stream = "down" => disconnectedAt # None
    /\ now' = now + 1
    /\ finalDue' = IF stream = "up" THEN now ELSE None
    /\ UNCHANGED <<stream, disconnectedAt, chain, klines, engine, jobs, mishaps, suffered>>

\* handleKline: a snapshot of the forming candle is put into the chain.
SnapshotArrives ==
    /\ stream = "up" /\ finalDue = None
    /\ Len(chain) < MaxChain
    /\ chain' = Append(chain, [candle |-> now, level |-> partial])
    /\ UNCHANGED <<now, stream, finalDue, disconnectedAt, klines, engine, jobs, mishaps, suffered>>

\* handleKline: the final version of the candle that just closed.
FinalArrives ==
    /\ stream = "up" /\ finalDue # None
    /\ Len(chain) < MaxChain
    /\ chain' = Append(chain, [candle |-> finalDue, level |-> final])
    /\ finalDue' = None
    /\ UNCHANGED <<now, stream, disconnectedAt, klines, engine, jobs, mishaps, suffered>>

\* handleClose, also after a failed attempt to connect: the first break is
\* remembered.
StreamCloses ==
    /\ Running
    /\ \/ stream = "up" /\ Mishap({"close"} \union IF finalDue = None THEN {} ELSE {"boundary"})
       \/ stream = "down" /\ disconnectedAt = None /\ Mishap({"close"})
       \/ stream = "silent" /\ UNCHANGED <<mishaps, suffered>>
    /\ stream' = "down"
    /\ finalDue' = None
    /\ disconnectedAt' = IF disconnectedAt = None THEN now ELSE disconnectedAt
    /\ UNCHANGED <<now, chain, klines, engine, jobs>>

\* Nothing arrives any more; checkHeartbeat notices only later.
StreamGoesSilent ==
    /\ stream = "up"
    /\ Mishap({"silent"})
    /\ stream' = "silent"
    /\ finalDue' = None
    /\ UNCHANGED <<now, disconnectedAt, chain, klines, engine, jobs>>

-----------------------------------------------------------------------------
\* klineChain and upsertMany

\* Mutant: the row is overwritten whatever it holds.
UpsertedUnguarded(m, level) == [klines EXCEPT ![m] = level]

\* A row never becomes less complete (setWhere).
Upserted(m, level) == [klines EXCEPT ![m] = IF level >= @ THEN level ELSE @]

\* writeAndEmitKline
WriteKline ==
    /\ chain # <<>>
    /\ klines' = Upserted(Head(chain).candle, Head(chain).level)
    /\ chain' = Tail(chain)
    /\ UNCHANGED <<now, stream, finalDue, disconnectedAt, engine, jobs, mishaps, suffered>>

\* The upsert throws: it is logged and the next write goes on.
WriteKlineFails ==
    /\ chain # <<>>
    /\ Mishap({IF Head(chain).level = final THEN "final" ELSE "snapshot"})
    /\ chain' = Tail(chain)
    /\ UNCHANGED <<now, stream, finalDue, disconnectedAt, klines, engine, jobs>>

-----------------------------------------------------------------------------
\* The backfill engine

\* splitByInFlight
Runnable(ranges) == {r \in ranges : \A j \in jobs : ~rangesOverlap(j.range, r)}

JobsFor(kind, ranges) == {[kind |-> kind, range |-> r] : r \in Runnable(ranges)}

\* Mutant: the repair starts after the candle of the break.
RepairWindowAfterBreak(from, to) ==
    IF from + 1 < to THEN {[start |-> from + 1, end |-> to]} ELSE {}

\* repairDowntimeWindow: from the candle of the break to the last closed one.
RepairWindow(from, to) ==
    IF from < to THEN {[start |-> from, end |-> to]} ELSE {}

\* handleOpen, and handleStreamStatus of the backfill service: the repair is
\* one range, run as a whole or skipped as a whole.
StreamOpens ==
    LET repair == IF disconnectedAt = None THEN {} ELSE RepairWindow(disconnectedAt, now)
    IN  /\ Running
        /\ stream = "down"
        /\ stream' = "up"
        /\ disconnectedAt' = None
        /\ jobs' = jobs \union JobsFor("repair", repair)
        /\ Suffers(IF repair = Runnable(repair) THEN {} ELSE {"overlap"})
        /\ UNCHANGED <<now, finalDue, chain, klines, engine, mishaps>>

\* detectGaps on a window: closed candles without a row.
Gaps(win) ==
    GapRanges({m \in win.start .. (capEndToClosedCandles(win.end, now, 1) - 1) :
                  m \in Candles /\ klines[m] = absent})

\* A call of bootstrap or recoverGaps that detected its gaps.
EngineRuns(win) ==
    /\ jobs' = jobs \union JobsFor("engine", Gaps(win))
    /\ engine' = IF JobsFor("engine", Gaps(win)) = {} THEN "idle" ELSE "busy"

IsLatest(m) ==
    IF \A n \in Candles : klines[n] = absent THEN m = NoOpenTime
    ELSE m \in Candles /\ klines[m] # absent /\ \A n \in Candles : n > m => klines[n] = absent

IsEarliest(m) ==
    IF \A n \in Candles : klines[n] = absent THEN m = NoOpenTime
    ELSE m \in Candles /\ klines[m] # absent /\ \A n \in Candles : n < m => klines[n] = absent

\* bootstrapSymbol, some time after the process started.
Bootstrap ==
    /\ engine = "plan"
    /\ \E latest, earliest \in Candles \union {NoOpenTime} :
           /\ IsLatest(latest) /\ IsEarliest(earliest)
           /\ EngineRuns(resolveStartupPlan(latest, earliest, now, Depth))
    /\ UNCHANGED <<now, stream, finalDue, disconnectedAt, chain, klines, mishaps, suffered>>

ScanWindow == [start |-> IF now - Grace - Lookback < 0 THEN 0 ELSE now - Grace - Lookback,
               end |-> now - Grace]

\* recoverGaps; a scan that finds nothing changes nothing.
Scan ==
    /\ engine = "idle"
    /\ EngineRuns(ScanWindow)
    /\ UNCHANGED <<now, stream, finalDue, disconnectedAt, chain, klines, mishaps, suffered>>

\* The engine is free again once its last job is over.
JobEnds(j) ==
    /\ jobs' = jobs \ {j}
    /\ engine' = IF engine = "busy" /\ \A k \in jobs \ {j} : k.kind = "repair"
                 THEN "idle" ELSE engine

\* The candles of the range that are below the limit are stored, final.
Backfilled(range, limit) ==
    [m \in Candles |-> IF m \in CandlesOf(range) /\ m < limit THEN final ELSE klines[m]]

JobSucceeds(j) ==
    /\ klines' = Backfilled(j.range, j.range.end)
    /\ JobEnds(j)
    /\ UNCHANGED <<now, stream, finalDue, disconnectedAt, chain, mishaps, suffered>>

\* Mutant: the engine stays busy after a failed job.
JobFailsBusy(j) ==
    /\ Mishap({IF j.kind = "engine" THEN "job" ELSE "repair"})
    /\ jobs' = jobs \ {j}
    /\ UNCHANGED <<now, stream, finalDue, disconnectedAt, chain, klines, engine>>

\* Retries are used up; a prefix may be stored.
JobFails(j) ==
    /\ Mishap({IF j.kind = "engine" THEN "job" ELSE "repair"})
    /\ \E limit \in CandlesOf(j.range) : klines' = Backfilled(j.range, limit)
    /\ JobEnds(j)
    /\ UNCHANGED <<now, stream, finalDue, disconnectedAt, chain>>

-----------------------------------------------------------------------------
\* The process dies: what is in memory is lost, the table stays.
Crash ==
    /\ Running
    /\ Mishap({"crash"})
    /\ stream' = "down"
    /\ finalDue' = None
    /\ disconnectedAt' = None
    /\ chain' = <<>>
    /\ jobs' = {}
    /\ engine' = "off"
    /\ UNCHANGED <<now, klines>>

\* onModuleInit and onApplicationBootstrap.
Restart ==
    /\ engine = "off"
    /\ engine' = "plan"
    /\ UNCHANGED <<now, stream, finalDue, disconnectedAt, chain, klines, jobs, mishaps, suffered>>

-----------------------------------------------------------------------------
EndsSomeJob == \E j \in jobs : JobSucceeds(j) \/ JobFails(j)

Next ==
    \/ Tick \/ SnapshotArrives \/ FinalArrives
    \/ StreamCloses \/ StreamGoesSilent \/ StreamOpens
    \/ WriteKline \/ WriteKlineFails
    \/ Bootstrap \/ Scan
    \/ EndsSomeJob
    \/ Crash \/ Restart

\* Time passes, the stream reconnects for ever with bounded pauses, its
\* messages arrive, a silent one is noticed by the heartbeat, every write and
\* job ends, the scan timer fires, and the process is started again.
Fairness ==
    /\ WF_vars(Tick)
    /\ WF_vars(FinalArrives)
    /\ WF_vars(stream = "silent" /\ StreamCloses)
    /\ WF_vars(StreamOpens)
    /\ WF_vars(WriteKline)
    /\ WF_vars(Bootstrap) /\ WF_vars(Scan)
    /\ WF_vars(EndsSomeJob)
    /\ WF_vars(Restart)

Spec == Init /\ [][Next]_vars /\ Fairness

-----------------------------------------------------------------------------
TypeOK ==
    /\ now \in Candles
    /\ stream \in {"down", "up", "silent"}
    /\ finalDue \in Candles \union {None}
    /\ disconnectedAt \in Candles \union {None}
    /\ chain \in Seq([candle : Candles, level : {partial, final}])
    /\ klines \in [Candles -> {absent, partial, final}]
    /\ engine \in {"off", "plan", "idle", "busy"}
    /\ jobs \subseteq [kind : {"engine", "repair"},
                       range : {r \in [start : Candles, end : Candles] : r.start < r.end /\ r.end <= now}]
    /\ mishaps \in 0 .. Budget
    /\ suffered \subseteq Mishaps

\* A row never becomes less complete: a late snapshot in klineChain does not
\* undo what a job or the final message wrote (the rule of kline-rules.ts).
\* And every job asks for closed candles only (TypeOK).
RowsOnlyGrow == [][TypeOK' /\ \A m \in Candles : klines'[m] >= klines[m]]_vars

\* The candles a scan will still look at when time stops.
Scanned == {m \in Candles : m < Horizon - Grace}

\* Every candle that closed has a row in the end: whatever is lost on the way,
\* the gap scan makes up for it, as long as it looks back far enough.
CandlesPresent == \A m \in Scanned : m < now ~> klines[m] # absent

\* Mishaps the reconnection repair, the scan and the next update make up for.
Harmless == {"close", "job", "snapshot"}

\* Every candle that closed is final in the end, whatever breaks, failed jobs
\* and failed writes of snapshots there were.
FinalUnlessSpoiled ==
    \A m \in Scanned : m < now ~> (klines[m] = final \/ ~(suffered \subseteq Harmless))

\* Every candle that closed is final in the end: none keeps a snapshot of
\* itself for ever.  No run checks it: a single mishap of each of the kinds
\* final, boundary, crash, repair, overlap and silent refutes it.
CandlesFinal == \A m \in Scanned : m < now ~> klines[m] = final
==============================================================================
