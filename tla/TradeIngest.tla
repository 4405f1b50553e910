----------------------------- MODULE TradeIngest ------------------------------
(***************************************************************************)
(* The path of a trade from the stream to the trades table: handleTrade,   *)
(* the memory buffer, the chain of flushes, the chunked insert, the        *)
(* watermark in ingest_state, and the shutdown that flushes what is left.  *)
(* (src/backend/src/ingest/ingest.service.ts, trade-buffer.ts,             *)
(* ingest-state.store.ts, db/repositories/trade.repository.ts)             *)
(*                                                                         *)
(* One symbol; its trades are 1, 2, 3, ... in the order they arrive, as    *)
(* the exchange numbers them.  A step is what runs between two awaits.     *)
(* The store of the watermark keeps the id only: its event time moves with *)
(* it.                                                                     *)
(***************************************************************************)
EXTENDS Naturals, FiniteSets, Sequences, SequencesExt

CONSTANTS
    MaxTrades,       \* bound: trades that arrive
    MaxRows,         \* TRADE_FLUSH_MAX_ROWS
    HardCap,         \* hardCap of the buffer
    ChunkSize,       \* TRADE_CHUNK_SIZE
    MaxQueued,       \* bound: flushes waiting in the chain
    MaxFailures      \* bound: failed writes

ASSUME IngestAssumption ==
    /\ MaxTrades \in Nat /\ MaxQueued \in Nat /\ MaxFailures \in Nat
    /\ MaxRows \in Nat \ {0} /\ HardCap \in Nat /\ HardCap >= MaxRows
    /\ ChunkSize \in Nat \ {0}

VARIABLES
    received,        \* the last trade that arrived
    buffer,          \* TradeBuffer.rows
    queued,          \* flushes in flushChain that have not started
    flush,           \* the doFlush under way: its rows and those not yet written
    table,           \* the trades table
    droppedTrades,   \* rows reported as lost
    dirty,           \* the mark not yet in the database, 0 when there is none
    dbMark,          \* ingest_state.last_trade_id
    phase,           \* of the service: "up", then the steps of onModuleDestroy
    failures,        \* bound: failed writes so far
    lastTries        \* history: flushes of the shutdown whose insert failed

tradeVars == <<received, buffer, queued, flush, table, droppedTrades, dirty, dbMark,
          phase, failures, lastTries>>

NoFlush == [pc |-> "idle", rows |-> <<>>, rest |-> <<>>, snapshot |-> 0]

TradeInit ==
    /\ received = 0
    /\ buffer = <<>>
    /\ queued = 0
    /\ flush = NoFlush
    /\ table = {}
    /\ droppedTrades = 0
    /\ dirty = 0
    /\ dbMark = 0
    /\ phase = "up"
    /\ failures = 0
    /\ lastTries = 0

flushInFlight == flush.pc # "idle"

-----------------------------------------------------------------------------
\* markTrade: the watermark only grows while it is dirty.
markTrade(tradeId) == IF dirty > tradeId THEN dirty ELSE tradeId

\* TradeBuffer.add, without a look at the cap.
add(row) == Append(buffer, row)

\* handleTrade: mark, buffer, and ask for a flush once there are enough rows.
\* Trades still arrive while the stream is being closed.
HandleTrade ==
    /\ phase \in {"up", "stopping"}
    /\ received < MaxTrades
    /\ received' = received + 1
    /\ dirty' = markTrade(received')
    /\ buffer' = add(received')
    /\ IF Len(buffer') >= MaxRows /\ ~flushInFlight
       THEN queued < MaxQueued /\ queued' = queued + 1
       ELSE UNCHANGED queued
    /\ UNCHANGED <<flush, table, droppedTrades, dbMark, phase, failures, lastTries>>

\* The interval timer asks for a flush.
FlushTimerFires ==
    /\ phase = "up"
    /\ queued < MaxQueued
    /\ queued' = queued + 1
    /\ UNCHANGED <<received, buffer, flush, table, droppedTrades, dirty, dbMark,
                   phase, failures, lastTries>>

\* doFlush begins when the one before it is over: the buffer is drained.
StartFlush ==
    /\ queued > 0
    /\ ~flushInFlight
    /\ queued' = queued - 1
    /\ flush' = [NoFlush EXCEPT !.pc = IF buffer = <<>> THEN "mark" ELSE "insert",
                                !.rows = buffer, !.rest = buffer]
    /\ buffer' = <<>>
    /\ UNCHANGED <<received, table, droppedTrades, dirty, dbMark, phase, failures, lastTries>>

Chunk(rows) == SubSeq(rows, 1, IF Len(rows) < ChunkSize THEN Len(rows) ELSE ChunkSize)

AfterChunk(rows) == SubSeq(rows, Len(Chunk(rows)) + 1, Len(rows))

\* One INSERT ... ON CONFLICT DO NOTHING of insertManyIgnoreConflict.
InsertChunk ==
    /\ flush.pc = "insert"
    /\ table' = table \union ToSet(Chunk(flush.rest))
    /\ flush' = IF AfterChunk(flush.rest) = <<>>
                THEN [flush EXCEPT !.pc = "mark", !.rows = <<>>, !.rest = <<>>]
                ELSE [flush EXCEPT !.rest = AfterChunk(flush.rest)]
    /\ UNCHANGED <<received, buffer, queued, droppedTrades, dirty, dbMark, phase,
                   failures, lastTries>>

\* Mutant: the newest rows are cut off.
RestoredNewestCut(failed) ==
    LET combined == failed \o buffer
    IN  SubSeq(combined, 1, IF Len(combined) > HardCap THEN HardCap ELSE Len(combined))

\* How many of the rows exceed the cap.
DroppedBy(failed) ==
    IF Len(failed) + Len(buffer) > HardCap THEN Len(failed) + Len(buffer) - HardCap ELSE 0

\* restore: the failed rows go back to the front; beyond the cap the oldest go.
Restored(failed) ==
    LET combined == failed \o buffer
    IN  SubSeq(combined, 1 + DroppedBy(failed), Len(combined))

\* The flush under way is one of the two that onModuleDestroy waits for: no
\* other is queued behind it.
IsShutdownFlush == phase \in {"flush1", "flush2"} /\ queued = 0

\* Mutant: the error leaves doFlush and breaks the chain.
InsertFailsBreaksChain ==
    /\ flush.pc = "insert"
    /\ failures < MaxFailures
    /\ failures' = failures + 1
    /\ buffer' = Restored(flush.rows)
    /\ droppedTrades' = droppedTrades + DroppedBy(flush.rows)
    /\ flush' = [NoFlush EXCEPT !.pc = "broken"]
    /\ UNCHANGED <<received, queued, table, dirty, dbMark, phase, lastTries>>

\* A chunk fails, or only its answer is lost.  All rows are restored.
InsertFails ==
    /\ flush.pc = "insert"
    /\ failures < MaxFailures
    /\ failures' = failures + 1
    /\ table' \in {table, table \union ToSet(Chunk(flush.rest))}
    /\ buffer' = Restored(flush.rows)
    /\ droppedTrades' = droppedTrades + DroppedBy(flush.rows)
    /\ flush' = [NoFlush EXCEPT !.pc = "mark"]
    /\ lastTries' = lastTries + (IF IsShutdownFlush THEN 1 ELSE 0)
    /\ UNCHANGED <<received, queued, dirty, dbMark, phase>>

\* flushState: the dirty mark is read; without one the flush is over.
ReadMark ==
    /\ flush.pc = "mark"
    /\ flush' = IF dirty = 0 THEN NoFlush
                             ELSE [flush EXCEPT !.pc = "writeMark", !.snapshot = dirty]
    /\ UNCHANGED <<received, buffer, queued, table, droppedTrades, dirty, dbMark,
                   phase, failures, lastTries>>

\* After the write: dirty only if it changed since it was read.
Cleaned(snapshot) == IF dirty = snapshot THEN 0 ELSE dirty

WriteMark ==
    /\ flush.pc = "writeMark"
    /\ dbMark' = flush.snapshot
    /\ dirty' = Cleaned(flush.snapshot)
    /\ flush' = NoFlush
    /\ UNCHANGED <<received, buffer, queued, table, droppedTrades, phase, failures, lastTries>>

\* The write fails, or only its answer is lost; the mark stays dirty.
WriteMarkFails ==
    /\ flush.pc = "writeMark"
    /\ failures < MaxFailures
    /\ failures' = failures + 1
    /\ dbMark' \in {dbMark, flush.snapshot}
    /\ flush' = NoFlush
    /\ UNCHANGED <<received, buffer, queued, table, droppedTrades, dirty, phase, lastTries>>

-----------------------------------------------------------------------------
\* onModuleDestroy: the timer is cleared, the stream is asked to close.
BeginShutdown ==
    /\ phase = "up"
    /\ phase' = "stopping"
    /\ UNCHANGED <<received, buffer, queued, flush, table, droppedTrades, dirty, dbMark,
                   failures, lastTries>>

\* The stream is closed and klineChain is done: the first flush is queued.
StreamClosed ==
    /\ phase = "stopping"
    /\ phase' = "flush1"
    /\ queued' = queued + 1
    /\ UNCHANGED <<received, buffer, flush, table, droppedTrades, dirty, dbMark,
                   failures, lastTries>>

\* The flush that was waited for is over; rows left get one more.
ShutdownFlushed ==
    /\ phase \in {"flush1", "flush2"}
    /\ queued = 0 /\ ~flushInFlight
    /\ IF phase = "flush1" /\ buffer # <<>>
       THEN phase' = "flush2" /\ queued' = 1
       ELSE phase' = "down" /\ UNCHANGED queued
    /\ UNCHANGED <<received, buffer, flush, table, droppedTrades, dirty, dbMark,
                   failures, lastTries>>

FlushSteps ==
    \/ StartFlush \/ InsertChunk \/ InsertFails
    \/ ReadMark \/ WriteMark \/ WriteMarkFails

TradeNext ==
    \/ HandleTrade \/ FlushTimerFires
    \/ FlushSteps
    \/ BeginShutdown \/ StreamClosed \/ ShutdownFlushed

\* The timer keeps firing, the database answers, and the stream closes (after
\* STOP_CLOSE_TIMEOUT_MS it is terminated).
TradeFairness ==
    /\ WF_tradeVars(FlushTimerFires)
    /\ WF_tradeVars(FlushSteps)
    /\ WF_tradeVars(StreamClosed) /\ WF_tradeVars(ShutdownFlushed)

TradeSpec == TradeInit /\ [][TradeNext]_tradeVars /\ TradeFairness

-----------------------------------------------------------------------------
Trades == 1 .. MaxTrades

TradeTypeOK ==
    /\ received \in 0 .. MaxTrades
    /\ buffer \in Seq(Trades)
    /\ queued \in 0 .. (MaxQueued + 1)
    /\ flush.pc \in {"idle", "insert", "mark", "writeMark"}
    /\ flush.rows \in Seq(Trades) /\ flush.rest \in Seq(Trades)
    /\ flush.snapshot \in 0 .. MaxTrades
    /\ table \subseteq Trades
    /\ droppedTrades \in Nat
    /\ dirty \in 0 .. MaxTrades /\ dbMark \in 0 .. MaxTrades
    /\ phase \in {"up", "stopping", "flush1", "flush2", "down"}
    /\ failures \in 0 .. MaxFailures
    /\ lastTries \in 0 .. 2

\* The trades held in memory: those of the flush under way come first.
Held == flush.rows \o buffer

Lost == (1 .. received) \ (table \union ToSet(Held))

\* A trade that arrived is in the table, or held, or counted as lost: flushes
\* that fail halfway, while more trades arrive, lose none silently ("not
\* dropped silently", trade-buffer.ts:7).
LossReported == Cardinality(Lost) <= droppedTrades

\* Held trades stay in order and none is held twice; and only the oldest are
\* ever given up (restore puts failed rows in front).
OldestFirst ==
    /\ \A i, j \in DOMAIN Held : i < j => Held[i] < Held[j]
    /\ \A lost \in Lost, t \in ToSet(Held) : lost < t

\* A clean mark is the mark of the last trade: one that arrives while the
\* mark is written is not forgotten (the reference check in flush()).
CleanMeansCurrent == dirty = 0 => dbMark = received

\* A shutdown leaves trades behind only if both of its flushes failed; those
\* that arrive while the stream closes are flushed as well (onModuleDestroy).
ShutdownKeepsTrades == phase = "down" /\ buffer # <<>> => lastTries = 2

\* Every trade reaches the table or is given up by the cap, unless the
\* process shuts down first: a failed flush is made up for by a later one.
TradesSettle ==
    \A t \in Trades :
        t = received ~> (t \in table \/ phase = "down" \/ t \notin ToSet(Held))

\* What ingest owes every trade, whichever writes fail and whenever it shuts
\* down: in the table, held in order, or counted; and a mark that covers it.
TradesAreKept == TradeTypeOK /\ LossReported /\ OldestFirst /\ CleanMeansCurrent /\ ShutdownKeepsTrades
==============================================================================
