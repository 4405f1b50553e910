----------------------------- MODULE KlineStore ------------------------------
(***************************************************************************)
(* KlineRepository.upsertMany: how a batch of candles from the stream or   *)
(* from a backfill page becomes rows of klines.  The batch is validated as *)
(* a whole, folded to one row per conflict key, cut into statements that   *)
(* respect PostgreSQL's limit of bind parameters, and each statement       *)
(* inserts its rows or updates the stored ones it may replace.             *)
(* (src/backend/src/db/kline-rules.ts, dedupe.ts, chunk.ts, numeric.ts,    *)
(* db/repositories/kline.repository.ts)                                    *)
(*                                                                         *)
(* A row is [interval, open, close, count, volume]; one symbol, so its     *)
(* conflict key is its open time.  The table is a set of rows.             *)
(***************************************************************************)
EXTENDS Integers, FiniteSets, Sequences, SequencesExt

CONSTANT IntervalMs       \* a function from the supported intervals to their length in ms

(***************************************************************************)
(* numeric.ts.  A decimal string is [neg, int, frac]: its sign and the     *)
(* sequences of digits before and after the point.                         *)
(***************************************************************************)
WithoutLeadingZeros(s) ==
    SubSeq(s, 1 + Cardinality({i \in DOMAIN s : \A j \in 1 .. i : s[j] = 0}), Len(s))

WithoutTrailingZeros(s) == Reverse(WithoutLeadingZeros(Reverse(s)))

parseDecimal(raw) ==
    LET int  == WithoutLeadingZeros(raw.int)
        frac == WithoutTrailingZeros(raw.frac)
    IN  [neg |-> raw.neg /\ ~(int = <<>> /\ frac = <<>>), int |-> int, frac |-> frac]

\* String comparison of two digit strings of one length.
DigitsBefore(s, t) ==
    \E i \in DOMAIN s : s[i] < t[i] /\ \A j \in 1 .. (i - 1) : s[j] = t[j]

PadEnd(s, width) == [i \in 1 .. width |-> IF i <= Len(s) THEN s[i] ELSE 0]

\* -1, 0 or 1, decided by the length of the integer part, then its digits,
\* then the digits of the padded fraction.
compareMagnitude(l, r) ==
    LET width == IF Len(l.frac) > Len(r.frac) THEN Len(l.frac) ELSE Len(r.frac)
        lf    == PadEnd(l.frac, width)
        rf    == PadEnd(r.frac, width)
    IN  IF Len(l.int) # Len(r.int) THEN IF Len(l.int) < Len(r.int) THEN -1 ELSE 1
        ELSE IF l.int # r.int THEN IF DigitsBefore(l.int, r.int) THEN -1 ELSE 1
        ELSE IF lf = rf THEN 0
        ELSE IF DigitsBefore(lf, rf) THEN -1 ELSE 1

compareNumericStrings(a, b) ==
    LET l == parseDecimal(a)
        r == parseDecimal(b)
    IN  IF l.neg # r.neg THEN IF l.neg THEN -1 ELSE 1
        ELSE compareMagnitude(l, r) * (IF l.neg THEN -1 ELSE 1)

(***************************************************************************)
(* kline-rules.ts and kline-mapper.ts                                      *)
(***************************************************************************)
isAlignedToInterval(open, ms) == open % ms = 0

HasIssue(row) ==
    \/ row.interval \notin DOMAIN IntervalMs
    \/ ~isAlignedToInterval(row.open, IntervalMs[row.interval])
    \/ row.close <= row.open

\* assertValidKlines: one bad row refuses the batch.
ValidBatch(rows) == \A i \in DOMAIN rows : ~HasIssue(rows[i])

klineConflictKey(row) == <<row.interval, row.open>>

\* The batch rule: the trade count decides, the volume breaks a tie.
isAtLeastAsComplete(candidate, baseline) ==
    IF candidate.count # baseline.count
    THEN candidate.count > baseline.count
    ELSE candidate.volume >= baseline.volume

pickMoreCompleteKline(current, incoming) ==
    IF isAtLeastAsComplete(incoming, current) THEN incoming ELSE current

(***************************************************************************)
(* dedupe.ts: one row per key, at the place of the key's first row, as a   *)
(* JavaScript Map keeps it.                                                *)
(***************************************************************************)
KeepWinner(folded, row) ==
    LET same == {i \in DOMAIN folded : klineConflictKey(folded[i]) = klineConflictKey(row)}
    IN  IF same = {} THEN Append(folded, row)
        ELSE [i \in DOMAIN folded |-> IF i \in same THEN pickMoreCompleteKline(folded[i], row) ELSE folded[i]]

dedupeBy(rows) == FoldLeft(KeepWinner, <<>>, rows)

(***************************************************************************)
(* chunk.ts.  calcChunkSize throws, here 0, where no row fits.             *)
(***************************************************************************)
calcChunkSize(columns, maxParams, reserve, maxRows) ==
    LET usable   == maxParams - reserve
        byParams == IF usable < 0 THEN 0 ELSE usable \div columns
    IN  IF byParams < maxRows THEN byParams ELSE maxRows

chunkRows(rows, size) ==
    [c \in 1 .. ((Len(rows) + size - 1) \div size) |->
        SubSeq(rows, (c - 1) * size + 1, IF c * size < Len(rows) THEN c * size ELSE Len(rows))]

(***************************************************************************)
(* upsertMany                                                              *)
(***************************************************************************)
\* Mutant: DO UPDATE without its WHERE.
MayReplaceAlways(excluded, stored) == TRUE

\* setWhere of the upsert: both numbers at least as large.
MayReplace(excluded, stored) == excluded.count >= stored.count /\ excluded.volume >= stored.volume

StoredUnder(table, row) == {s \in table : klineConflictKey(s) = klineConflictKey(row)}

\* One INSERT ... ON CONFLICT DO UPDATE.  PostgreSQL refuses a statement that
\* meets a key twice.
MeetsKeyTwice(chunk) ==
    \E i, j \in DOMAIN chunk : i # j /\ klineConflictKey(chunk[i]) = klineConflictKey(chunk[j])

Inserted(table, row) ==
    IF \E s \in StoredUnder(table, row) : ~MayReplace(row, s)
    THEN table
    ELSE (table \ StoredUnder(table, row)) \union {row}

InsertChunk(acc, chunk) ==
    IF acc.failed \/ MeetsKeyTwice(chunk)
    THEN [acc EXCEPT !.failed = TRUE]
    ELSE [acc EXCEPT !.table = FoldLeft(Inserted, @, chunk)]

\* The table after upsertMany, and whether it threw.  reach is the number of
\* statements that get through to the database; the statements of a batch are
\* not a transaction.
upsertMany(table, rows, size, reach) ==
    LET chunks == chunkRows(dedupeBy(rows), size)
        sent   == SubSeq(chunks, 1, IF reach < Len(chunks) THEN reach ELSE Len(chunks))
        after  == FoldLeft(InsertChunk, [table |-> table, failed |-> FALSE], sent)
    IN  IF ~ValidBatch(rows) THEN [table |-> table, failed |-> TRUE]
        ELSE [after EXCEPT !.failed = @ \/ reach < Len(chunks)]
==============================================================================
