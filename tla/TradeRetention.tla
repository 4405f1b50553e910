--------------------------- MODULE TradeRetention ----------------------------
(***************************************************************************)
(* The daily purge of old trades, as functions on the state of the         *)
(* service: the purge at startup or at 4 am, its DELETE, which may take    *)
(* long or fail, and the trades that are stored meanwhile.                 *)
(* (src/backend/src/ingest/trade-retention.service.ts,                     *)
(* db/repositories/trade.repository.ts)                                    *)
(*                                                                         *)
(* A trade is its time, in days.  cutoff is that of the purge under way,   *)
(* NoPurge when there is none.                                             *)
(***************************************************************************)
EXTENDS Integers

CONSTANT RetentionDays

ASSUME RetentionAssumption == RetentionDays \in Nat

\* Before every trade and every cutoff of a purge.
NoPurge == -RetentionDays - 2

Started == [now |-> 0, trades |-> {}, isPurging |-> FALSE, cutoff |-> NoPurge]

\* insertManyIgnoreConflict of a trade that is at most one day late.
Store(s, late) == [s EXCEPT !.trades = @ \union {s.now - late}]

\* purge of onApplicationBootstrap and of the cron job; skipped while one runs.
Purge(s) ==
    IF s.isPurging THEN s
    ELSE [s EXCEPT !.isPurging = TRUE, !.cutoff = s.now - RetentionDays]

\* DELETE ... WHERE trade_time < cutoff.
deleteOlderThan(trades, cutoff) == {t \in trades : t >= cutoff}

\* The DELETE is done: the flag goes down in finally.
PurgeDone(s) ==
    [s EXCEPT !.trades = deleteOlderThan(@, s.cutoff), !.isPurging = FALSE, !.cutoff = NoPurge]

\* Mutant: the flag goes down only after success.
PurgeFailsStuck(s) == [s EXCEPT !.cutoff = NoPurge]

\* The DELETE fails; the error is logged and the next day's purge tries again.
PurgeFails(s) == [s EXCEPT !.isPurging = FALSE, !.cutoff = NoPurge]
==============================================================================
