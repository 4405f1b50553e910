---------------------------- MODULE RateLimiter ------------------------------
(***************************************************************************)
(* BinanceRateLimiter: the sliding window of request weights, the global   *)
(* pause after a 429 and the ban after a 418.                              *)
(* (src/backend/src/binance/rate-limiter.ts)                               *)
(*                                                                         *)
(* Time is counted in ticks and only differences matter, so the state is   *)
(* relative to now: used[a] is the weight of the entries that are a ticks  *)
(* old, and entries as old as the window are gone (prune).  MIN_WAIT_MS is *)
(* below one tick.                                                         *)
(***************************************************************************)
EXTENDS Integers

CONSTANTS
    Budget,          \* budgetPerMin
    Window           \* windowMs, in ticks

ASSUME LimiterAssumption == Budget \in Nat \ {0} /\ Window \in Nat \ {0}

VARIABLES
    used,            \* weight recorded in the window, by age
    pauseLeft,       \* pausedUntil - now, never below 0
    banned

limiterVars == <<used, pauseLeft, banned>>

Ages == 0 .. (Window - 1)

\* The weight of the n youngest ages, for every n.
Youngest(weights) ==
    LET sum[n \in 0 .. Window] == IF n = 0 THEN 0 ELSE sum[n - 1] + weights[n - 1]
    IN  sum

Total(weights) == Youngest(weights)[Window]

\* A window one tick later.
Aged(weights) == [a \in Ages |-> IF a = 0 THEN 0 ELSE weights[a - 1]]

With(weights, w) == [weights EXCEPT ![0] = @ + w]

usedWeight == Total(used)

LimiterInit ==
    /\ used = [a \in Ages |-> 0]
    /\ pauseLeft = 0
    /\ banned = FALSE

\* Mutant: room is tested without the weight that is asked for.
VerdictIgnoresWeight(weight) ==
    CASE banned                -> "banned"
      [] ~banned /\ pauseLeft > 0 -> "paused"
      [] ~banned /\ pauseLeft = 0 /\ usedWeight < Budget -> "granted"
      [] OTHER                 -> "full"

\* One turn of the loop of acquire, on the state it finds.
Verdict(weight) ==
    CASE banned                -> "banned"
      [] ~banned /\ pauseLeft > 0 -> "paused"
      [] ~banned /\ pauseLeft = 0 /\ usedWeight + weight <= Budget -> "granted"
      [] OTHER                 -> "full"

\* The ticks until the oldest entry leaves the window.
UntilOldestLeaves ==
    CHOOSE t \in 1 .. Window :
        /\ used[Window - t] > 0
        /\ \A a \in Ages : a > Window - t => used[a] = 0

\* How long a turn that was not granted sleeps.
WaitFor(verdict) == IF verdict = "paused" THEN pauseLeft ELSE UntilOldestLeaves

Grant(weight) ==
    /\ used' = With(used, weight)
    /\ UNCHANGED <<pauseLeft, banned>>

\* The window after the server reported its own count.
syncServerUsedWeight(report) ==
    IF report > usedWeight THEN With(used, report - usedWeight) ELSE used

\* Mutant: a later, shorter Retry-After cuts the pause short.
applyRetryAfterOverwrites(ticks) == ticks

\* The pause after a 429: never shorter than the one under way.
applyRetryAfter(ticks) == IF ticks > pauseLeft THEN ticks ELSE pauseLeft

\* markBanned, for good.
markBanned == banned' = TRUE

LimiterTick ==
    /\ used' = Aged(used)
    /\ pauseLeft' = IF pauseLeft > 0 THEN pauseLeft - 1 ELSE 0
    /\ UNCHANGED banned
==============================================================================
