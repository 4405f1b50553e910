-------------------------- MODULE MCBackfillEngine ---------------------------
(* Instances of BackfillEngine for TLC. *)
EXTENDS BackfillEngine, TLC

CONSTANTS s1, s2, c1, c2

OneSymbol == {s1}
TwoSymbols == {s1, s2}
OneCall == {c1}
TwoCalls == {c1, c2}

\* An empty table, and one whose hole splits the window into two runs.
HoleyStores == {{}, {1}}

AllFaults == FaultKinds \ {"lostAck"}

\* Faults after which every row with a lane is still settled.
SettlingFaults == {"plan", "detect", "markRunning", "attempt", "markSucceeded"}

\* Everything may fail but the write that settles a failed job.
NoMarkFailedFault == FaultKinds \ {"markFailed"}

\* REST has every closed candle.
FullExchange == 0 .. (Now - 1)

Symmetry == Permutations(Calls)
==============================================================================
