---------------------------- MODULE MCEventStream -----------------------------
(* The health panel over a connection with short pauses: a step of one tick,  *)
(* one of two, which the jitter leaves alone, and one it moves by a tick.     *)
EXTENDS OpsFeed

MCSteps == <<1, 2, 5>>
==============================================================================
