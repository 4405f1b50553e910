---------------------------- MODULE MCRestClient -----------------------------
(* Instances of RestClient for TLC. *)
EXTENDS RestClient

CONSTANTS k1, k2

TwoCallers == {k1, k2}
==============================================================================
