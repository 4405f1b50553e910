---------------------------- MODULE JobLifecycle -----------------------------
(***************************************************************************)
(* What a row of backfill_jobs promises its readers (the operations API    *)
(* and the dashboard): it is created pending, runs at most MaxAttempts     *)
(* times, and once succeeded or failed it never changes again.             *)
(***************************************************************************)
EXTENDS Naturals

CONSTANTS
    Ids,             \* the rows that may be created
    MaxAttempts      \* MAX_JOB_ATTEMPTS

VARIABLES
    status,          \* "none" until the row is created
    attempts         \* how often the row was set to running

vars == <<status, attempts>>

Init ==
    /\ status = [i \in Ids |-> "none"]
    /\ attempts = [i \in Ids |-> 0]

Create(i) ==
    /\ status[i] = "none"
    /\ status' = [status EXCEPT ![i] = "pending"]
    /\ UNCHANGED attempts

\* A first run or a retry.
Run(i) ==
    /\ status[i] \in {"pending", "running"}
    /\ attempts[i] < MaxAttempts
    /\ status' = [status EXCEPT ![i] = "running"]
    /\ attempts' = [attempts EXCEPT ![i] = @ + 1]

Succeed(i) ==
    /\ status[i] = "running"
    /\ status' = [status EXCEPT ![i] = "succeeded"]
    /\ UNCHANGED attempts

\* A job may fail without having run: every attempt may fail to start.
Fail(i) ==
    /\ status[i] \in {"pending", "running"}
    /\ status' = [status EXCEPT ![i] = "failed"]
    /\ UNCHANGED attempts

Next == \E i \in Ids : Create(i) \/ Run(i) \/ Succeed(i) \/ Fail(i)

Spec == Init /\ [][Next]_vars
==============================================================================
