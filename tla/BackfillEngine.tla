--------------------------- MODULE BackfillEngine ----------------------------
(***************************************************************************)
(* The backfill engine: BackfillService.runWindow and the calls that enter *)
(* it (startup bootstrap, periodic gap scan, forced repair of a downtime   *)
(* window, manual request), the reservation of ranges in flight, the rows  *)
(* of backfill_jobs, and the lanes that run the jobs with their retries.   *)
(* (src/backend/src/backfill/backfill.service.ts, backfill-runner.ts,      *)
(* async-util.ts, db/repositories/backfill-job.repository.ts)              *)
(*                                                                         *)
(* One Node process runs every call.  A step of the model is what the code *)
(* runs between two awaits, so a call can be overtaken by others exactly   *)
(* where it awaits the database, REST or a sleep.  What is abstracted:     *)
(*   - a candle is its index and a stored candle is present or absent      *)
(*     (gap detection looks at nothing else);                              *)
(*   - the pages of one attempt are one step, which may stop after any     *)
(*     prefix of the range;                                                *)
(*   - the clock stands at Now: candles below Now are closed;              *)
(*   - a call slot of Calls serves one call, so Calls bounds their number. *)
(***************************************************************************)
EXTENDS CandleRanges, FiniteSets

CONSTANTS
    Symbols,         \* the collected symbols
    Calls,           \* slots for calls into the engine
    Now,             \* index of the forming candle
    Horizon,         \* bound: a manual request may end up to here
    Lookback,        \* GAP_SCAN_LOOKBACK_HOURS, in candles
    Grace,           \* GAP_SCAN_GRACE_CANDLES
    Depth,           \* BOOTSTRAP_BACKFILL_DAYS, in candles
    MaxAttempts,     \* MAX_JOB_ATTEMPTS
    Concurrency,     \* JOB_CONCURRENCY
    Kinds,           \* the kinds of call this instance makes
    InitialStores,   \* what a symbol's table may hold at the start
    Exchange,        \* the closed candles REST can serve
    Faults           \* the operations that may fail

CallKinds == {"bootstrap", "scan", "manual", "repair"}

\* "lostAck": markSucceeded is applied but its caller sees an error.
FaultKinds == {"plan", "detect", "create", "markRunning", "attempt",
               "markSucceeded", "lostAck", "markFailed", "record"}

ASSUME EngineAssumption ==
    /\ Symbols # {}
    /\ Now \in Nat /\ Horizon \in Nat /\ Now <= Horizon
    /\ Lookback \in Nat \ {0} /\ Grace \in Nat /\ Depth \in Nat
    /\ Lookback + Grace <= Now /\ Depth <= Now
    /\ MaxAttempts \in Nat \ {0}
    /\ Concurrency \in Nat \ {0}
    /\ Kinds \subseteq CallKinds
    /\ Faults \subseteq FaultKinds
    /\ Exchange \subseteq 0 .. (Now - 1)
    /\ InitialStores \subseteq SUBSET (0 .. Now)

Candles == 0 .. Now

\* Half-open ranges of candles.
Ranges == {r \in [start : 0 .. Horizon, end : 0 .. Horizon] : r.start < r.end}

\* A row of backfill_jobs is identified by the call that made it.
JobIds == Calls \X Symbols \X Ranges
CallOf(id) == id[1]
SymbolOf(id) == id[2]
RangeOf(id) == id[3]

VARIABLES
    stored,         \* open times present in klines, per symbol
    isEngineBusy,   \* guards bootstrap and scan against re-entry
    inFlight,       \* reserved ranges per symbol, each with the call that owns it
    call,           \* the calls and where they are
    job,            \* rows of backfill_jobs
    worker          \* the runJob invocations of the lanes

vars == <<stored, isEngineBusy, inFlight, call, job, worker>>

Idle == [pc |-> "new", kind |-> "none", sym |-> CHOOSE s \in Symbols : TRUE,
         todo |-> {}, win |-> [start |-> 0, end |-> 1], gaps |-> {}, pending |-> {}]

Init ==
    /\ stored \in [Symbols -> InitialStores]
    /\ isEngineBusy = FALSE
    /\ inFlight = [s \in Symbols |-> {}]
    /\ call = [c \in Calls |-> Idle]
    /\ job = <<>>
    /\ worker = <<>>

-----------------------------------------------------------------------------
\* Entering the engine

EngineKinds == {"bootstrap", "scan"}

ScanWindow == [start |-> Now - Grace - Lookback, end |-> Now - Grace]

\* Where a call stands when the service turns to symbol s.
Entered(kind, s, todo, win) ==
    [pc |-> IF kind = "bootstrap" THEN "plan" ELSE "detect", kind |-> kind,
     sym |-> s, todo |-> todo, win |-> win, gaps |-> {}, pending |-> {}]

\* bootstrap() and recoverGaps(): turned away while the engine is busy.
StartEngine(c, kind) ==
    /\ kind \in Kinds
    /\ call[c].pc = "new"
    /\ kind = "bootstrap" => \A d \in Calls : call[d].pc = "new"
    /\ ~isEngineBusy
    /\ isEngineBusy' = TRUE
    /\ \E s \in Symbols :
           call' = [call EXCEPT ![c] = Entered(kind, s, Symbols \ {s}, ScanWindow)]
    /\ UNCHANGED <<stored, inFlight, job, worker>>

\* runManual() after validation: any window aligned to candles.
StartManual(c, s, win) ==
    /\ "manual" \in Kinds
    /\ call[c].pc = "new"
    /\ call' = [call EXCEPT ![c] = Entered("manual", s, {}, win)]
    /\ UNCHANGED <<stored, isEngineBusy, inFlight, job, worker>>

\* The live stream stores the forming candle.
StreamStores(s) ==
    /\ Now \notin stored[s]
    /\ stored' = [stored EXCEPT ![s] = @ \union {Now}]
    /\ UNCHANGED <<isEngineBusy, inFlight, call, job, worker>>

-----------------------------------------------------------------------------
\* Leaving runWindow

\* untrackRanges: a call removes its own reservations.
Untracked(c) ==
    [inFlight EXCEPT ![call[c].sym] = {e \in @ : e.owner # c}]

\* What a call does once runWindow returned or threw: the engine kinds go on
\* with the next symbol or leave, a manual call that made no job records one.
MovesOn(c, records) ==
    IF call[c].kind \in EngineKinds /\ call[c].todo # {}
    THEN /\ \E s \in call[c].todo :
              call' = [call EXCEPT ![c] = Entered(call[c].kind, s, call[c].todo \ {s}, ScanWindow)]
         /\ UNCHANGED isEngineBusy
    ELSE /\ call' = [call EXCEPT ![c].pc = IF records THEN "record" ELSE "done",
                                 ![c].pending = {}]
         /\ isEngineBusy' = (isEngineBusy /\ call[c].kind \notin EngineKinds)

\* The finally block of runWindow, then the caller.
LeavesWindow(c, records) ==
    /\ inFlight' = Untracked(c)
    /\ MovesOn(c, records)

-----------------------------------------------------------------------------
\* Detection, reservation, creation

\* latestOpenTime and earliestOpenTime of a table S.
IsLatest(m, S) == IF S = {} THEN m = NoOpenTime ELSE m \in S /\ \A n \in S : n <= m
IsEarliest(m, S) == IF S = {} THEN m = NoOpenTime ELSE m \in S /\ \A n \in S : m <= n

\* bootstrapSymbol: the plan read is answered.
ResolvePlan(c) ==
    /\ call[c].pc = "plan"
    /\ \E latest, earliest \in Candles \union {NoOpenTime} :
         LET S    == stored[call[c].sym]
             plan == resolveStartupPlan(latest, earliest, Now, Depth)
         IN  /\ IsLatest(latest, S) /\ IsEarliest(earliest, S)
             /\ IF plan.start >= plan.end
                THEN MovesOn(c, FALSE)
                ELSE /\ call' = [call EXCEPT ![c].pc = "detect", ![c].win = plan]
                     /\ UNCHANGED isEngineBusy
    /\ UNCHANGED <<stored, inFlight, job, worker>>

ResolvePlanFails(c) ==
    /\ "plan" \in Faults
    /\ call[c].pc = "plan"
    /\ MovesOn(c, FALSE)
    /\ UNCHANGED <<stored, inFlight, job, worker>>

\* What detectGaps answers for a window: closed candles only.
MissingIn(win, S) ==
    (win.start .. (capEndToClosedCandles(win.end, Now, 1) - 1)) \ S

\* The SELECT of detectGaps is answered; the call resumes in Reserve.
DetectGaps(c) ==
    /\ call[c].pc = "detect"
    /\ call' = [call EXCEPT ![c].pc = "reserve",
                            ![c].gaps = GapRanges(MissingIn(call[c].win, stored[call[c].sym]))]
    /\ UNCHANGED <<stored, isEngineBusy, inFlight, job, worker>>

DetectFails(c) ==
    /\ "detect" \in Faults
    /\ call[c].pc = "detect"
    /\ MovesOn(c, FALSE)
    /\ UNCHANGED <<stored, inFlight, job, worker>>

\* Mutant: only an identical range counts as in flight.
RunnableUnlessEqual(s, gaps) ==
    {g \in gaps : \A e \in inFlight[s] : e.range # g}

\* splitByInFlight
Runnable(s, gaps) ==
    {g \in gaps : \A e \in inFlight[s] : ~rangesOverlap(e.range, g)}

\* trackRanges
Tracked(c, s, ranges) ==
    [inFlight EXCEPT ![s] = @ \union {[owner |-> c, range |-> r] : r \in ranges}]

\* runWindow after the await: split and reserve without yielding.
Reserve(c) ==
    LET s        == call[c].sym
        runnable == Runnable(s, call[c].gaps)
    IN  /\ call[c].pc = "reserve"
        /\ IF runnable = {}
           THEN LeavesWindow(c, call[c].kind = "manual")
           ELSE /\ inFlight' = Tracked(c, s, runnable)
                /\ call' = [call EXCEPT ![c].pc = "create", ![c].pending = runnable]
                /\ UNCHANGED isEngineBusy
        /\ UNCHANGED <<stored, job, worker>>

\* repairDowntimeWindow: force mode reserves the whole window at once.
StartRepair(c, s, win) ==
    LET runnable == Runnable(s, {win})
    IN  /\ "repair" \in Kinds
        /\ call[c].pc = "new"
        /\ win.end <= Now
        /\ inFlight' = Tracked(c, s, runnable)
        /\ call' = [call EXCEPT ![c] =
              [Idle EXCEPT !.pc = IF runnable = {} THEN "done" ELSE "create",
                           !.kind = "repair", !.sym = s, !.win = win,
                           !.gaps = {win}, !.pending = runnable]]
        /\ UNCHANGED <<stored, isEngineBusy, job, worker>>

JobsOf(c, s) == {id \in DOMAIN job : CallOf(id) = c /\ SymbolOf(id) = s}

NewRow == [status |-> "pending", attempts |-> 0]

NewWorker(pc) == [pc |-> pc, attempt |-> 1]

Rank(ids, id) == Cardinality({i \in ids : RangeOf(i).start < RangeOf(id).start})

\* The jobs runWithConcurrency starts with: one per lane, in order of time.
FirstInLanes(ids) == {id \in ids : Rank(ids, id) < Concurrency}

\* One turn of the loop of createJobs.  After the last row runWithConcurrency
\* starts its lanes at once.
CreateJob(c) ==
    LET s == call[c].sym IN
    /\ call[c].pc = "create"
    /\ \E r \in call[c].pending :
         LET rest == call[c].pending \ {r}
             ids  == JobsOf(c, s) \union {<<c, s, r>>}
         IN  /\ \A q \in rest : r.start <= q.start
             /\ job' = [id \in DOMAIN job \union {<<c, s, r>>} |->
                          IF id = <<c, s, r>> THEN NewRow ELSE job[id]]
             /\ call' = [call EXCEPT ![c].pc = IF rest = {} THEN "run" ELSE "create",
                                     ![c].pending = rest]
             /\ IF rest = {}
                THEN worker' = [id \in DOMAIN worker \union ids |->
                        IF id \notin ids THEN worker[id]
                        ELSE NewWorker(IF id \in FirstInLanes(ids) THEN "markRunning" ELSE "queued")]
                ELSE UNCHANGED worker
    /\ UNCHANGED <<stored, isEngineBusy, inFlight>>

\* Mutant: the ranges are tracked outside the try block.
CreateFailsTracked(c) ==
    /\ "create" \in Faults
    /\ call[c].pc = "create"
    /\ MovesOn(c, FALSE)
    /\ UNCHANGED <<stored, inFlight, job, worker>>

\* The insert fails: rows created so far stay pending and have no lane.
CreateFails(c) ==
    /\ "create" \in Faults
    /\ call[c].pc = "create"
    /\ LeavesWindow(c, FALSE)
    /\ UNCHANGED <<stored, job, worker>>

-----------------------------------------------------------------------------
\* The lanes: runJob

Peers(id) == {i \in DOMAIN worker : CallOf(i) = CallOf(id) /\ SymbolOf(i) = SymbolOf(id)}

\* Mutant: the lane ends with its first job.
LaneTakesNone(id, w) == w

\* A lane that returned takes the next job of its window, if there is one.
LaneTakesNext(id, w) ==
    LET queue == {i \in Peers(id) : w[i].pc = "queued"}
        next  == {i \in queue : \A j \in queue : RangeOf(i).start <= RangeOf(j).start}
    IN  [i \in DOMAIN w |-> IF i \in next THEN [w[i] EXCEPT !.pc = "markRunning"] ELSE w[i]]

\* The call still waits for the lanes of this job.
Awaited(id) == call[CallOf(id)].pc = "run" /\ call[CallOf(id)].sym = SymbolOf(id)

\* Mutant: the window ends with the first lane that returns.
RunJobReturnsFirst(id) ==
    /\ worker' = LaneTakesNext(id, [worker EXCEPT ![id].pc = "returned"])
    /\ IF Awaited(id) THEN LeavesWindow(CallOf(id), FALSE)
                       ELSE UNCHANGED <<inFlight, call, isEngineBusy>>

\* runJob returns a result: the lane goes on; the last one ends the window.
RunJobReturns(id) ==
    LET w == LaneTakesNext(id, [worker EXCEPT ![id].pc = "returned"])
    IN  /\ worker' = w
        /\ IF Awaited(id) /\ \A i \in Peers(id) : w[i].pc = "returned"
           THEN LeavesWindow(CallOf(id), FALSE)
           ELSE UNCHANGED <<inFlight, call, isEngineBusy>>

\* Mutant: one attempt too many.
AttemptFailsLate(id) ==
    worker' = [worker EXCEPT ![id].pc =
                  IF worker[id].attempt <= MaxAttempts THEN "sleep" ELSE "markFailed"]

\* The catch block of runJob.
AttemptFails(id) ==
    worker' = [worker EXCEPT ![id].pc =
                  IF worker[id].attempt < MaxAttempts THEN "sleep" ELSE "markFailed"]

MarkRunning(id) ==
    /\ worker[id].pc = "markRunning"
    /\ job' = [job EXCEPT ![id] = [status |-> "running", attempts |-> @.attempts + 1]]
    /\ worker' = [worker EXCEPT ![id].pc = "attempt"]
    /\ UNCHANGED <<stored, isEngineBusy, inFlight, call>>

MarkRunningFails(id) ==
    /\ "markRunning" \in Faults
    /\ worker[id].pc = "markRunning"
    /\ AttemptFails(id)
    /\ UNCHANGED <<stored, isEngineBusy, inFlight, call, job>>

\* The candles an attempt can write: closed ones REST has.
Fetchable(r) ==
    {m \in CandlesOf(r) : m < capEndToClosedCandles(r.end, Now, 1)} \intersect Exchange

\* Every page is fetched and upserted.
AttemptWrites(id) ==
    /\ worker[id].pc = "attempt"
    /\ stored' = [stored EXCEPT ![SymbolOf(id)] = @ \union Fetchable(RangeOf(id))]
    /\ worker' = [worker EXCEPT ![id].pc = "markSucceeded"]
    /\ UNCHANGED <<isEngineBusy, inFlight, call, job>>

\* Mutant: a failed page ends the attempt as if it were complete.
AttemptBreaksSilently(id, upTo) ==
    /\ "attempt" \in Faults
    /\ worker[id].pc = "attempt"
    /\ upTo \in RangeOf(id).start .. RangeOf(id).end
    /\ stored' = [stored EXCEPT ![SymbolOf(id)] =
                     @ \union {m \in Fetchable(RangeOf(id)) : m < upTo}]
    /\ worker' = [worker EXCEPT ![id].pc = "markSucceeded"]
    /\ UNCHANGED <<isEngineBusy, inFlight, call, job>>

\* A page fails; those before it are stored, and so may be its own rows when
\* only the answer to its upsert is lost.
AttemptBreaks(id, upTo) ==
    /\ "attempt" \in Faults
    /\ worker[id].pc = "attempt"
    /\ upTo \in RangeOf(id).start .. RangeOf(id).end
    /\ stored' = [stored EXCEPT ![SymbolOf(id)] =
                     @ \union {m \in Fetchable(RangeOf(id)) : m < upTo}]
    /\ AttemptFails(id)
    /\ UNCHANGED <<isEngineBusy, inFlight, call, job>>

MarkSucceeded(id) ==
    /\ worker[id].pc = "markSucceeded"
    /\ job' = [job EXCEPT ![id].status = "succeeded"]
    /\ RunJobReturns(id)
    /\ UNCHANGED stored

\* markSucceeded throws inside the try: the attempt counts as failed.
MarkSucceededFails(id) ==
    /\ worker[id].pc = "markSucceeded"
    /\ \/ "markSucceeded" \in Faults /\ UNCHANGED job
       \/ "lostAck" \in Faults /\ job' = [job EXCEPT ![id].status = "succeeded"]
    /\ AttemptFails(id)
    /\ UNCHANGED <<stored, isEngineBusy, inFlight, call>>

\* The pause before the next attempt is over.
RetryJob(id) ==
    /\ worker[id].pc = "sleep"
    /\ worker' = [worker EXCEPT ![id] = [pc |-> "markRunning", attempt |-> @.attempt + 1]]
    /\ UNCHANGED <<stored, isEngineBusy, inFlight, call, job>>

MarkFailed(id) ==
    /\ worker[id].pc = "markFailed"
    /\ job' = [job EXCEPT ![id].status = "failed"]
    /\ RunJobReturns(id)
    /\ UNCHANGED stored

\* markFailed throws outside the try: runJob rejects, its lane ends and
\* Promise.all rejects at once, while the other lane keeps running.
MarkFailedFails(id) ==
    /\ "markFailed" \in Faults
    /\ worker[id].pc = "markFailed"
    /\ worker' = [worker EXCEPT ![id].pc = "threw"]
    /\ IF Awaited(id)
       THEN LeavesWindow(CallOf(id), FALSE)
       ELSE UNCHANGED <<inFlight, call, isEngineBusy>>
    /\ UNCHANGED <<stored, job>>

-----------------------------------------------------------------------------
\* enqueueManual without a job: a 0-row job is recorded in three writes

RecordId(c) == <<c, call[c].sym, call[c].win>>

RecordCreate(c) ==
    /\ call[c].pc = "record"
    /\ job' = [id \in DOMAIN job \union {RecordId(c)} |->
                 IF id = RecordId(c) THEN NewRow ELSE job[id]]
    /\ call' = [call EXCEPT ![c].pc = "recordRunning"]
    /\ UNCHANGED <<stored, isEngineBusy, inFlight, worker>>

RecordRunning(c) ==
    /\ call[c].pc = "recordRunning"
    /\ job' = [job EXCEPT ![RecordId(c)] = [status |-> "running", attempts |-> 1]]
    /\ call' = [call EXCEPT ![c].pc = "recordSucceeded"]
    /\ UNCHANGED <<stored, isEngineBusy, inFlight, worker>>

RecordSucceeded(c) ==
    /\ call[c].pc = "recordSucceeded"
    /\ job' = [job EXCEPT ![RecordId(c)].status = "succeeded"]
    /\ call' = [call EXCEPT ![c].pc = "done"]
    /\ UNCHANGED <<stored, isEngineBusy, inFlight, worker>>

RecordFails(c) ==
    /\ "record" \in Faults
    /\ call[c].pc \in {"record", "recordRunning", "recordSucceeded"}
    /\ call' = [call EXCEPT ![c].pc = "done"]
    /\ UNCHANGED <<stored, isEngineBusy, inFlight, job, worker>>

-----------------------------------------------------------------------------
CallSteps(c) ==
    \/ ResolvePlan(c) \/ ResolvePlanFails(c)
    \/ DetectGaps(c) \/ DetectFails(c)
    \/ Reserve(c)
    \/ CreateJob(c) \/ CreateFails(c)
    \/ RecordCreate(c) \/ RecordRunning(c) \/ RecordSucceeded(c) \/ RecordFails(c)

WorkerSteps(id) ==
    \/ MarkRunning(id) \/ MarkRunningFails(id)
    \/ AttemptWrites(id)
    \/ \E m \in Candles : AttemptBreaks(id, m)
    \/ MarkSucceeded(id) \/ MarkSucceededFails(id)
    \/ RetryJob(id)
    \/ MarkFailed(id) \/ MarkFailedFails(id)

Starts(c) ==
    \/ \E kind \in EngineKinds : StartEngine(c, kind)
    \/ \E s \in Symbols, win \in Ranges : StartManual(c, s, win) \/ StartRepair(c, s, win)

Next ==
    \/ \E c \in Calls : Starts(c) \/ CallSteps(c)
    \/ \E id \in DOMAIN worker : WorkerSteps(id)
    \/ \E s \in Symbols : StreamStores(s)

\* Every await is answered in the end: database, REST and timers settle each
\* operation they were given, with a result or an error.
Fairness ==
    /\ \A c \in Calls : WF_vars(CallSteps(c))
    /\ \A id \in JobIds : WF_vars(id \in DOMAIN worker /\ WorkerSteps(id))

Spec == Init /\ [][Next]_vars /\ Fairness

-----------------------------------------------------------------------------
CallPcs == {"new", "plan", "detect", "reserve", "create", "run",
            "record", "recordRunning", "recordSucceeded", "done"}

WorkerPcs == {"queued", "markRunning", "attempt", "markSucceeded", "sleep",
              "markFailed", "returned", "threw"}

JobRow == [status : {"pending", "running", "succeeded", "failed"}, attempts : Nat]

TypeOK ==
    /\ stored \in [Symbols -> SUBSET Candles]
    /\ isEngineBusy \in BOOLEAN
    /\ inFlight \in [Symbols -> SUBSET [owner : Calls, range : Ranges]]
    /\ call \in [Calls -> [pc : CallPcs, kind : CallKinds \union {"none"}, sym : Symbols,
                           todo : SUBSET Symbols, win : Ranges,
                           gaps : SUBSET Ranges, pending : SUBSET Ranges]]
    /\ DOMAIN job \subseteq JobIds
    /\ job \in [DOMAIN job -> JobRow]
    /\ DOMAIN worker \subseteq DOMAIN job
    /\ worker \in [DOMAIN worker -> [pc : WorkerPcs, attempt : Nat]]

\* Ranges in flight for one symbol never overlap, whichever calls reserved
\* them: a gap list read before another call reserved or wrote must not let
\* the same candles be reserved twice (inFlightRanges, splitByInFlight).
InFlightDisjoint ==
    \A s \in Symbols : \A e, f \in inFlight[s] :
        e # f => ~rangesOverlap(e.range, f.range)

\* A call that has left runWindow, on whatever path, holds no reservation:
\* one leaked range would be skipped by every later scan (the finally block).
ReservationsReleased ==
    \A s \in Symbols : \A e \in inFlight[s] :
        /\ call[e.owner].pc \in {"create", "run"}
        /\ call[e.owner].sym = s

Live(id) == worker[id].pc \notin {"queued", "returned", "threw"}

\* Two jobs at work on the same symbol never cover the same candle
\* ("prevents duplicate jobs over the same range", backfill.service.ts:68).
LiveJobsDisjoint ==
    \A i, j \in DOMAIN worker :
        i # j /\ Live(i) /\ Live(j) /\ SymbolOf(i) = SymbolOf(j)
            => ~rangesOverlap(RangeOf(i), RangeOf(j))

\* A job that a lane marked succeeded has all its candles in the table, as
\* far as REST has them: retries and partial pages never skip any.
SucceededMeansStored ==
    \A id \in DOMAIN worker :
        job[id].status = "succeeded" => Fetchable(RangeOf(id)) \subseteq stored[SymbolOf(id)]

\* The inductive invariant behind the three disjointness properties.
GapsApart ==
    \A c \in Calls : \A g, h \in call[c].gaps : g # h => ~rangesOverlap(g, h)

Reserved(id) == [owner |-> CallOf(id), range |-> RangeOf(id)] \in inFlight[SymbolOf(id)]

\* A job that still has a lane to come or a step to take.
Unfinished(id) == worker[id].pc \notin {"returned", "threw"}

\* A call makes the rows of a symbol only after it reserved their ranges.
RowsFollowReservation ==
    /\ \A c \in Calls :
         /\ call[c].sym \notin call[c].todo
         /\ call[c].pc = "create" =>
               /\ \A r \in call[c].pending : Reserved(<<c, call[c].sym, r>>)
               /\ \A id \in JobsOf(c, call[c].sym) : Reserved(id)
    /\ \A id \in DOMAIN job :
         /\ SymbolOf(id) \notin call[CallOf(id)].todo
         /\ call[CallOf(id)].pc # "new"
         /\ call[CallOf(id)].sym = SymbolOf(id)
               => call[CallOf(id)].pc \notin {"plan", "detect", "reserve"}

\* While a job is unfinished its call waits for it and holds its range.  It
\* holds as long as markFailed does not throw.
UnfinishedJobsReserved ==
    \A id \in DOMAIN worker : Unfinished(id) => Awaited(id) /\ Reserved(id)

ReservationInv ==
    /\ GapsApart
    /\ ReservationsReleased
    /\ InFlightDisjoint

LiveJobsInv == RowsFollowReservation /\ UnfinishedJobsReserved

\* Every row is settled in the end, succeeded or failed, unless the write that
\* creates it or the one that settles it fails (runJob, runWithConcurrency).
JobsSettle ==
    \A id \in JobIds :
        id \in DOMAIN job ~> (id \in DOMAIN job /\ job[id].status \in {"succeeded", "failed"})

\* The engine never stays busy for ever, whatever fails (the finally blocks
\* of bootstrap and recoverGaps).
EngineReleased == isEngineBusy ~> ~isEngineBusy

\* The row of a job as a caller of the repository may see it change.
Jobs == INSTANCE JobLifecycle WITH
            Ids <- JobIds,
            status <- [id \in JobIds |-> IF id \in DOMAIN job THEN job[id].status ELSE "none"],
            attempts <- [id \in JobIds |-> IF id \in DOMAIN job THEN job[id].attempts ELSE 0]
JobLifecycleSpec == Jobs!Spec

\* Nothing hangs: the engine is released and every row of backfill_jobs settled,
\* whichever of the tolerated failures strike.
EverythingSettles == EngineReleased /\ JobsSettle
==============================================================================
