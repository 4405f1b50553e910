--------------------------- MODULE BackfillProofs ----------------------------
(***************************************************************************)
(* The backfill, for every value of the constants: BackfillEngine, after   *)
(* it the single attempt of a job, Paginator, and at the end the client    *)
(* its pages come through, RestClient.                                     *)
(* The reservation of ranges is safe: the types; ranges in flight never    *)
(* overlap and none outlives its call; and as long as the write that       *)
(* settles a failed job does not throw, two jobs at work never cover the   *)
(* same candle.  Without that assumption this last is false (README,       *)
(* limits).                                                                *)
(* What a row of backfill_jobs says is true: a job marked succeeded has    *)
(* its candles in the table, whatever fails; and the rows implement        *)
(* JobLifecycle, as long as no write is applied whose answer is lost.      *)
(* Of RestClient, for every number of callers, any budget and any answers  *)
(* of the exchange: no request leaves while it must not, and no window is  *)
(* granted more than its budget.                                           *)
(***************************************************************************)
EXTENDS BackfillEngine, Paginator, RestClient, FiniteSetTheorems, TLAPS

-----------------------------------------------------------------------------
\* Ranges

\* What it means to be a maximal run of M.
LEMMA GapFacts ==
    ASSUME NEW M, M \subseteq Int, NEW g \in GapRanges(M)
    PROVE  /\ g = [start |-> g.start, end |-> g.end]
           /\ g.start \in Int /\ g.end \in Int /\ g.start < g.end
           /\ \A t \in Int : g.start <= t /\ t < g.end => t \in M
           /\ g.start - 1 \notin M /\ g.end \notin M
<1>1. /\ g \in [start : M, end : {m + 1 : m \in M}]
      /\ g.start < g.end
      /\ g.start .. (g.end - 1) \subseteq M
      /\ g.start - 1 \notin M /\ g.end \notin M
    BY DEF GapRanges, CandlesOf
<1>2. g = [start |-> g.start, end |-> g.end] /\ g.start \in M /\ g.end \in {m + 1 : m \in M}
    BY <1>1
<1>3. g.start \in Int /\ g.end \in Int
    BY <1>2
<1>4. ASSUME NEW t \in Int, g.start <= t, t < g.end PROVE t \in M
    BY <1>1, <1>3, <1>4
<1> QED BY <1>1, <1>2, <1>3, <1>4

\* The maximal runs of a set of candles are pairwise disjoint: the gaps of one
\* detectGaps answer never overlap.
LEMMA GapRangesDisjoint ==
    ASSUME NEW M, M \subseteq Int,
           NEW g \in GapRanges(M), NEW h \in GapRanges(M), g # h
    PROVE  ~rangesOverlap(g, h)
<1>1. /\ g = [start |-> g.start, end |-> g.end] /\ h = [start |-> h.start, end |-> h.end]
      /\ g.start \in Int /\ g.end \in Int /\ h.start \in Int /\ h.end \in Int
      /\ \A t \in Int : g.start <= t /\ t < g.end => t \in M
      /\ \A t \in Int : h.start <= t /\ t < h.end => t \in M
      /\ g.start - 1 \notin M /\ g.end \notin M
      /\ h.start - 1 \notin M /\ h.end \notin M
    BY GapFacts
<1> SUFFICES ASSUME rangesOverlap(g, h) PROVE FALSE
    OBVIOUS
<1>2. g.start < h.end /\ h.start < g.end
    BY DEF rangesOverlap
<1>3. g.start = h.start
    <2>1. ~(g.start < h.start)
        <3>1. SUFFICES ASSUME g.start < h.start PROVE h.start - 1 \in M
            BY <1>1
        <3>2. h.start - 1 \in Int /\ g.start <= h.start - 1 /\ h.start - 1 < g.end
            BY <1>1, <1>2, <3>1
        <3> QED BY <1>1, <3>2
    <2>2. ~(h.start < g.start)
        <3>1. SUFFICES ASSUME h.start < g.start PROVE g.start - 1 \in M
            BY <1>1
        <3>2. g.start - 1 \in Int /\ h.start <= g.start - 1 /\ g.start - 1 < h.end
            BY <1>1, <1>2, <3>1
        <3> QED BY <1>1, <3>2
    <2> QED BY <1>1, <2>1, <2>2
<1>4. g.end = h.end
    <2>1. ~(g.end < h.end)
        BY <1>1, <1>2
    <2>2. ~(h.end < g.end)
        BY <1>1, <1>2
    <2> QED BY <1>1, <2>1, <2>2
<1> QED BY <1>1, <1>3, <1>4

\* The gaps of a window are ranges the model knows.
LEMMA GapsAreRanges ==
    ASSUME NEW win \in Ranges, NEW S
    PROVE  GapRanges(MissingIn(win, S)) \subseteq Ranges
<1>1. MissingIn(win, S) \subseteq 0 .. (Now - 1)
    BY EngineAssumption DEF MissingIn, capEndToClosedCandles, floorToStep, Ranges
<1>2. SUFFICES ASSUME NEW g \in GapRanges(MissingIn(win, S)) PROVE g \in Ranges
    OBVIOUS
<1>3. /\ g \in [start : MissingIn(win, S), end : {m + 1 : m \in MissingIn(win, S)}]
      /\ g.start < g.end
    BY <1>2 DEF GapRanges
<1>4. g.start \in 0 .. (Now - 1) /\ g.end \in 1 .. Now
    BY <1>1, <1>3, EngineAssumption
<1> QED BY <1>3, <1>4, EngineAssumption DEF Ranges

-----------------------------------------------------------------------------
\* Type correctness

CallRec == [pc : CallPcs, kind : CallKinds \union {"none"}, sym : Symbols,
            todo : SUBSET Symbols, win : Ranges,
            gaps : SUBSET Ranges, pending : SUBSET Ranges]

LEMMA IdleType == Idle \in CallRec
<1>1. (CHOOSE s \in Symbols : TRUE) \in Symbols
    BY EngineAssumption
<1>2. [start |-> 0, end |-> 1] \in Ranges
    BY EngineAssumption DEF Ranges
<1> QED BY <1>1, <1>2 DEF Idle, CallRec, CallPcs

LEMMA ScanWindowType == ScanWindow \in Ranges
BY EngineAssumption DEF ScanWindow, Ranges

LEMMA EnteredType ==
    ASSUME NEW kind \in CallKinds, NEW s \in Symbols, NEW todo \in SUBSET Symbols,
           NEW win \in Ranges
    PROVE  Entered(kind, s, todo, win) \in CallRec
BY DEF Entered, CallRec, CallPcs

\* A field of one call changes: the record stays in its type.
LEMMA FieldTypes ==
    ASSUME NEW rec \in CallRec, NEW pc \in CallPcs
    PROVE  /\ [rec EXCEPT !.pc = pc] \in CallRec
           /\ \A win \in Ranges : [rec EXCEPT !.pc = pc, !.win = win] \in CallRec
           /\ \A X \in SUBSET Ranges : [rec EXCEPT !.pc = pc, !.gaps = X] \in CallRec
           /\ \A X \in SUBSET Ranges : [rec EXCEPT !.pc = pc, !.pending = X] \in CallRec
BY DEF CallRec

\* Reserving ranges keeps inFlight in its type.
LEMMA TrackedType ==
    ASSUME TypeOK, NEW c \in Calls, NEW s \in Symbols, NEW X \in SUBSET Ranges
    PROVE  Tracked(c, s, X) \in [Symbols -> SUBSET [owner : Calls, range : Ranges]]
<1> DEFINE new == {[owner |-> c, range |-> r] : r \in X}
<1>1. new \in SUBSET [owner : Calls, range : Ranges]
    OBVIOUS
<1>2. Tracked(c, s, X) = [inFlight EXCEPT ![s] = @ \union new]
    BY DEF Tracked
<1> HIDE DEF new
<1> QED BY <1>1, <1>2 DEF TypeOK

LEMMA MovesOnType ==
    ASSUME TypeOK, NEW c \in Calls, NEW records \in BOOLEAN, MovesOn(c, records)
    PROVE  call' \in [Calls -> CallRec] /\ isEngineBusy' \in BOOLEAN
<1>1. call \in [Calls -> CallRec] /\ isEngineBusy \in BOOLEAN
    BY DEF TypeOK, CallRec
<1>2. CASE call[c].kind \in EngineKinds /\ call[c].todo # {}
    <2>1. PICK s \in call[c].todo :
            call' = [call EXCEPT ![c] = Entered(call[c].kind, s, call[c].todo \ {s}, ScanWindow)]
        BY <1>2 DEF MovesOn
    <2>2. s \in Symbols /\ call[c].todo \ {s} \in SUBSET Symbols /\ call[c].kind \in CallKinds
        BY <1>1, <1>2 DEF CallRec, EngineKinds, CallKinds
    <2>3. Entered(call[c].kind, s, call[c].todo \ {s}, ScanWindow) \in CallRec
        BY <2>2, EnteredType, ScanWindowType
    <2> QED BY <1>1, <1>2, <2>1, <2>3 DEF MovesOn
<1>3. CASE ~(call[c].kind \in EngineKinds /\ call[c].todo # {})
    <2>1. call' = [call EXCEPT ![c].pc = IF records THEN "record" ELSE "done", ![c].pending = {}]
        BY <1>3 DEF MovesOn
    <2>2. (IF records THEN "record" ELSE "done") \in CallPcs
        BY DEF CallPcs
    <2>3. call' \in [Calls -> CallRec]
        <3> DEFINE after == [call[c] EXCEPT !.pc = IF records THEN "record" ELSE "done", !.pending = {}]
        <3>1. after \in CallRec
            BY <1>1, <2>2, FieldTypes
        <3>2. call' = [call EXCEPT ![c] = after]
            BY <2>1
        <3> HIDE DEF after
        <3> QED BY <1>1, <3>1, <3>2
    <2>4. isEngineBusy' \in BOOLEAN
        BY <1>1, <1>3 DEF MovesOn
    <2> QED BY <2>3, <2>4
<1> QED BY <1>2, <1>3

LEMMA LeavesWindowType ==
    ASSUME TypeOK, NEW c \in Calls, NEW records \in BOOLEAN, LeavesWindow(c, records)
    PROVE  /\ call' \in [Calls -> CallRec] /\ isEngineBusy' \in BOOLEAN
           /\ inFlight' \in [Symbols -> SUBSET [owner : Calls, range : Ranges]]
<1>1. inFlight' \in [Symbols -> SUBSET [owner : Calls, range : Ranges]]
    BY DEF LeavesWindow, Untracked, TypeOK
<1> QED BY <1>1, MovesOnType DEF LeavesWindow

\* The two tables that grow: their rows and lanes.
JobsType == DOMAIN job \subseteq JobIds /\ job \in [DOMAIN job -> JobRow]

LanesType ==
    /\ DOMAIN worker \subseteq DOMAIN job
    /\ worker \in [DOMAIN worker -> [pc : WorkerPcs, attempt : Nat]]

LEMMA TypeOKParts ==
    TypeOK <=> /\ stored \in [Symbols -> SUBSET Candles]
               /\ isEngineBusy \in BOOLEAN
               /\ inFlight \in [Symbols -> SUBSET [owner : Calls, range : Ranges]]
               /\ call \in [Calls -> CallRec]
               /\ JobsType
               /\ LanesType
BY DEF TypeOK, CallRec, JobsType, LanesType

LEMMA FetchableIsCandles ==
    ASSUME NEW r PROVE Fetchable(r) \subseteq Candles
<1>1. Exchange \subseteq 0 .. Now
    BY EngineAssumption
<1>2. Fetchable(r) \subseteq Exchange
    BY DEF Fetchable
<1> QED BY <1>1, <1>2 DEF Candles

LEMMA AttemptFailsType ==
    ASSUME LanesType, NEW id \in DOMAIN worker, AttemptFails(id), job' = job
    PROVE  LanesType'
BY DEF LanesType, AttemptFails, WorkerPcs

LEMMA RunJobReturnsType ==
    ASSUME TypeOK, NEW id \in DOMAIN worker, RunJobReturns(id), DOMAIN job' = DOMAIN job
    PROVE  /\ call' \in [Calls -> CallRec] /\ isEngineBusy' \in BOOLEAN
           /\ inFlight' \in [Symbols -> SUBSET [owner : Calls, range : Ranges]]
           /\ LanesType'
<1> DEFINE w1 == [worker EXCEPT ![id].pc = "returned"]
           w  == LaneTakesNext(id, w1)
<1>1. id \in JobIds /\ CallOf(id) \in Calls
    BY DEF TypeOK, JobIds, CallOf
<1>2. DOMAIN w1 = DOMAIN worker /\ w1 \in [DOMAIN worker -> [pc : WorkerPcs, attempt : Nat]]
    BY DEF TypeOK, WorkerPcs
<1>3. DOMAIN w = DOMAIN worker /\ w \in [DOMAIN worker -> [pc : WorkerPcs, attempt : Nat]]
    BY <1>2 DEF LaneTakesNext, WorkerPcs
<1>4. worker' = w
    BY DEF RunJobReturns
<1>5. LanesType'
    BY <1>3, <1>4 DEF LanesType, TypeOK
<1>6. CASE LeavesWindow(CallOf(id), FALSE)
    BY <1>1, <1>5, <1>6, LeavesWindowType
<1>7. CASE UNCHANGED <<inFlight, call, isEngineBusy>>
    BY <1>5, <1>7, TypeOKParts
<1> QED BY <1>6, <1>7 DEF RunJobReturns

\* Every step keeps the variables in their types.
LEMMA TypeOKStep == TypeOK /\ [Next]_vars => TypeOK'
<1> SUFFICES ASSUME TypeOK, [Next]_vars PROVE TypeOK'
    OBVIOUS
<1> DEFINE FlightType == [Symbols -> SUBSET [owner : Calls, range : Ranges]]
<1>0. /\ stored \in [Symbols -> SUBSET Candles]
      /\ isEngineBusy \in BOOLEAN
      /\ inFlight \in FlightType
      /\ call \in [Calls -> CallRec]
      /\ JobsType
      /\ LanesType
    BY TypeOKParts
<1>q. ASSUME stored' \in [Symbols -> SUBSET Candles], isEngineBusy' \in BOOLEAN,
             inFlight' \in FlightType, call' \in [Calls -> CallRec], JobsType', LanesType'
      PROVE  TypeOK'
    BY <1>q DEF TypeOK, CallRec, JobsType, LanesType
<1>j. ASSUME job' = job PROVE JobsType'
    BY <1>0, <1>j DEF JobsType
<1>l. ASSUME worker' = worker, DOMAIN job \subseteq DOMAIN job' PROVE LanesType'
    BY <1>0, <1>l DEF LanesType
<1>1. ASSUME NEW c \in Calls, NEW kind \in EngineKinds, StartEngine(c, kind) PROVE TypeOK'
    <2>1. PICK s \in Symbols :
            call' = [call EXCEPT ![c] = Entered(kind, s, Symbols \ {s}, ScanWindow)]
        BY <1>1 DEF StartEngine
    <2>2. kind \in CallKinds /\ Symbols \ {s} \in SUBSET Symbols
        BY DEF EngineKinds, CallKinds
    <2>3. call' \in [Calls -> CallRec]
        BY <1>0, <2>1, <2>2, EnteredType, ScanWindowType
    <2> QED BY <1>0, <1>1, <1>q, <1>j, <1>l, <2>3 DEF StartEngine
<1>2. ASSUME NEW c \in Calls, NEW s \in Symbols, NEW win \in Ranges, StartManual(c, s, win)
      PROVE  TypeOK'
    <2>1. call' \in [Calls -> CallRec]
        BY <1>0, <1>2, EnteredType DEF StartManual, CallKinds
    <2> QED BY <1>0, <1>2, <1>q, <1>j, <1>l, <2>1 DEF StartManual
<1>3. ASSUME NEW c \in Calls, NEW s \in Symbols, NEW win \in Ranges, StartRepair(c, s, win)
      PROVE  TypeOK'
    <2>1. Runnable(s, {win}) \subseteq {win}
        BY DEF Runnable
    <2>2. inFlight' \in FlightType
        BY <1>3, <2>1, TrackedType DEF StartRepair
    <2>3. (IF Runnable(s, {win}) = {} THEN "done" ELSE "create") \in CallPcs
        BY DEF CallPcs
    <2>4. [Idle EXCEPT !.pc = IF Runnable(s, {win}) = {} THEN "done" ELSE "create",
                       !.kind = "repair", !.sym = s, !.win = win,
                       !.gaps = {win}, !.pending = Runnable(s, {win})] \in CallRec
        BY <2>1, <2>3, IdleType DEF CallRec, CallKinds
    <2>5. call' \in [Calls -> CallRec]
        BY <1>0, <1>3, <2>4 DEF StartRepair
    <2> QED BY <1>0, <1>3, <1>q, <1>j, <1>l, <2>2, <2>5 DEF StartRepair
<1>4. ASSUME NEW c \in Calls, ResolvePlan(c) PROVE TypeOK'
    <2>1. PICK latest \in Candles \union {NoOpenTime}, earliest \in Candles \union {NoOpenTime} :
            LET plan == resolveStartupPlan(latest, earliest, Now, Depth)
            IN  IF plan.start >= plan.end
                THEN MovesOn(c, FALSE)
                ELSE /\ call' = [call EXCEPT ![c].pc = "detect", ![c].win = plan]
                     /\ UNCHANGED isEngineBusy
        BY <1>4 DEF ResolvePlan
    <2> DEFINE plan == resolveStartupPlan(latest, earliest, Now, Depth)
    <2>2. CASE plan.start >= plan.end
        BY <1>0, <1>4, <1>q, <1>j, <1>l, <2>1, <2>2, MovesOnType DEF ResolvePlan
    <2>3. CASE ~(plan.start >= plan.end)
        <3>1. latest \in Int /\ earliest \in Int
            BY EngineAssumption DEF Candles, NoOpenTime
        <3>2. /\ plan = [start |-> plan.start, end |-> plan.end]
              /\ plan.start \in Int /\ plan.start >= 0 /\ plan.end = Now
            BY <3>1, EngineAssumption DEF resolveStartupPlan, NoOpenTime
        <3>3. plan \in Ranges
            BY <2>3, <3>2, EngineAssumption DEF Ranges
        <3>4. call' = [call EXCEPT ![c].pc = "detect", ![c].win = plan] /\ isEngineBusy' = isEngineBusy
            BY <2>1, <2>3
        <3> HIDE DEF plan
        <3>5. call' \in [Calls -> CallRec]
            <4>1. call[c] \in CallRec /\ "detect" \in CallPcs
                BY <1>0 DEF CallPcs
            <4>2. [call[c] EXCEPT !.pc = "detect", !.win = plan] \in CallRec
                BY <3>3, <4>1, FieldTypes
            <4>3. call' = [call EXCEPT ![c] = [call[c] EXCEPT !.pc = "detect", !.win = plan]]
                BY <3>4
            <4> QED BY <1>0, <4>2, <4>3
        <3> QED BY <1>0, <1>4, <1>q, <1>j, <1>l, <3>4, <3>5 DEF ResolvePlan
    <2> QED BY <2>2, <2>3
<1>5. ASSUME NEW c \in Calls, ResolvePlanFails(c) \/ DetectFails(c) PROVE TypeOK'
    BY <1>0, <1>5, <1>q, <1>j, <1>l, MovesOnType DEF ResolvePlanFails, DetectFails
<1>6. ASSUME NEW c \in Calls, DetectGaps(c) PROVE TypeOK'
    <2>1. call[c].win \in Ranges
        BY <1>0 DEF CallRec
    <2> DEFINE found == GapRanges(MissingIn(call[c].win, stored[call[c].sym]))
    <2>2. found \in SUBSET Ranges
        BY <2>1, GapsAreRanges
    <2>3. call' \in [Calls -> CallRec]
        <3>1. call' = [call EXCEPT ![c].pc = "reserve", ![c].gaps = found]
            BY <1>6 DEF DetectGaps
        <3> HIDE DEF found
        <3>2. call[c] \in CallRec /\ "reserve" \in CallPcs
            BY <1>0 DEF CallPcs
        <3>3. [call[c] EXCEPT !.pc = "reserve", !.gaps = found] \in CallRec
            BY <2>2, <3>2, FieldTypes
        <3>4. call' = [call EXCEPT ![c] = [call[c] EXCEPT !.pc = "reserve", !.gaps = found]]
            BY <3>1
        <3> QED BY <1>0, <3>3, <3>4
    <2> QED BY <1>0, <1>6, <1>q, <1>j, <1>l, <2>3 DEF DetectGaps
<1>7. ASSUME NEW c \in Calls, Reserve(c) PROVE TypeOK'
    <2> DEFINE s == call[c].sym
               runnable == Runnable(s, call[c].gaps)
    <2>1. s \in Symbols /\ runnable \in SUBSET Ranges
        BY <1>0 DEF CallRec, Runnable
    <2>2. CASE runnable = {}
        <3>1. LeavesWindow(c, call[c].kind = "manual")
            BY <1>7, <2>2 DEF Reserve
        <3> QED BY <1>0, <1>7, <1>q, <1>j, <1>l, <3>1, LeavesWindowType DEF Reserve
    <2>3. CASE runnable # {}
        <3>1. /\ inFlight' = Tracked(c, s, runnable)
              /\ call' = [call EXCEPT ![c].pc = "create", ![c].pending = runnable]
              /\ isEngineBusy' = isEngineBusy
            BY <1>7, <2>3 DEF Reserve
        <3> HIDE DEF runnable, s
        <3>2. inFlight' \in FlightType
            BY <2>1, <3>1, TrackedType
        <3>3. call' \in [Calls -> CallRec]
            <4>1. call[c] \in CallRec /\ "create" \in CallPcs
                BY <1>0 DEF CallPcs
            <4>2. [call[c] EXCEPT !.pc = "create", !.pending = runnable] \in CallRec
                BY <2>1, <4>1, FieldTypes
            <4>3. call' = [call EXCEPT ![c] = [call[c] EXCEPT !.pc = "create", !.pending = runnable]]
                BY <3>1
            <4> QED BY <1>0, <4>2, <4>3
        <3> QED BY <1>0, <1>7, <1>q, <1>j, <1>l, <3>1, <3>2, <3>3 DEF Reserve
    <2> QED BY <2>2, <2>3
<1>8. ASSUME NEW c \in Calls, CreateJob(c) PROVE TypeOK'
    <2> DEFINE s == call[c].sym
    <2>1. PICK r \in call[c].pending :
            /\ job' = [id \in DOMAIN job \union {<<c, s, r>>} |->
                         IF id = <<c, s, r>> THEN NewRow ELSE job[id]]
            /\ call' = [call EXCEPT ![c].pc = IF call[c].pending \ {r} = {} THEN "run" ELSE "create",
                                    ![c].pending = call[c].pending \ {r}]
            /\ LET rest == call[c].pending \ {r}
                   ids  == JobsOf(c, s) \union {<<c, s, r>>}
               IN  IF rest = {}
                   THEN worker' = [id \in DOMAIN worker \union ids |->
                        IF id \notin ids THEN worker[id]
                        ELSE NewWorker(IF id \in FirstInLanes(ids) THEN "markRunning" ELSE "queued")]
                   ELSE worker' = worker
        BY <1>8 DEF CreateJob
    <2>2. call[c] \in CallRec /\ s \in Symbols /\ r \in Ranges /\ call[c].pending \ {r} \in SUBSET Ranges
        BY <1>0 DEF CallRec
    <2>3. <<c, s, r>> \in JobIds
        BY <2>2 DEF JobIds
    <2>4. JobsType' /\ DOMAIN job' = DOMAIN job \union {<<c, s, r>>}
        <3> HIDE DEF s
        <3> QED BY <1>0, <2>1, <2>3 DEF JobsType, JobRow, NewRow
    <2>5. call' \in [Calls -> CallRec]
        <3> DEFINE rest == call[c].pending \ {r}
        <3>1. (IF rest = {} THEN "run" ELSE "create") \in CallPcs
            BY DEF CallPcs
        <3>2. rest \in SUBSET Ranges
            BY <2>2
        <3> DEFINE after == [call[c] EXCEPT !.pc = IF rest = {} THEN "run" ELSE "create", !.pending = rest]
        <3>3. after \in CallRec
            <4> HIDE DEF rest
            <4> QED BY <2>2, <3>1, <3>2, FieldTypes
        <3>4. call' = [call EXCEPT ![c] = after]
            BY <2>1
        <3> HIDE DEF after
        <3> QED BY <1>0, <3>3, <3>4
    <2>6. LanesType'
        <3>1. CASE worker' = worker
            BY <1>l, <2>4, <3>1
        <3>2. ASSUME NEW ids, ids = JobsOf(c, s) \union {<<c, s, r>>},
                     worker' = [id \in DOMAIN worker \union ids |->
                        IF id \notin ids THEN worker[id]
                        ELSE NewWorker(IF id \in FirstInLanes(ids) THEN "markRunning" ELSE "queued")]
              PROVE  LanesType'
            <4>1. \A pc \in WorkerPcs : NewWorker(pc) \in [pc : WorkerPcs, attempt : Nat]
                BY DEF NewWorker
            <4>2. \A id : (IF id \in FirstInLanes(ids) THEN "markRunning" ELSE "queued") \in WorkerPcs
                BY DEF WorkerPcs
            <4>3. ids \subseteq DOMAIN job'
                BY <2>4, <3>2 DEF JobsOf
            <4> QED BY <1>0, <2>4, <3>2, <4>1, <4>2, <4>3 DEF LanesType
        <3> QED BY <2>1, <3>1, <3>2
    <2> QED BY <1>0, <1>8, <1>q, <2>4, <2>5, <2>6 DEF CreateJob
<1>9. ASSUME NEW c \in Calls, CreateFails(c) PROVE TypeOK'
    BY <1>0, <1>9, <1>q, <1>j, <1>l, LeavesWindowType DEF CreateFails
<1>10. ASSUME NEW c \in Calls, RecordCreate(c) PROVE TypeOK'
    <2>1. call[c] \in CallRec /\ RecordId(c) \in JobIds
        BY <1>0 DEF CallRec, RecordId, JobIds
    <2>2. JobsType' /\ DOMAIN job \subseteq DOMAIN job'
        BY <1>0, <1>10, <2>1 DEF RecordCreate, JobsType, JobRow, NewRow
    <2>3. call' \in [Calls -> CallRec]
        <3> DEFINE after == [call[c] EXCEPT !.pc = "recordRunning"]
        <3>1. after \in CallRec
            BY <2>1, FieldTypes DEF CallPcs
        <3>2. call' = [call EXCEPT ![c] = after]
            BY <1>10 DEF RecordCreate
        <3> HIDE DEF after
        <3> QED BY <1>0, <3>1, <3>2
    <2> QED BY <1>0, <1>10, <1>q, <1>l, <2>2, <2>3 DEF RecordCreate
<1>11. ASSUME NEW c \in Calls, RecordRunning(c) \/ RecordSucceeded(c) \/ RecordFails(c) PROVE TypeOK'
    <2>1. JobsType' /\ DOMAIN job' = DOMAIN job
        BY <1>0, <1>11 DEF RecordRunning, RecordSucceeded, RecordFails, JobsType, JobRow
    <2>2. call' \in [Calls -> CallRec]
        BY <1>0, <1>11 DEF RecordRunning, RecordSucceeded, RecordFails, CallRec, CallPcs
    <2> QED BY <1>0, <1>11, <1>q, <1>l, <2>1, <2>2 DEF RecordRunning, RecordSucceeded, RecordFails
<1>12. ASSUME NEW id \in DOMAIN worker, MarkRunning(id) PROVE TypeOK'
    <2>1. id \in DOMAIN job
        BY <1>0 DEF LanesType
    <2>2. JobsType' /\ DOMAIN job' = DOMAIN job
        BY <1>0, <1>12, <2>1 DEF MarkRunning, JobsType, JobRow
    <2>3. LanesType'
        BY <1>0, <1>12, <2>2 DEF MarkRunning, LanesType, WorkerPcs
    <2> QED BY <1>0, <1>12, <1>q, <2>2, <2>3 DEF MarkRunning
<1>13. ASSUME NEW id \in DOMAIN worker, MarkRunningFails(id) PROVE TypeOK'
    BY <1>0, <1>13, <1>q, <1>j, AttemptFailsType DEF MarkRunningFails
<1>14. ASSUME NEW id \in DOMAIN worker, AttemptWrites(id) PROVE TypeOK'
    <2>1. stored' \in [Symbols -> SUBSET Candles]
        BY <1>0, <1>14, FetchableIsCandles DEF AttemptWrites
    <2>2. LanesType'
        BY <1>0, <1>14 DEF AttemptWrites, LanesType, WorkerPcs
    <2> QED BY <1>0, <1>14, <1>q, <1>j, <2>1, <2>2 DEF AttemptWrites
<1>15. ASSUME NEW id \in DOMAIN worker, NEW m \in Candles, AttemptBreaks(id, m) PROVE TypeOK'
    <2>1. stored' \in [Symbols -> SUBSET Candles]
        BY <1>0, <1>15, FetchableIsCandles DEF AttemptBreaks
    <2>2. LanesType'
        BY <1>0, <1>15, AttemptFailsType DEF AttemptBreaks
    <2> QED BY <1>0, <1>15, <1>q, <1>j, <2>1, <2>2 DEF AttemptBreaks
<1>16. ASSUME NEW id \in DOMAIN worker, MarkSucceeded(id) \/ MarkFailed(id) PROVE TypeOK'
    <2>1. JobsType' /\ DOMAIN job' = DOMAIN job
        BY <1>0, <1>16 DEF MarkSucceeded, MarkFailed, JobsType, LanesType, JobRow
    <2>2. RunJobReturns(id)
        BY <1>16 DEF MarkSucceeded, MarkFailed
    <2> QED BY <1>0, <1>16, <1>q, <2>1, <2>2, RunJobReturnsType DEF MarkSucceeded, MarkFailed
<1>17. ASSUME NEW id \in DOMAIN worker, MarkSucceededFails(id) PROVE TypeOK'
    <2>1. JobsType' /\ DOMAIN job' = DOMAIN job
        BY <1>0, <1>17 DEF MarkSucceededFails, JobsType, LanesType, JobRow
    <2>2. LanesType'
        BY <1>0, <1>17, <2>1 DEF MarkSucceededFails, AttemptFails, LanesType, WorkerPcs
    <2> QED BY <1>0, <1>17, <1>q, <2>1, <2>2 DEF MarkSucceededFails
<1>18. ASSUME NEW id \in DOMAIN worker, RetryJob(id) PROVE TypeOK'
    <2>1. LanesType'
        BY <1>0, <1>18 DEF RetryJob, LanesType, WorkerPcs
    <2> QED BY <1>0, <1>18, <1>q, <1>j, <2>1 DEF RetryJob
<1>19. ASSUME NEW id \in DOMAIN worker, MarkFailedFails(id) PROVE TypeOK'
    <2>1. LanesType'
        BY <1>0, <1>19 DEF MarkFailedFails, LanesType, WorkerPcs
    <2>2. CallOf(id) \in Calls
        BY <1>0 DEF LanesType, JobsType, JobIds, CallOf
    <2>3. CASE Awaited(id)
        BY <1>0, <1>19, <1>q, <1>j, <2>1, <2>2, <2>3, LeavesWindowType DEF MarkFailedFails
    <2>4. CASE ~Awaited(id)
        BY <1>0, <1>19, <1>q, <1>j, <2>1, <2>4 DEF MarkFailedFails
    <2> QED BY <2>3, <2>4
<1>20. ASSUME NEW s \in Symbols, StreamStores(s) PROVE TypeOK'
    <2>1. Now \in Candles
        BY EngineAssumption DEF Candles
    <2>2. stored' \in [Symbols -> SUBSET Candles]
        BY <1>0, <1>20, <2>1 DEF StreamStores
    <2> QED BY <1>0, <1>20, <1>q, <1>j, <1>l, <2>2 DEF StreamStores
<1>21. CASE UNCHANGED vars
    BY <1>0, <1>21, <1>q, <1>j, <1>l DEF vars
<1> QED
    BY <1>1, <1>2, <1>3, <1>4, <1>5, <1>6, <1>7, <1>8, <1>9, <1>10, <1>11, <1>12, <1>13,
       <1>14, <1>15, <1>16, <1>17, <1>18, <1>19, <1>20, <1>21
       DEF Next, Starts, CallSteps, WorkerSteps

LEMMA TypeOKInit == Init => TypeOK
<1> SUFFICES ASSUME Init PROVE TypeOK
    OBVIOUS
<1>1. stored \in [Symbols -> SUBSET Candles]
    BY EngineAssumption DEF Init, Candles
<1>2. call \in [Calls -> CallRec]
    BY IdleType DEF Init
<1>3. DOMAIN job = {} /\ DOMAIN worker = {}
    BY DEF Init
<1>4. JobsType /\ LanesType
    BY <1>3 DEF Init, JobsType, LanesType
<1> QED BY <1>1, <1>2, <1>4, TypeOKParts DEF Init

\* The engine's variables always have their types.
THEOREM TypeCorrect == Spec => []TypeOK
BY TypeOKInit, TypeOKStep, PTL DEF Spec

-----------------------------------------------------------------------------
\* What a step may do to the reservations: nothing, drop those of one call,
\* or add the runnable ranges of one call.

Holding(c) == call[c].pc \in {"create", "run"}

\* The calls that hold reservations stay where they are.
HoldersStay ==
    \A d \in Calls : Holding(d) => Holding(d)' /\ call'[d].sym = call[d].sym

LEMMA ReservationsKept ==
    ASSUME TypeOK, ReservationsReleased, InFlightDisjoint, HoldersStay, inFlight' = inFlight
    PROVE  ReservationsReleased' /\ InFlightDisjoint'
<1>1. InFlightDisjoint'
    BY DEF InFlightDisjoint
<1>2. ASSUME NEW s \in Symbols, NEW e \in inFlight'[s]
      PROVE  call'[e.owner].pc \in {"create", "run"} /\ call'[e.owner].sym = s
    <2>1. e \in inFlight[s] /\ e.owner \in Calls
        BY <1>2 DEF TypeOK
    <2>2. Holding(e.owner) /\ call[e.owner].sym = s
        BY <2>1 DEF ReservationsReleased, Holding
    <2> QED BY <2>1, <2>2 DEF HoldersStay, Holding
<1> QED BY <1>1, <1>2 DEF ReservationsReleased

LEMMA ReservationsDropped ==
    ASSUME TypeOK, ReservationsReleased, InFlightDisjoint,
           NEW c \in Calls, inFlight' = Untracked(c),
           \A d \in Calls \ {c} : call'[d] = call[d]
    PROVE  ReservationsReleased' /\ InFlightDisjoint'
<1>1. \A s \in Symbols : \A e \in inFlight'[s] : e \in inFlight[s] /\ e.owner \in Calls \ {c}
    <2> SUFFICES ASSUME NEW s \in Symbols, NEW e \in inFlight'[s]
                 PROVE  e \in inFlight[s] /\ e.owner \in Calls \ {c}
        OBVIOUS
    <2>1. e \in inFlight[s] /\ (s = call[c].sym => e.owner # c)
        BY DEF Untracked, TypeOK
    <2>2. e.owner \in Calls /\ call[e.owner].sym = s
        BY <2>1 DEF TypeOK, ReservationsReleased
    <2> QED BY <2>1, <2>2
<1>2. InFlightDisjoint'
    BY <1>1 DEF InFlightDisjoint
<1>3. ReservationsReleased'
    BY <1>1 DEF ReservationsReleased
<1> QED BY <1>2, <1>3

LEMMA ReservationsAdded ==
    ASSUME TypeOK, ReservationsReleased, InFlightDisjoint,
           NEW c \in Calls, NEW s \in Symbols, NEW G \in SUBSET Ranges,
           \A g, h \in G : g # h => ~rangesOverlap(g, h),
           inFlight' = Tracked(c, s, Runnable(s, G)),
           \A d \in Calls \ {c} : call'[d] = call[d],
           ~Holding(c),
           Runnable(s, G) # {} => call'[c].pc = "create" /\ call'[c].sym = s
    PROVE  ReservationsReleased' /\ InFlightDisjoint'
<1> DEFINE new == {[owner |-> c, range |-> r] : r \in Runnable(s, G)}
<1>1. \A t \in Symbols : inFlight'[t] = IF t = s THEN inFlight[t] \union new ELSE inFlight[t]
    BY DEF Tracked, TypeOK
<1>2. \A e \in new : /\ e.owner = c /\ e.range \in G /\ Runnable(s, G) # {}
                     /\ \A f \in inFlight[s] : ~rangesOverlap(f.range, e.range)
    BY DEF Runnable
<1>3. InFlightDisjoint'
    <2> SUFFICES ASSUME NEW t \in Symbols, NEW e \in inFlight'[t], NEW f \in inFlight'[t], e # f
                 PROVE  ~rangesOverlap(e.range, f.range)
        BY DEF InFlightDisjoint
    <2>1. CASE e \in inFlight[t] /\ f \in inFlight[t]
        BY <2>1 DEF InFlightDisjoint
    <2>2. CASE t = s /\ e \in new /\ f \in new
        <3>1. PICK g \in Runnable(s, G) : e = [owner |-> c, range |-> g]
            BY <2>2
        <3>2. PICK h \in Runnable(s, G) : f = [owner |-> c, range |-> h]
            BY <2>2
        <3>3. g \in G /\ h \in G /\ g # h
            BY <3>1, <3>2 DEF Runnable
        <3> QED BY <3>1, <3>2, <3>3
    <2>3. CASE t = s /\ e \in inFlight[s] /\ f \in new
        BY <1>2, <2>3
    <2>4. CASE t = s /\ e \in new /\ f \in inFlight[s]
        <3>1. ~rangesOverlap(f.range, e.range)
            BY <1>2, <2>4
        <3> QED BY <3>1 DEF rangesOverlap
    <2> HIDE DEF new
    <2> QED BY <1>1, <2>1, <2>2, <2>3, <2>4
<1>4. ASSUME NEW t \in Symbols, NEW e \in inFlight'[t]
      PROVE  call'[e.owner].pc \in {"create", "run"} /\ call'[e.owner].sym = t
    <2> HIDE DEF new
    <2>1. CASE e \in inFlight[t]
        <3>1. e.owner \in Calls /\ Holding(e.owner) /\ call[e.owner].sym = t
            BY <2>1 DEF TypeOK, ReservationsReleased, Holding
        <3>2. e.owner \in Calls \ {c}
            BY <3>1
        <3> QED BY <3>1, <3>2 DEF Holding
    <2>2. CASE t = s /\ e \in new
        BY <1>2, <2>2
    <2> QED BY <1>1, <1>4, <2>1, <2>2
<1> QED BY <1>3, <1>4 DEF ReservationsReleased

-----------------------------------------------------------------------------
\* Leaving runWindow: only the call that leaves changes.

LEMMA MovesOnFacts ==
    ASSUME TypeOK, NEW c \in Calls, NEW records \in BOOLEAN, MovesOn(c, records)
    PROVE  /\ \A d \in Calls \ {c} : call'[d] = call[d]
           /\ call'[c].gaps \in {{}, call[c].gaps}
           /\ \/ /\ call'[c].pc \in {"record", "done"}
                 /\ call'[c].sym = call[c].sym /\ call'[c].todo = call[c].todo
              \/ /\ call'[c].pc \in {"plan", "detect"}
                 /\ call'[c].sym \in call[c].todo
                 /\ call'[c].todo = call[c].todo \ {call'[c].sym}
<1>1. call \in [Calls -> CallRec]
    BY DEF TypeOK, CallRec
<1>2. CASE call[c].kind \in EngineKinds /\ call[c].todo # {}
    <2>1. PICK s \in call[c].todo :
            call' = [call EXCEPT ![c] = Entered(call[c].kind, s, call[c].todo \ {s}, ScanWindow)]
        BY <1>2 DEF MovesOn
    <2>2. call'[c] = Entered(call[c].kind, s, call[c].todo \ {s}, ScanWindow)
        BY <1>1, <2>1
    <2>3. \A d \in Calls \ {c} : call'[d] = call[d]
        BY <1>1, <2>1
    <2> QED BY <2>2, <2>3 DEF Entered
<1>3. CASE ~(call[c].kind \in EngineKinds /\ call[c].todo # {})
    <2>1. call' = [call EXCEPT ![c].pc = IF records THEN "record" ELSE "done", ![c].pending = {}]
        BY <1>3 DEF MovesOn
    <2> QED BY <1>1, <2>1 DEF CallRec
<1> QED BY <1>2, <1>3

\* The gaps a call works on stay apart when only call c changed and its gaps
\* are apart.
LEMMA GapsKept ==
    ASSUME GapsApart, NEW c \in Calls, \A d \in Calls \ {c} : call'[d] = call[d],
           \A g, h \in call'[c].gaps : g # h => ~rangesOverlap(g, h)
    PROVE  GapsApart'
BY DEF GapsApart

LEMMA MovesOnKeepsReservations ==
    ASSUME TypeOK, ReservationInv, NEW c \in Calls, NEW records \in BOOLEAN,
           MovesOn(c, records), ~Holding(c), inFlight' = inFlight
    PROVE  ReservationInv'
<1>1. /\ \A d \in Calls \ {c} : call'[d] = call[d]
      /\ call'[c].gaps \in {{}, call[c].gaps}
    BY MovesOnFacts
<1>2. GapsApart'
    BY <1>1, GapsKept DEF ReservationInv, GapsApart
<1>3. HoldersStay
    BY <1>1 DEF HoldersStay, Holding
<1> QED BY <1>2, <1>3, ReservationsKept DEF ReservationInv

LEMMA LeavesWindowKeepsReservations ==
    ASSUME TypeOK, ReservationInv, NEW c \in Calls, NEW records \in BOOLEAN,
           LeavesWindow(c, records)
    PROVE  ReservationInv'
<1>1. MovesOn(c, records) /\ inFlight' = Untracked(c)
    BY DEF LeavesWindow
<1>2. /\ \A d \in Calls \ {c} : call'[d] = call[d]
      /\ call'[c].gaps \in {{}, call[c].gaps}
    BY <1>1, MovesOnFacts
<1>3. GapsApart'
    BY <1>2, GapsKept DEF ReservationInv, GapsApart
<1> QED BY <1>1, <1>2, <1>3, ReservationsDropped DEF ReservationInv

\* A step that touches neither the calls nor the reservations.
LEMMA NothingReserved ==
    ASSUME TypeOK, ReservationInv, call' = call, inFlight' = inFlight
    PROVE  ReservationInv'
<1>1. HoldersStay /\ GapsApart'
    BY DEF HoldersStay, Holding, ReservationInv, GapsApart
<1> QED BY <1>1, ReservationsKept DEF ReservationInv

LEMMA ReservationStep == TypeOK /\ ReservationInv /\ [Next]_vars => ReservationInv'
<1> SUFFICES ASSUME TypeOK, ReservationInv, [Next]_vars PROVE ReservationInv'
    OBVIOUS
<1>0. call \in [Calls -> CallRec] /\ GapsApart /\ ReservationsReleased /\ InFlightDisjoint
    BY TypeOKParts DEF ReservationInv
<1>k. ASSUME NEW c \in Calls, \A d \in Calls \ {c} : call'[d] = call[d], inFlight' = inFlight,
             \A g, h \in call'[c].gaps : g # h => ~rangesOverlap(g, h),
             Holding(c) => Holding(c)' /\ call'[c].sym = call[c].sym
      PROVE  ReservationInv'
    <2>1. GapsApart'
        BY <1>0, <1>k, GapsKept
    <2>2. HoldersStay
        BY <1>k DEF HoldersStay, Holding
    <2> QED BY <1>0, <1>k, <2>1, <2>2, ReservationsKept DEF ReservationInv
<1>1. ASSUME NEW c \in Calls, NEW kind \in EngineKinds, StartEngine(c, kind) PROVE ReservationInv'
    <2>1. PICK s \in Symbols :
            call' = [call EXCEPT ![c] = Entered(kind, s, Symbols \ {s}, ScanWindow)]
        BY <1>1 DEF StartEngine
    <2>2. call[c].pc = "new" /\ inFlight' = inFlight
        BY <1>1 DEF StartEngine
    <2>3. call'[c].gaps = {}
        BY <1>0, <2>1 DEF Entered
    <2> QED BY <1>0, <1>k, <2>1, <2>2, <2>3 DEF Holding
<1>2. ASSUME NEW c \in Calls, NEW s \in Symbols, NEW win \in Ranges, StartManual(c, s, win)
      PROVE  ReservationInv'
    <2>1. call'[c].gaps = {}
        BY <1>0, <1>2 DEF StartManual, Entered
    <2> QED BY <1>0, <1>2, <1>k, <2>1 DEF StartManual, Holding
<1>3. ASSUME NEW c \in Calls, NEW s \in Symbols, NEW win \in Ranges, StartRepair(c, s, win)
      PROVE  ReservationInv'
    <2> DEFINE runnable == Runnable(s, {win})
               rec == [Idle EXCEPT !.pc = IF runnable = {} THEN "done" ELSE "create",
                                   !.kind = "repair", !.sym = s, !.win = win,
                                   !.gaps = {win}, !.pending = runnable]
    <2>1. /\ call' = [call EXCEPT ![c] = rec] /\ inFlight' = Tracked(c, s, runnable)
          /\ call[c].pc = "new"
        BY <1>3 DEF StartRepair
    <2>2. /\ rec.gaps = {win} /\ rec.sym = s
          /\ rec.pc = IF runnable = {} THEN "done" ELSE "create"
        BY DEF Idle
    <2> HIDE DEF rec, runnable
    <2>3. call'[c] = rec /\ \A d \in Calls \ {c} : call'[d] = call[d]
        BY <1>0, <2>1
    <2>4. GapsApart'
        BY <1>0, <2>2, <2>3, GapsKept
    <2>5. ReservationsReleased' /\ InFlightDisjoint'
        <3>1. ~Holding(c)
            BY <2>1 DEF Holding
        <3>2. runnable # {} => call'[c].pc = "create" /\ call'[c].sym = s
            BY <2>2, <2>3
        <3>3. {win} \in SUBSET Ranges
            OBVIOUS
        <3> QED BY <1>0, <2>1, <2>3, <3>1, <3>2, <3>3, ReservationsAdded DEF runnable
    <2> QED BY <2>4, <2>5 DEF ReservationInv
<1>4. ASSUME NEW c \in Calls, ResolvePlan(c) PROVE ReservationInv'
    <2>1. inFlight' = inFlight /\ call[c].pc = "plan"
        BY <1>4 DEF ResolvePlan
    <2>2. CASE MovesOn(c, FALSE)
        BY <2>1, <2>2, MovesOnKeepsReservations DEF Holding
    <2>3. CASE \E plan : call' = [call EXCEPT ![c].pc = "detect", ![c].win = plan]
        <3>1. PICK plan : call' = [call EXCEPT ![c].pc = "detect", ![c].win = plan]
            BY <2>3
        <3>2. call'[c].gaps = call[c].gaps /\ \A d \in Calls \ {c} : call'[d] = call[d]
            BY <1>0, <3>1 DEF CallRec
        <3> QED BY <1>0, <1>k, <2>1, <3>2 DEF Holding, GapsApart
    <2> QED BY <1>4, <2>2, <2>3 DEF ResolvePlan
<1>5. ASSUME NEW c \in Calls, ResolvePlanFails(c) \/ DetectFails(c) PROVE ReservationInv'
    BY <1>5, MovesOnKeepsReservations DEF ResolvePlanFails, DetectFails, Holding
<1>6. ASSUME NEW c \in Calls, DetectGaps(c) PROVE ReservationInv'
    <2> DEFINE missing == MissingIn(call[c].win, stored[call[c].sym])
    <2>1. call[c].win \in Ranges
        BY <1>0 DEF CallRec
    <2>2. missing \subseteq Int
        BY <2>1, EngineAssumption DEF MissingIn, Ranges, capEndToClosedCandles, floorToStep
    <2>3. /\ call' = [call EXCEPT ![c].pc = "reserve", ![c].gaps = GapRanges(missing)]
          /\ inFlight' = inFlight /\ call[c].pc = "detect"
        BY <1>6 DEF DetectGaps
    <2> HIDE DEF missing
    <2>4. call'[c].gaps = GapRanges(missing) /\ \A d \in Calls \ {c} : call'[d] = call[d]
        BY <1>0, <2>3 DEF CallRec
    <2>5. \A g, h \in call'[c].gaps : g # h => ~rangesOverlap(g, h)
        BY <2>2, <2>4, GapRangesDisjoint
    <2>6. ~Holding(c)
        BY <2>3 DEF Holding
    <2> QED BY <1>k, <2>3, <2>4, <2>5, <2>6
<1>7. ASSUME NEW c \in Calls, Reserve(c) PROVE ReservationInv'
    <2> DEFINE s == call[c].sym
               runnable == Runnable(s, call[c].gaps)
    <2>1. CASE runnable = {}
        BY <1>7, <2>1, LeavesWindowKeepsReservations DEF Reserve
    <2>2. CASE runnable # {}
        <3>1. /\ inFlight' = Tracked(c, s, runnable)
              /\ call' = [call EXCEPT ![c].pc = "create", ![c].pending = runnable]
              /\ call[c].pc = "reserve"
            BY <1>7, <2>2 DEF Reserve
        <3> HIDE DEF runnable
        <3>2. /\ call'[c].gaps = call[c].gaps /\ call'[c].pc = "create" /\ call'[c].sym = s
              /\ \A d \in Calls \ {c} : call'[d] = call[d]
            BY <1>0, <3>1 DEF CallRec
        <3>3. GapsApart'
            BY <1>0, <3>2, GapsKept DEF GapsApart
        <3>4. s \in Symbols /\ call[c].gaps \in SUBSET Ranges /\ ~Holding(c)
            BY <1>0, <3>1 DEF CallRec, Holding
        <3>5. ReservationsReleased' /\ InFlightDisjoint'
            <4>1. \A g, h \in call[c].gaps : g # h => ~rangesOverlap(g, h)
                BY <1>0 DEF GapsApart
            <4> HIDE DEF s
            <4> QED BY <1>0, <3>1, <3>2, <3>4, <4>1, ReservationsAdded DEF runnable
        <3> QED BY <3>3, <3>5 DEF ReservationInv
    <2> QED BY <2>1, <2>2
<1>8. ASSUME NEW c \in Calls, CreateJob(c) PROVE ReservationInv'
    <2>1. PICK r \in call[c].pending :
            call' = [call EXCEPT ![c].pc = IF call[c].pending \ {r} = {} THEN "run" ELSE "create",
                                 ![c].pending = call[c].pending \ {r}]
        BY <1>8 DEF CreateJob
    <2>2. /\ call'[c].gaps = call[c].gaps /\ call'[c].sym = call[c].sym
          /\ call'[c].pc \in {"create", "run"}
          /\ \A d \in Calls \ {c} : call'[d] = call[d]
        BY <1>0, <2>1 DEF CallRec
    <2>3. inFlight' = inFlight
        BY <1>8 DEF CreateJob
    <2> QED BY <1>0, <1>k, <2>2, <2>3 DEF Holding, GapsApart
<1>9. ASSUME NEW c \in Calls, CreateFails(c) PROVE ReservationInv'
    BY <1>9, LeavesWindowKeepsReservations DEF CreateFails
<1>10. ASSUME NEW c \in Calls,
              RecordCreate(c) \/ RecordRunning(c) \/ RecordSucceeded(c) \/ RecordFails(c)
       PROVE  ReservationInv'
    <2>1. /\ inFlight' = inFlight /\ ~Holding(c)
          /\ \E pc \in CallPcs : call' = [call EXCEPT ![c].pc = pc]
        BY <1>10 DEF RecordCreate, RecordRunning, RecordSucceeded, RecordFails, Holding, CallPcs
    <2>2. call'[c].gaps = call[c].gaps /\ \A d \in Calls \ {c} : call'[d] = call[d]
        BY <1>0, <2>1 DEF CallRec
    <2> QED BY <1>0, <1>k, <2>1, <2>2 DEF GapsApart
<1>11. ASSUME NEW id \in DOMAIN worker, WorkerSteps(id) PROVE ReservationInv'
    <2>1. CallOf(id) \in Calls
        BY DEF TypeOK, JobIds, CallOf
    <2>2. \/ LeavesWindow(CallOf(id), FALSE)
          \/ call' = call /\ inFlight' = inFlight
        BY <1>11 DEF WorkerSteps, MarkRunning, MarkRunningFails, AttemptWrites, AttemptBreaks,
                     MarkSucceeded, MarkSucceededFails, RetryJob, MarkFailed, MarkFailedFails,
                     RunJobReturns
    <2> QED BY <2>1, <2>2, NothingReserved, LeavesWindowKeepsReservations
<1>12. ASSUME NEW s \in Symbols, StreamStores(s) PROVE ReservationInv'
    BY <1>12, NothingReserved DEF StreamStores
<1>13. CASE UNCHANGED vars
    BY <1>13, NothingReserved DEF vars
<1> QED
    BY <1>1, <1>2, <1>3, <1>4, <1>5, <1>6, <1>7, <1>8, <1>9, <1>10, <1>11, <1>12, <1>13
       DEF Next, Starts, CallSteps

LEMMA ReservationInit == Init => ReservationInv
<1> SUFFICES ASSUME Init PROVE ReservationInv
    OBVIOUS
<1>1. GapsApart
    BY DEF Init, GapsApart, Idle
<1>2. ReservationsReleased /\ InFlightDisjoint
    BY DEF Init, ReservationsReleased, InFlightDisjoint
<1> QED BY <1>1, <1>2 DEF ReservationInv

\* Gap lists stay apart, reservations are released, ranges in flight are
\* disjoint: together they are inductive.
THEOREM ReservationsHold == Spec => []ReservationInv
<1>1. Init => TypeOK /\ ReservationInv
    BY ReservationInit, TypeOKInit
<1>2. TypeOK /\ ReservationInv /\ [Next]_vars => (TypeOK /\ ReservationInv)'
    BY TypeOKStep, ReservationStep
<1> QED BY <1>1, <1>2, PTL DEF Spec

\* Ranges in flight for one symbol never overlap, whatever the calls and
\* however they interleave.
THEOREM InFlightDisjointHolds == Spec => []InFlightDisjoint
<1>1. ReservationInv => InFlightDisjoint
    BY DEF ReservationInv
<1> QED BY <1>1, ReservationsHold, PTL

\* No call keeps a reservation after it left runWindow, on any path.
THEOREM ReservationsReleasedHolds == Spec => []ReservationsReleased
<1>1. ReservationInv => ReservationsReleased
    BY DEF ReservationInv
<1> QED BY <1>1, ReservationsHold, PTL

-----------------------------------------------------------------------------
\* The parts of RowsFollowReservation, per call and per row.

CallOK(c) ==
    /\ call[c].sym \notin call[c].todo
    /\ call[c].pc = "create" =>
          /\ \A r \in call[c].pending : Reserved(<<c, call[c].sym, r>>)
          /\ \A id \in JobsOf(c, call[c].sym) : Reserved(id)

RowOK(id) ==
    /\ SymbolOf(id) \notin call[CallOf(id)].todo
    /\ call[CallOf(id)].pc # "new"
    /\ call[CallOf(id)].sym = SymbolOf(id)
          => call[CallOf(id)].pc \notin {"plan", "detect", "reserve"}

LaneOK(id) == Unfinished(id) => Awaited(id) /\ Reserved(id)

LEMMA LiveJobsParts ==
    LiveJobsInv <=> /\ \A c \in Calls : CallOK(c)
                    /\ \A id \in DOMAIN job : RowOK(id)
                    /\ \A id \in DOMAIN worker : LaneOK(id)
BY DEF LiveJobsInv, RowsFollowReservation, UnfinishedJobsReserved, CallOK, RowOK, LaneOK

\* A step that is c's alone: the other calls and what they reserved stay.
OthersStay(c) ==
    /\ \A d \in Calls \ {c} : call'[d] = call[d]
    /\ \A s \in Symbols : \A e \in inFlight[s] : e.owner # c => e \in inFlight'[s]

LEMMA LiveJobsFrame ==
    ASSUME TypeOK, TypeOK', LiveJobsInv, NEW c \in Calls, OthersStay(c),
           \A id \in DOMAIN job' : id \in DOMAIN job \/ CallOf(id) = c,
           CallOK(c)',
           \A id \in DOMAIN job' : CallOf(id) = c => RowOK(id)',
           \A id \in DOMAIN worker' :
              \/ id \in DOMAIN worker /\ worker'[id].pc = worker[id].pc /\ CallOf(id) # c
              \/ LaneOK(id)'
    PROVE  LiveJobsInv'
<1>0. \A id \in JobIds : CallOf(id) \in Calls /\ SymbolOf(id) \in Symbols
    BY DEF JobIds, CallOf, SymbolOf
<1>r. ASSUME NEW id, CallOf(id) \in Calls \ {c}, SymbolOf(id) \in Symbols, Reserved(id)
      PROVE  Reserved(id)'
    <2> DEFINE e == [owner |-> CallOf(id), range |-> RangeOf(id)]
    <2>1. e \in inFlight[SymbolOf(id)] /\ e.owner # c
        BY <1>r DEF Reserved
    <2>2. e \in inFlight'[SymbolOf(id)]
        BY <1>r, <2>1 DEF OthersStay
    <2> QED BY <2>2 DEF Reserved
<1>1. ASSUME NEW d \in Calls \ {c} PROVE CallOK(d)'
    <2>1. call'[d] = call[d] /\ CallOK(d) /\ call[d].sym \in Symbols
        BY LiveJobsParts DEF OthersStay, TypeOK
    <2>2. CASE call[d].pc = "create"
        <3>1. \A r \in call[d].pending : Reserved(<<d, call[d].sym, r>>)'
            <4>1. \A r : CallOf(<<d, call[d].sym, r>>) = d /\ SymbolOf(<<d, call[d].sym, r>>) = call[d].sym
                BY DEF CallOf, SymbolOf
            <4> QED BY <1>r, <2>1, <2>2, <4>1 DEF CallOK
        <3>2. \A id \in JobsOf(d, call[d].sym)' : Reserved(id)'
            <4> SUFFICES ASSUME NEW id \in JobsOf(d, call[d].sym)' PROVE Reserved(id)'
                OBVIOUS
            <4>1. id \in DOMAIN job' /\ CallOf(id) = d /\ SymbolOf(id) = call[d].sym
                BY <2>1 DEF JobsOf
            <4>2. id \in JobsOf(d, call[d].sym)
                BY <4>1 DEF JobsOf
            <4> QED BY <1>r, <2>1, <2>2, <4>1, <4>2 DEF CallOK
        <3> QED BY <2>1, <3>1, <3>2 DEF CallOK
    <2>3. CASE call[d].pc # "create"
        BY <2>1, <2>3 DEF CallOK
    <2> QED BY <2>2, <2>3
<1>2. ASSUME NEW id \in DOMAIN job', CallOf(id) # c PROVE RowOK(id)'
    <2>1. id \in DOMAIN job /\ id \in JobIds
        BY <1>2 DEF TypeOK
    <2>2. RowOK(id) /\ call'[CallOf(id)] = call[CallOf(id)]
        BY <1>0, <1>2, <2>1, LiveJobsParts DEF OthersStay
    <2> QED BY <2>2 DEF RowOK
<1>3. ASSUME NEW id \in DOMAIN worker', id \in DOMAIN worker, worker'[id].pc = worker[id].pc,
             CallOf(id) # c
      PROVE  LaneOK(id)'
    <2>1. LaneOK(id) /\ CallOf(id) \in Calls \ {c} /\ SymbolOf(id) \in Symbols
        BY <1>0, <1>3, LiveJobsParts DEF TypeOK
    <2>2. call'[CallOf(id)] = call[CallOf(id)]
        BY <2>1 DEF OthersStay
    <2>3. Unfinished(id)' => Unfinished(id)
        BY <1>3 DEF Unfinished
    <2>4. Awaited(id) => Awaited(id)'
        BY <2>2 DEF Awaited
    <2> QED BY <1>r, <2>1, <2>3, <2>4 DEF LaneOK
<1>4. \A d \in Calls : CallOK(d)'
    BY <1>1
<1>5. \A id \in DOMAIN job' : RowOK(id)'
    BY <1>2
<1>6. \A id \in DOMAIN worker' : LaneOK(id)'
    BY <1>3
<1> QED BY <1>4, <1>5, <1>6
        DEF LiveJobsInv, RowsFollowReservation, UnfinishedJobsReserved, CallOK, RowOK, LaneOK

-----------------------------------------------------------------------------
\* Leaving runWindow with no unfinished job of the call.

LEMMA LiveJobsMoveOn ==
    ASSUME TypeOK, TypeOK', LiveJobsInv, NEW c \in Calls, NEW records \in BOOLEAN,
           MovesOn(c, records), call[c].pc # "new",
           \A s \in Symbols : \A e \in inFlight[s] : e.owner # c => e \in inFlight'[s],
           DOMAIN job' = DOMAIN job,
           \A id \in DOMAIN worker' :
              \/ id \in DOMAIN worker /\ worker'[id].pc = worker[id].pc /\ CallOf(id) # c
              \/ ~Unfinished(id)'
    PROVE  LiveJobsInv'
<1>1. /\ \A d \in Calls \ {c} : call'[d] = call[d]
      /\ \/ /\ call'[c].pc \in {"record", "done"}
            /\ call'[c].sym = call[c].sym /\ call'[c].todo = call[c].todo
         \/ /\ call'[c].pc \in {"plan", "detect"}
            /\ call'[c].sym \in call[c].todo
            /\ call'[c].todo = call[c].todo \ {call'[c].sym}
    BY MovesOnFacts
<1>2. OthersStay(c)
    BY <1>1 DEF OthersStay
<1>3. CallOK(c)'
    <2>1. call[c].sym \notin call[c].todo
        BY LiveJobsParts DEF CallOK
    <2> QED BY <1>1, <2>1 DEF CallOK
<1>4. ASSUME NEW id \in DOMAIN job', CallOf(id) = c PROVE RowOK(id)'
    <2>1. RowOK(id)
        BY <1>4, LiveJobsParts
    <2> QED BY <1>1, <1>4, <2>1 DEF RowOK
<1>5. \A id \in DOMAIN worker' : ~Unfinished(id)' => LaneOK(id)'
    BY DEF LaneOK
<1> QED BY <1>2, <1>3, <1>4, <1>5, LiveJobsFrame

\* The reservations of the other calls survive the release.
LEMMA UntrackedKeepsOthers ==
    ASSUME TypeOK, NEW c \in Calls, inFlight' = Untracked(c)
    PROVE  \A s \in Symbols : \A e \in inFlight[s] : e.owner # c => e \in inFlight'[s]
BY DEF TypeOK, Untracked

\* A call that does not wait for lanes has no unfinished job.
LEMMA NothingUnfinished ==
    ASSUME LiveJobsInv, NEW c \in Calls, call[c].pc # "run",
           NEW id \in DOMAIN worker, CallOf(id) = c
    PROVE  ~Unfinished(id)
BY LiveJobsParts DEF LaneOK, Awaited

LEMMA IdleLanes ==
    ASSUME LiveJobsInv, NEW c \in Calls, call[c].pc # "run", worker' = worker
    PROVE  \A id \in DOMAIN worker' :
              \/ id \in DOMAIN worker /\ worker'[id].pc = worker[id].pc /\ CallOf(id) # c
              \/ ~Unfinished(id)' /\ LaneOK(id)'
<1> SUFFICES ASSUME NEW id \in DOMAIN worker, CallOf(id) = c
             PROVE  ~Unfinished(id)' /\ LaneOK(id)'
    OBVIOUS
<1>1. ~Unfinished(id)
    BY NothingUnfinished
<1> QED BY <1>1 DEF Unfinished, LaneOK
-----------------------------------------------------------------------------
\* Where a lane may go within one call.

\* A step that leaves the calls, the reservations and the set of rows alone,
\* and revives no job.
LEMMA LaneMoves ==
    ASSUME LiveJobsInv, call' = call, inFlight' = inFlight,
           DOMAIN job' = DOMAIN job, DOMAIN worker' = DOMAIN worker,
           \A i \in DOMAIN worker : Unfinished(i)' => Unfinished(i)
    PROVE  LiveJobsInv'
<1>1. \A c \in Calls : CallOK(c)'
    <2> SUFFICES ASSUME NEW c \in Calls PROVE CallOK(c)'
        OBVIOUS
    <2>1. CallOK(c) /\ JobsOf(c, call[c].sym)' = JobsOf(c, call[c].sym)
        BY LiveJobsParts DEF JobsOf
    <2> QED BY <2>1 DEF CallOK, Reserved
<1>2. \A i \in DOMAIN job' : RowOK(i)'
    BY LiveJobsParts DEF RowOK
<1>3. \A i \in DOMAIN worker' : LaneOK(i)'
    BY LiveJobsParts DEF LaneOK, Awaited, Reserved
<1> QED BY <1>1, <1>2, <1>3
        DEF LiveJobsInv, RowsFollowReservation, UnfinishedJobsReserved, CallOK, RowOK, LaneOK

\* A lane returns: either its call goes on waiting, or every lane of the
\* window has returned and the call leaves.
LEMMA LaneReturns ==
    ASSUME TypeOK, TypeOK', LiveJobsInv, NEW id \in DOMAIN worker, Unfinished(id),
           RunJobReturns(id), DOMAIN job' = DOMAIN job
    PROVE  LiveJobsInv'
<1> DEFINE c  == CallOf(id)
           w1 == [worker EXCEPT ![id].pc = "returned"]
           w  == LaneTakesNext(id, w1)
<1>1. c \in Calls /\ call[c].pc = "run" /\ call[c].sym = SymbolOf(id)
    BY LiveJobsParts DEF TypeOK, JobIds, CallOf, LaneOK, Awaited
<1>2. worker' = w
    BY DEF RunJobReturns
<1>3. DOMAIN w1 = DOMAIN worker /\ w1[id].pc = "returned"
      /\ \A i \in DOMAIN worker : i # id => w1[i] = worker[i]
    BY DEF TypeOK
<1>4. /\ DOMAIN worker' = DOMAIN worker
      /\ \A i \in DOMAIN worker : Unfinished(i)' => i # id /\ Unfinished(i)
    <2> HIDE DEF w1
    <2>1. DOMAIN w = DOMAIN worker
        BY <1>3 DEF LaneTakesNext
    <2>2. ASSUME NEW i \in DOMAIN worker, w[i].pc \notin {"returned", "threw"}
          PROVE  i # id /\ Unfinished(i)
        <3>1. CASE w[i] = w1[i]
            BY <1>3, <2>2, <3>1 DEF Unfinished
        <3>2. CASE w1[i].pc = "queued"
            BY <1>3, <3>2 DEF Unfinished
        <3> QED BY <1>3, <3>1, <3>2 DEF LaneTakesNext
    <2> QED BY <1>2, <2>1, <2>2 DEF Unfinished
<1>5. CASE \A i \in Peers(id) : w[i].pc = "returned"
    <2>1. ASSUME NEW i \in DOMAIN worker', CallOf(i) = c PROVE ~Unfinished(i)'
        <3> HIDE DEF w
        <3>1. i \in DOMAIN worker /\ LaneOK(i)
            BY <1>4, <2>1, LiveJobsParts
        <3>2. CASE i \in Peers(id)
            BY <1>2, <1>5, <3>2 DEF Unfinished
        <3>3. CASE i \notin Peers(id)
            BY <1>1, <1>4, <2>1, <3>1, <3>3 DEF Peers, LaneOK, Awaited
        <3> QED BY <3>2, <3>3
    <2>2. ASSUME NEW i \in DOMAIN worker', CallOf(i) # c
          PROVE  i \in DOMAIN worker /\ worker'[i].pc = worker[i].pc
        <3>1. i \in DOMAIN worker /\ i \notin Peers(id) /\ i # id
            BY <1>4, <2>2 DEF Peers
        <3> QED BY <1>2, <1>3, <3>1 DEF LaneTakesNext
    <2>3. MovesOn(c, FALSE) /\ inFlight' = Untracked(c)
        BY <1>1, <1>5 DEF RunJobReturns, Awaited, LeavesWindow
    <2> HIDE DEF c
    <2>4. \A i \in DOMAIN worker' :
             \/ i \in DOMAIN worker /\ worker'[i].pc = worker[i].pc /\ CallOf(i) # c
             \/ ~Unfinished(i)'
        BY <2>1, <2>2
    <2>5. \A s \in Symbols : \A e \in inFlight[s] : e.owner # c => e \in inFlight'[s]
        BY <1>1, <2>3, UntrackedKeepsOthers
    <2> QED BY <1>1, <2>3, <2>4, <2>5, LiveJobsMoveOn
<1>6. CASE ~(\A i \in Peers(id) : w[i].pc = "returned")
    <2>1. UNCHANGED <<inFlight, call, isEngineBusy>>
        BY <1>6 DEF RunJobReturns
    <2> QED BY <1>4, <2>1, LaneMoves
<1> QED BY <1>5, <1>6

-----------------------------------------------------------------------------
\* Every step keeps LiveJobsInv.

LEMMA LiveJobsStep ==
    ASSUME "markFailed" \notin Faults, TypeOK, TypeOK', LiveJobsInv, [Next]_vars
    PROVE  LiveJobsInv'
<1>0. call \in [Calls -> CallRec]
    BY TypeOKParts
<1>new. ASSUME NEW c \in Calls, call[c].pc = "new"
        PROVE  \A id \in DOMAIN job : CallOf(id) # c
    BY <1>new, LiveJobsParts DEF RowOK
<1>m. ASSUME NEW c \in Calls, NEW records \in BOOLEAN, MovesOn(c, records) \/ LeavesWindow(c, records),
             LeavesWindow(c, records) \/ inFlight' = inFlight,
             call[c].pc \notin {"new", "run"}, job' = job, worker' = worker
      PROVE  LiveJobsInv'
    <2>1. MovesOn(c, records) /\ (inFlight' = Untracked(c) \/ inFlight' = inFlight)
        BY <1>m DEF LeavesWindow
    <2>2. \A s \in Symbols : \A e \in inFlight[s] : e.owner # c => e \in inFlight'[s]
        BY <2>1, UntrackedKeepsOthers
    <2> QED BY <1>m, <2>1, <2>2, IdleLanes, LiveJobsMoveOn
<1>1. ASSUME NEW c \in Calls, NEW kind \in EngineKinds, StartEngine(c, kind) PROVE LiveJobsInv'
    <2>1. PICK s \in Symbols :
            call' = [call EXCEPT ![c] = Entered(kind, s, Symbols \ {s}, ScanWindow)]
        BY <1>1 DEF StartEngine
    <2>2. call'[c] = Entered(kind, s, Symbols \ {s}, ScanWindow) /\ OthersStay(c)
        BY <1>0, <1>1, <2>1 DEF OthersStay, StartEngine
    <2>3. CallOK(c)'
        BY <2>2 DEF CallOK, Entered
    <2>4. call[c].pc = "new" /\ job' = job /\ worker' = worker
        BY <1>1 DEF StartEngine
    <2> QED BY <1>new, <2>2, <2>3, <2>4, IdleLanes, LiveJobsFrame
<1>2. ASSUME NEW c \in Calls, NEW s \in Symbols, NEW win \in Ranges, StartManual(c, s, win)
      PROVE  LiveJobsInv'
    <2>1. call'[c] = Entered("manual", s, {}, win) /\ OthersStay(c)
        BY <1>0, <1>2 DEF OthersStay, StartManual
    <2>2. CallOK(c)'
        BY <2>1 DEF CallOK, Entered
    <2>3. call[c].pc = "new" /\ job' = job /\ worker' = worker
        BY <1>2 DEF StartManual
    <2> QED BY <1>new, <2>1, <2>2, <2>3, IdleLanes, LiveJobsFrame
<1>3. ASSUME NEW c \in Calls, NEW s \in Symbols, NEW win \in Ranges, StartRepair(c, s, win)
      PROVE  LiveJobsInv'
    <2> DEFINE runnable == Runnable(s, {win})
               rec == [Idle EXCEPT !.pc = IF runnable = {} THEN "done" ELSE "create",
                                   !.kind = "repair", !.sym = s, !.win = win,
                                   !.gaps = {win}, !.pending = runnable]
               new == {[owner |-> c, range |-> r] : r \in runnable}
    <2>1. /\ call' = [call EXCEPT ![c] = rec] /\ inFlight' = Tracked(c, s, runnable)
          /\ call[c].pc = "new" /\ job' = job /\ worker' = worker
        BY <1>3 DEF StartRepair
    <2>2. rec.sym = s /\ rec.todo = {} /\ rec.pending = runnable
        BY DEF Idle
    <2>3. inFlight' = [inFlight EXCEPT ![s] = @ \union new]
        BY <2>1 DEF Tracked
    <2>4. \A r \in runnable : [owner |-> c, range |-> r] \in new
        OBVIOUS
    <2> HIDE DEF rec, runnable, new
    <2>5. call'[c] = rec /\ OthersStay(c)
        BY <1>0, <2>1, <2>3 DEF OthersStay, TypeOK
    <2>6. \A r \in runnable : Reserved(<<c, s, r>>)'
        BY <2>3, <2>4 DEF Reserved, CallOf, SymbolOf, RangeOf, TypeOK
    <2>7. JobsOf(c, s)' = {}
        BY <1>new, <2>1 DEF JobsOf
    <2>8. CallOK(c)'
        BY <2>2, <2>5, <2>6, <2>7 DEF CallOK
    <2> QED BY <1>new, <2>1, <2>5, <2>8, IdleLanes, LiveJobsFrame
<1>d. ASSUME NEW c \in Calls, call[c].pc \in {"plan", "detect"}, call'[c].pc \in {"detect", "reserve"},
             call'[c].sym = call[c].sym, call'[c].todo = call[c].todo,
             \A d \in Calls \ {c} : call'[d] = call[d],
             inFlight' = inFlight, job' = job, worker' = worker
      PROVE  LiveJobsInv'
    <2>1. OthersStay(c)
        BY <1>d DEF OthersStay
    <2>2. CallOK(c)'
        BY <1>d, LiveJobsParts DEF CallOK
    <2>3. \A id \in DOMAIN job' : CallOf(id) = c => RowOK(id)'
        BY <1>d, LiveJobsParts DEF RowOK
    <2> QED BY <1>d, <2>1, <2>2, <2>3, IdleLanes, LiveJobsFrame
<1>4. ASSUME NEW c \in Calls, ResolvePlan(c) PROVE LiveJobsInv'
    <2>1. call[c].pc = "plan" /\ inFlight' = inFlight /\ job' = job /\ worker' = worker
        BY <1>4 DEF ResolvePlan
    <2>2. CASE MovesOn(c, FALSE)
        BY <1>m, <2>1, <2>2
    <2>3. CASE \E plan : call' = [call EXCEPT ![c].pc = "detect", ![c].win = plan]
        <3>1. PICK plan : call' = [call EXCEPT ![c].pc = "detect", ![c].win = plan]
            BY <2>3
        <3>2. /\ call'[c].pc = "detect" /\ call'[c].sym = call[c].sym /\ call'[c].todo = call[c].todo
              /\ \A d \in Calls \ {c} : call'[d] = call[d]
            BY <1>0, <3>1 DEF CallRec
        <3> QED BY <1>d, <2>1, <3>2
    <2> QED BY <1>4, <2>2, <2>3 DEF ResolvePlan
<1>5. ASSUME NEW c \in Calls, ResolvePlanFails(c) \/ DetectFails(c) PROVE LiveJobsInv'
    BY <1>5, <1>m DEF ResolvePlanFails, DetectFails
<1>6. ASSUME NEW c \in Calls, DetectGaps(c) PROVE LiveJobsInv'
    <2> DEFINE found == GapRanges(MissingIn(call[c].win, stored[call[c].sym]))
    <2>1. /\ call' = [call EXCEPT ![c].pc = "reserve", ![c].gaps = found]
          /\ call[c].pc = "detect" /\ inFlight' = inFlight /\ job' = job /\ worker' = worker
        BY <1>6 DEF DetectGaps
    <2> HIDE DEF found
    <2>2. /\ call'[c].pc = "reserve" /\ call'[c].sym = call[c].sym /\ call'[c].todo = call[c].todo
          /\ \A d \in Calls \ {c} : call'[d] = call[d]
        BY <1>0, <2>1 DEF CallRec
    <2> QED BY <1>d, <2>1, <2>2
<1>7. ASSUME NEW c \in Calls, Reserve(c) PROVE LiveJobsInv'
    <2> DEFINE s == call[c].sym
               runnable == Runnable(s, call[c].gaps)
               new == {[owner |-> c, range |-> r] : r \in runnable}
    <2>0. call[c].pc = "reserve" /\ job' = job /\ worker' = worker
        BY <1>7 DEF Reserve
    <2>1. CASE runnable = {}
        <3>1. LeavesWindow(c, call[c].kind = "manual") /\ (call[c].kind = "manual") \in BOOLEAN
            BY <1>7, <2>1 DEF Reserve
        <3> QED BY <1>m, <2>0, <3>1
    <2>2. CASE runnable # {}
        <3>1. /\ inFlight' = [inFlight EXCEPT ![s] = @ \union new]
              /\ call' = [call EXCEPT ![c].pc = "create", ![c].pending = runnable]
            BY <1>7, <2>2 DEF Reserve, Tracked
        <3>2. \A r \in runnable : [owner |-> c, range |-> r] \in new
            OBVIOUS
        <3>3. s \in Symbols
            BY <1>0 DEF CallRec
        <3> HIDE DEF runnable, new
        <3>4. /\ call'[c].sym = s /\ call'[c].todo = call[c].todo
              /\ call'[c].pc = "create" /\ call'[c].pending = runnable
              /\ OthersStay(c)
            BY <1>0, <3>1 DEF CallRec, OthersStay, TypeOK
        <3>5. \A r \in runnable : Reserved(<<c, s, r>>)'
            BY <3>1, <3>2, <3>3 DEF Reserved, CallOf, SymbolOf, RangeOf, TypeOK
        <3>6. JobsOf(c, call[c].sym)' = {}
            <4>1. ASSUME NEW id \in DOMAIN job, CallOf(id) = c, SymbolOf(id) = s PROVE FALSE
                <5>1. RowOK(id)
                    BY LiveJobsParts
                <5> QED BY <2>0, <4>1, <5>1 DEF RowOK
            <4> QED BY <2>0, <3>4, <4>1 DEF JobsOf
        <3>7. CallOK(c)'
            BY <3>4, <3>5, <3>6, LiveJobsParts DEF CallOK
        <3>8. \A id \in DOMAIN job' : CallOf(id) = c => RowOK(id)'
            BY <2>0, <3>4, LiveJobsParts DEF RowOK
        <3> QED BY <2>0, <3>4, <3>7, <3>8, IdleLanes, LiveJobsFrame
    <2> QED BY <2>1, <2>2
<1>8. ASSUME NEW c \in Calls, CreateJob(c) PROVE LiveJobsInv'
    <2> DEFINE s == call[c].sym
    <2>1. PICK r \in call[c].pending :
            LET rest == call[c].pending \ {r}
                ids  == JobsOf(c, s) \union {<<c, s, r>>}
            IN  /\ job' = [id \in DOMAIN job \union {<<c, s, r>>} |->
                             IF id = <<c, s, r>> THEN NewRow ELSE job[id]]
                /\ call' = [call EXCEPT ![c].pc = IF rest = {} THEN "run" ELSE "create",
                                        ![c].pending = rest]
                /\ IF rest = {}
                   THEN worker' = [id \in DOMAIN worker \union ids |->
                           IF id \notin ids THEN worker[id]
                           ELSE NewWorker(IF id \in FirstInLanes(ids) THEN "markRunning" ELSE "queued")]
                   ELSE worker' = worker
        BY <1>8 DEF CreateJob
    <2> DEFINE rest == call[c].pending \ {r}
               ids  == JobsOf(c, s) \union {<<c, s, r>>}
    <2>2. call[c].pc = "create" /\ inFlight' = inFlight
        BY <1>8 DEF CreateJob
    <2>3. DOMAIN job' = DOMAIN job \union {<<c, s, r>>}
        BY <2>1
    <2>4. /\ \A id \in ids : Reserved(id) /\ CallOf(id) = c /\ SymbolOf(id) = s
          /\ \A q \in rest : Reserved(<<c, s, q>>)
        <3>1. CallOf(<<c, s, r>>) = c /\ SymbolOf(<<c, s, r>>) = s
            BY DEF CallOf, SymbolOf
        <3>2. /\ \A q \in call[c].pending : Reserved(<<c, s, q>>)
              /\ \A id \in JobsOf(c, s) : Reserved(id)
            BY <2>2, LiveJobsParts DEF CallOK
        <3> QED BY <3>1, <3>2 DEF JobsOf
    <2>6. /\ call'[c].pc = (IF rest = {} THEN "run" ELSE "create") /\ call'[c].pending = rest
          /\ call'[c].sym = s /\ call'[c].todo = call[c].todo
          /\ OthersStay(c)
        <3>1. call' = [call EXCEPT ![c].pc = IF rest = {} THEN "run" ELSE "create", ![c].pending = rest]
            BY <2>1
        <3> HIDE DEF rest
        <3> QED BY <1>0, <2>2, <3>1 DEF CallRec, OthersStay
    <2>5. JobsOf(c, call[c].sym)' \subseteq ids
        BY <2>3, <2>6 DEF JobsOf
    <2>7. \A id : CallOf(id) = c /\ SymbolOf(id) = s /\ Reserved(id) => Reserved(id)'
        BY <2>2 DEF Reserved
    <2>8. CallOK(c)'
        <3>1. \A q \in rest : CallOf(<<c, s, q>>) = c /\ SymbolOf(<<c, s, q>>) = s
            BY DEF CallOf, SymbolOf
        <3>2. s \notin call[c].todo
            BY LiveJobsParts DEF CallOK
        <3>3. \A q \in call'[c].pending : Reserved(<<c, s, q>>)'
            BY <2>2, <2>4, <2>6 DEF Reserved
        <3>4. \A id \in JobsOf(c, call[c].sym)' : Reserved(id)'
            BY <2>4, <2>5, <2>7
        <3>5. call'[c].sym = s
            BY <2>6
        <3> HIDE DEF rest, ids
        <3> QED BY <2>6, <3>2, <3>3, <3>4, <3>5 DEF CallOK
    <2>9. ASSUME NEW id \in DOMAIN job', CallOf(id) = c PROVE RowOK(id)'
        <3>1. CASE id \in DOMAIN job
            BY <2>2, <2>6, <2>9, <3>1, LiveJobsParts DEF RowOK
        <3>2. CASE id = <<c, s, r>>
            BY <2>2, <2>4, <2>6, <3>2, LiveJobsParts DEF RowOK, CallOK
        <3> QED BY <2>3, <3>1, <3>2
    <2>10. ASSUME NEW id \in DOMAIN worker'
           PROVE  \/ id \in DOMAIN worker /\ worker'[id].pc = worker[id].pc /\ CallOf(id) # c
                  \/ LaneOK(id)'
        <3>1. CASE rest # {}
            <4>1. worker' = worker
                BY <2>1, <3>1
            <4> QED BY <2>2, <2>10, <4>1, IdleLanes
        <3>2. CASE rest = {} /\ id \in ids
            <4>1. CallOf(id) = c /\ SymbolOf(id) = s /\ Reserved(id)'
                BY <2>4, <2>7, <3>2
            <4> QED BY <2>6, <3>2, <4>1 DEF LaneOK, Awaited
        <3>3. CASE rest = {} /\ id \notin ids
            <4>1. id \in DOMAIN worker /\ worker'[id] = worker[id]
                BY <2>1, <2>10, <3>3
            <4>2. CallOf(id) = c => ~Unfinished(id)
                BY <2>2, <4>1, NothingUnfinished
            <4> QED BY <4>1, <4>2 DEF LaneOK, Unfinished
        <3> QED BY <3>1, <3>2, <3>3
    <2> HIDE DEF s, rest, ids
    <2>11. \A id \in DOMAIN job' : id \in DOMAIN job \/ CallOf(id) = c
        BY <2>3, <2>4 DEF ids
    <2> QED BY <2>6, <2>8, <2>9, <2>10, <2>11, LiveJobsFrame
<1>9. ASSUME NEW c \in Calls, CreateFails(c) PROVE LiveJobsInv'
    BY <1>9, <1>m DEF CreateFails
<1>10. ASSUME NEW c \in Calls,
              RecordCreate(c) \/ RecordRunning(c) \/ RecordSucceeded(c) \/ RecordFails(c)
       PROVE  LiveJobsInv'
    <2>1. /\ inFlight' = inFlight /\ worker' = worker
          /\ call[c].pc \in {"record", "recordRunning", "recordSucceeded"}
          /\ \E pc \in {"recordRunning", "recordSucceeded", "done"} : call' = [call EXCEPT ![c].pc = pc]
        BY <1>10 DEF RecordCreate, RecordRunning, RecordSucceeded, RecordFails
    <2>2. /\ call'[c].pc \in {"recordRunning", "recordSucceeded", "done"}
          /\ call'[c].sym = call[c].sym /\ call'[c].todo = call[c].todo
          /\ OthersStay(c)
        BY <1>0, <2>1 DEF CallRec, OthersStay
    <2>3. DOMAIN job' \subseteq DOMAIN job \union {RecordId(c)}
        <3>1. CASE RecordCreate(c)
            BY <3>1 DEF RecordCreate
        <3>2. CASE RecordRunning(c) \/ RecordSucceeded(c)
            BY <3>2 DEF RecordRunning, RecordSucceeded
        <3>3. CASE RecordFails(c)
            BY <3>3 DEF RecordFails
        <3> QED BY <1>10, <3>1, <3>2, <3>3
    <2>4. CallOf(RecordId(c)) = c /\ SymbolOf(RecordId(c)) = call[c].sym
        BY DEF RecordId, CallOf, SymbolOf
    <2>5. CallOK(c)'
        BY <2>2, LiveJobsParts DEF CallOK
    <2>6. ASSUME NEW id \in DOMAIN job', CallOf(id) = c PROVE RowOK(id)'
        <3>1. CASE id \in DOMAIN job
            BY <2>2, <2>6, <3>1, LiveJobsParts DEF RowOK
        <3>2. CASE id = RecordId(c)
            BY <2>2, <2>4, <2>6, <3>2, LiveJobsParts DEF RowOK, CallOK
        <3> QED BY <2>3, <3>1, <3>2
    <2> QED BY <2>1, <2>2, <2>3, <2>4, <2>5, <2>6, IdleLanes, LiveJobsFrame
<1>11. ASSUME NEW id \in DOMAIN worker, WorkerSteps(id) PROVE LiveJobsInv'
    <2>1. id \in DOMAIN job /\ worker \in [DOMAIN worker -> [pc : WorkerPcs, attempt : Nat]]
        BY DEF TypeOK
    <2>2. CASE MarkSucceeded(id) \/ MarkFailed(id)
        <3>1. RunJobReturns(id) /\ DOMAIN job' = DOMAIN job /\ Unfinished(id)
            BY <2>1, <2>2 DEF MarkSucceeded, MarkFailed, Unfinished, TypeOK
        <3> QED BY <3>1, LaneReturns
    <2>3. CASE \/ MarkRunning(id) \/ MarkRunningFails(id) \/ AttemptWrites(id)
               \/ \E m \in Candles : AttemptBreaks(id, m)
               \/ MarkSucceededFails(id) \/ RetryJob(id)
        <3>1. call' = call /\ inFlight' = inFlight /\ DOMAIN job' = DOMAIN job /\ Unfinished(id)
            BY <2>1, <2>3 DEF MarkRunning, MarkRunningFails, AttemptWrites, AttemptBreaks,
                         MarkSucceededFails, RetryJob, Unfinished, TypeOK
        <3>2. \E row : worker' = [worker EXCEPT ![id] = row]
            <4>1. \A pc : [worker EXCEPT ![id].pc = pc] = [worker EXCEPT ![id] = [worker[id] EXCEPT !.pc = pc]]
                OBVIOUS
            <4> QED BY <2>3, <4>1 DEF MarkRunning, MarkRunningFails, AttemptWrites, AttemptBreaks,
                         MarkSucceededFails, RetryJob, AttemptFails
        <3> QED BY <3>1, <3>2, LaneMoves DEF Unfinished
    <2> QED BY <1>11, <2>2, <2>3 DEF WorkerSteps, MarkFailedFails
<1>12. ASSUME NEW s \in Symbols, StreamStores(s) PROVE LiveJobsInv'
    BY <1>12, LaneMoves DEF StreamStores, Unfinished
<1>13. CASE UNCHANGED vars
    BY <1>13, LaneMoves DEF vars, Unfinished
<1> QED
    BY <1>1, <1>2, <1>3, <1>4, <1>5, <1>6, <1>7, <1>8, <1>9, <1>10, <1>11, <1>12, <1>13
       DEF Next, Starts, CallSteps

LEMMA LiveJobsInit == Init => LiveJobsInv
<1> SUFFICES ASSUME Init PROVE LiveJobsInv
    OBVIOUS
<1>1. DOMAIN job = {} /\ DOMAIN worker = {}
    BY DEF Init
<1>2. \A c \in Calls : CallOK(c)
    BY DEF Init, CallOK, Idle
<1> QED BY <1>1, <1>2, LiveJobsParts

\* Reservations that never overlap, each job at work holding its own.
LEMMA DisjointWhileReserved ==
    ASSUME TypeOK, InFlightDisjoint, LiveJobsInv PROVE LiveJobsDisjoint
<1> SUFFICES ASSUME NEW i \in DOMAIN worker, NEW j \in DOMAIN worker,
                    i # j, Live(i), Live(j), SymbolOf(i) = SymbolOf(j)
             PROVE  ~rangesOverlap(RangeOf(i), RangeOf(j))
    BY DEF LiveJobsDisjoint
<1>1. Reserved(i) /\ Reserved(j)
    BY LiveJobsParts DEF LaneOK, Unfinished, Live
<1>2. i \in JobIds /\ j \in JobIds
    BY DEF TypeOK
<1>3. i = <<CallOf(i), SymbolOf(i), RangeOf(i)>> /\ j = <<CallOf(j), SymbolOf(j), RangeOf(j)>>
    BY <1>2 DEF JobIds, CallOf, SymbolOf, RangeOf
<1>4. SymbolOf(i) \in Symbols
    BY <1>2 DEF JobIds, SymbolOf
<1> DEFINE e == [owner |-> CallOf(i), range |-> RangeOf(i)]
           f == [owner |-> CallOf(j), range |-> RangeOf(j)]
<1>5. e # f
    BY <1>3
<1>6. e \in inFlight[SymbolOf(i)] /\ f \in inFlight[SymbolOf(i)]
    BY <1>1 DEF Reserved
<1>7. ~rangesOverlap(e.range, f.range)
    BY <1>4, <1>5, <1>6 DEF InFlightDisjoint
<1> QED BY <1>7

\* Two jobs at work on one symbol never cover the same candle, whatever the
\* calls and faults, as long as markFailed does not throw.
THEOREM LiveJobsDisjointHolds ==
    ASSUME "markFailed" \notin Faults
    PROVE  Spec => []LiveJobsDisjoint
<1> DEFINE Inv == TypeOK /\ ReservationInv /\ LiveJobsInv
<1>1. Init => Inv
    BY TypeOKInit, ReservationInit, LiveJobsInit
<1>2. Inv /\ [Next]_vars => Inv'
    BY TypeOKStep, ReservationStep, LiveJobsStep
<1>3. Inv => LiveJobsDisjoint
    BY DisjointWhileReserved DEF ReservationInv
<1> QED BY <1>1, <1>2, <1>3, PTL DEF Spec

-----------------------------------------------------------------------------
\* The jobs: the invariant

\* All the candles of a job that REST has are stored.
Complete(id) == Fetchable(RangeOf(id)) \subseteq stored[SymbolOf(id)]

\* A lane that is about to say so, or a row that says so.
SaysDone(id) == worker[id].pc = "markSucceeded" \/ job[id].status = "succeeded"

\* A call makes rows of the symbol it is at, and of none it will still come to;
\* as long as it makes them, they are pending and have no lane.
RowFits(id) ==
    LET c == call[CallOf(id)] IN
    /\ SymbolOf(id) \notin c.todo
    /\ c.pc # "new"
    /\ c.sym = SymbolOf(id) =>
          /\ c.pc \notin {"plan", "detect", "reserve"}
          /\ c.pc = "create" => job[id].status = "pending" /\ id \notin DOMAIN worker

Recording == {"record", "recordRunning", "recordSucceeded"}

\* A manual request that records a job of its own has no other for the symbol.
LaneFits(id) == call[CallOf(id)].pc \in Recording => call[CallOf(id)].sym # SymbolOf(id)

StoredInv ==
    /\ \A c \in Calls : call[c].sym \notin call[c].todo
    /\ \A id \in DOMAIN job : RowFits(id)
    /\ \A id \in DOMAIN worker : LaneFits(id)
    /\ \A id \in DOMAIN worker : SaysDone(id) => Complete(id)

LEMMA StoredInvMeans == StoredInv => SucceededMeansStored
BY DEF StoredInv, SucceededMeansStored, SaysDone, Complete

LEMMA StoredInit == Init => StoredInv
<1> SUFFICES ASSUME Init PROVE StoredInv
    OBVIOUS
<1>1. DOMAIN job = {} /\ DOMAIN worker = {}
    BY DEF Init
<1>2. \A c \in Calls : call[c].sym \notin call[c].todo
    BY DEF Init, Idle
<1> QED BY <1>1, <1>2 DEF StoredInv

\* Where the identifier of a row comes from.
LEMMA IdParts ==
    ASSUME TypeOK
    PROVE  \A id \in DOMAIN job : CallOf(id) \in Calls /\ SymbolOf(id) \in Symbols
BY DEF TypeOK, JobIds, CallOf, SymbolOf

-----------------------------------------------------------------------------
\* Calls that move while rows, lanes and table stay

LEMMA CallMoves ==
    ASSUME TypeOK, StoredInv, NEW c \in Calls,
           UNCHANGED <<stored, job, worker>>,
           \A d \in Calls \ {c} : call'[d] = call[d],
           call'[c].sym \notin call'[c].todo,
           \A id \in DOMAIN job : CallOf(id) = c => RowFits(id)' /\ LaneFits(id)'
    PROVE  StoredInv'
<1>1. ASSUME NEW d \in Calls PROVE call'[d].sym \notin call'[d].todo
    BY DEF StoredInv
<1>2. ASSUME NEW id \in DOMAIN job PROVE RowFits(id)'
    <2>1. CASE CallOf(id) = c
        BY <2>1
    <2>2. CASE CallOf(id) # c
        <3>1. call'[CallOf(id)] = call[CallOf(id)] /\ RowFits(id)
            BY <2>2, IdParts DEF StoredInv
        <3> QED BY <3>1 DEF RowFits
    <2> QED BY <2>1, <2>2
<1>3. ASSUME NEW id \in DOMAIN worker PROVE LaneFits(id)'
    <2>1. id \in DOMAIN job
        BY DEF TypeOK
    <2>2. CASE CallOf(id) = c
        BY <2>1, <2>2
    <2>3. CASE CallOf(id) # c
        <3>1. call'[CallOf(id)] = call[CallOf(id)] /\ LaneFits(id)
            BY <2>1, <2>3, IdParts DEF StoredInv
        <3> QED BY <3>1 DEF LaneFits
    <2> QED BY <2>2, <2>3
<1>4. ASSUME NEW id \in DOMAIN worker, SaysDone(id)' PROVE Complete(id)'
    BY <1>4 DEF StoredInv, SaysDone, Complete
<1> QED BY <1>1, <1>2, <1>3, <1>4 DEF StoredInv

\* A call leaves runWindow and records nothing: it goes on with a symbol that has
\* no rows of it yet, or is done.
LEMMA MovesOnFits ==
    ASSUME TypeOK, StoredInv, NEW c \in Calls, MovesOn(c, FALSE), call[c].pc # "new"
    PROVE  /\ \A d \in Calls \ {c} : call'[d] = call[d]
           /\ call'[c].sym \notin call'[c].todo
           /\ call'[c].pc \in {"plan", "detect", "done"}
           /\ \A id \in DOMAIN job : CallOf(id) = c =>
                 /\ SymbolOf(id) \notin call'[c].todo
                 /\ call'[c].sym = SymbolOf(id) => call'[c].pc = "done"
<1>1. /\ \A d \in Calls \ {c} : call'[d] = call[d]
      /\ \/ /\ call'[c].pc \in {"record", "done"}
            /\ call'[c].sym = call[c].sym /\ call'[c].todo = call[c].todo
         \/ /\ call'[c].pc \in {"plan", "detect"}
            /\ call'[c].sym \in call[c].todo
            /\ call'[c].todo = call[c].todo \ {call'[c].sym}
    BY MovesOnFacts
<1>2. call'[c].pc # "record"
    <2>1. call \in [Calls -> CallRec]
        BY DEF TypeOK, CallRec
    <2>2. CASE call[c].kind \in EngineKinds /\ call[c].todo # {}
        <3>1. PICK s \in call[c].todo :
                call' = [call EXCEPT ![c] = Entered(call[c].kind, s, call[c].todo \ {s}, ScanWindow)]
            BY <2>2 DEF MovesOn
        <3>2. call'[c] = Entered(call[c].kind, s, call[c].todo \ {s}, ScanWindow)
            BY <2>1, <3>1
        <3> QED BY <3>2 DEF Entered
    <2>3. CASE ~(call[c].kind \in EngineKinds /\ call[c].todo # {})
        <3>1. call' = [call EXCEPT ![c].pc = "done", ![c].pending = {}]
            BY <2>3 DEF MovesOn
        <3> QED BY <2>1, <3>1 DEF CallRec
    <2> QED BY <2>2, <2>3
<1>3. call[c].sym \notin call[c].todo
    BY DEF StoredInv
<1>4. \A id \in DOMAIN job : CallOf(id) = c => SymbolOf(id) \notin call[c].todo
    BY DEF StoredInv, RowFits
<1> QED BY <1>1, <1>2, <1>3, <1>4

LEMMA MovesOnKeeps ==
    ASSUME TypeOK, StoredInv, NEW c \in Calls, MovesOn(c, FALSE), call[c].pc # "new",
           UNCHANGED <<stored, job, worker>>
    PROVE  StoredInv'
<1>1. \A id \in DOMAIN job : CallOf(id) = c => RowFits(id)' /\ LaneFits(id)'
    BY MovesOnFits DEF RowFits, LaneFits, Recording
<1> QED BY <1>1, MovesOnFits, CallMoves

-----------------------------------------------------------------------------
\* Lanes

\* A step of a lane: one row may change, the table only grows, nobody says done
\* without being complete, and the call waits on or moves on.
LEMMA LaneSteps ==
    ASSUME TypeOK, StoredInv, NEW id \in DOMAIN worker,
           \A s \in Symbols : stored[s] \subseteq stored'[s],
           DOMAIN job' = DOMAIN job, \A i \in DOMAIN job \ {id} : job'[i] = job[i],
           DOMAIN worker' = DOMAIN worker,
           \A i \in DOMAIN worker : SaysDone(i)' => SaysDone(i) \/ Complete(i)',
           call' = call \/ MovesOn(CallOf(id), FALSE)
    PROVE  StoredInv'
<1> DEFINE c == CallOf(id)
<1>1. id \in DOMAIN job /\ c \in Calls
    BY IdParts DEF TypeOK
<1>2. ASSUME NEW i \in DOMAIN worker, SaysDone(i)' PROVE Complete(i)'
    <2>1. SymbolOf(i) \in Symbols
        BY IdParts DEF TypeOK
    <2>2. CASE SaysDone(i)
        BY <2>1, <2>2 DEF StoredInv, Complete
    <2> QED BY <1>2, <2>2
<1>3. \A i \in DOMAIN job :
          /\ RowFits(i)
          /\ i = id => ~(call[CallOf(i)].pc = "create" /\ call[CallOf(i)].sym = SymbolOf(i))
    BY DEF StoredInv, RowFits
<1>4. CASE call' = call
    <2>1. \A i \in DOMAIN job : RowFits(i)'
        BY <1>3, <1>4 DEF RowFits
    <2>2. \A i \in DOMAIN worker : LaneFits(i)'
        BY <1>4 DEF StoredInv, LaneFits
    <2> QED BY <1>2, <1>4, <2>1, <2>2 DEF StoredInv
<1>5. CASE MovesOn(c, FALSE)
    <2> HIDE DEF c
    <2>0. call[c].pc # "new"
        BY <1>1 DEF StoredInv, RowFits, c
    <2>1. /\ \A d \in Calls \ {c} : call'[d] = call[d]
          /\ call'[c].sym \notin call'[c].todo
          /\ call'[c].pc \in {"plan", "detect", "done"}
          /\ \A i \in DOMAIN job : CallOf(i) = c =>
                /\ SymbolOf(i) \notin call'[c].todo
                /\ call'[c].sym = SymbolOf(i) => call'[c].pc = "done"
        BY <1>1, <1>5, <2>0, MovesOnFits
    <2>2. ASSUME NEW i \in DOMAIN job PROVE RowFits(i)' /\ (i \in DOMAIN worker => LaneFits(i)')
        <3>1. CASE CallOf(i) = c
            BY <2>1, <3>1 DEF RowFits, LaneFits, Recording
        <3>2. CASE CallOf(i) # c
            <4>1. call'[CallOf(i)] = call[CallOf(i)]
                BY <2>1, <3>2, IdParts
            <4>2. i # id
                BY <3>2 DEF c
            <4> QED BY <1>3, <4>1, <4>2 DEF RowFits, LaneFits, StoredInv
        <3> QED BY <3>1, <3>2
    <2>3. \A d \in Calls : call'[d].sym \notin call'[d].todo
        BY <2>1 DEF StoredInv
    <2>4. DOMAIN worker \subseteq DOMAIN job
        BY DEF TypeOK
    <2> QED BY <1>2, <2>2, <2>3, <2>4 DEF StoredInv
<1> QED BY <1>4, <1>5

\* What runJob's return does to the lanes and to the call.
LEMMA ReturnKeepsPcs ==
    ASSUME TypeOK, NEW id \in DOMAIN worker, RunJobReturns(id)
    PROVE  /\ DOMAIN worker' = DOMAIN worker
           /\ \A i \in DOMAIN worker :
                 worker'[i].pc = "markSucceeded" => worker[i].pc = "markSucceeded" /\ i # id
           /\ call' = call \/ MovesOn(CallOf(id), FALSE)
<1> DEFINE w1 == [worker EXCEPT ![id].pc = "returned"]
<1>1. worker \in [DOMAIN worker -> [pc : WorkerPcs, attempt : Nat]]
    BY DEF TypeOK
<1>2. /\ DOMAIN w1 = DOMAIN worker
      /\ w1 \in [DOMAIN worker -> [pc : WorkerPcs, attempt : Nat]]
      /\ w1[id].pc = "returned" /\ \A i \in DOMAIN worker : i # id => w1[i] = worker[i]
    BY <1>1 DEF WorkerPcs
<1>3. worker' = LaneTakesNext(id, w1)
    BY DEF RunJobReturns
<1>4. call' = call \/ MovesOn(CallOf(id), FALSE)
    BY DEF RunJobReturns, LeavesWindow
<1> HIDE DEF w1
<1>5. /\ DOMAIN worker' = DOMAIN worker
      /\ \A i \in DOMAIN worker :
            \/ worker'[i] = w1[i]
            \/ worker'[i] = [w1[i] EXCEPT !.pc = "markRunning"]
    BY <1>2, <1>3 DEF LaneTakesNext
<1>6. ASSUME NEW i \in DOMAIN worker, worker'[i].pc = "markSucceeded"
      PROVE  worker[i].pc = "markSucceeded" /\ i # id
    <2>1. w1[i] \in [pc : WorkerPcs, attempt : Nat]
        BY <1>2
    <2>2. [w1[i] EXCEPT !.pc = "markRunning"].pc = "markRunning"
        BY <2>1
    <2>3. worker'[i] = w1[i]
        BY <1>5, <1>6, <2>2
    <2> QED BY <1>2, <1>6, <2>3
<1> QED BY <1>4, <1>5, <1>6

\* One step per action of a lane.
LEMMA WorkersKeep ==
    ASSUME TypeOK, StoredInv, NEW id \in DOMAIN worker, WorkerSteps(id)
    PROVE  StoredInv'
<1>0. /\ worker \in [DOMAIN worker -> [pc : WorkerPcs, attempt : Nat]]
      /\ job \in [DOMAIN job -> JobRow] /\ id \in DOMAIN job /\ SymbolOf(id) \in Symbols
      /\ stored \in [Symbols -> SUBSET Candles]
    BY IdParts DEF TypeOK
<1>1. CASE MarkRunning(id)
    <2>1. /\ job' = [job EXCEPT ![id] = [status |-> "running", attempts |-> @.attempts + 1]]
          /\ worker' = [worker EXCEPT ![id].pc = "attempt"] /\ UNCHANGED <<stored, call>>
        BY <1>1 DEF MarkRunning
    <2>2. \A i \in DOMAIN worker : SaysDone(i)' => SaysDone(i)
        BY <1>0, <2>1 DEF SaysDone
    <2> QED BY <1>0, <2>1, <2>2, LaneSteps
<1>2. CASE MarkRunningFails(id) \/ RetryJob(id)
    <2>1. /\ UNCHANGED <<stored, call, job>> /\ DOMAIN worker' = DOMAIN worker
          /\ \A i \in DOMAIN worker : worker'[i].pc = "markSucceeded" => worker[i].pc = "markSucceeded"
        BY <1>0, <1>2 DEF MarkRunningFails, RetryJob, AttemptFails
    <2>2. \A i \in DOMAIN worker : SaysDone(i)' => SaysDone(i)
        BY <2>1 DEF SaysDone
    <2> QED BY <1>0, <2>1, <2>2, LaneSteps
<1>3. CASE AttemptWrites(id)
    <2>1. /\ stored' = [stored EXCEPT ![SymbolOf(id)] = @ \union Fetchable(RangeOf(id))]
          /\ worker' = [worker EXCEPT ![id].pc = "markSucceeded"] /\ UNCHANGED <<call, job>>
        BY <1>3 DEF AttemptWrites
    <2>2. /\ \A s \in Symbols : stored[s] \subseteq stored'[s]
          /\ Complete(id)'
        BY <1>0, <2>1 DEF Complete
    <2>3. \A i \in DOMAIN worker : SaysDone(i)' => SaysDone(i) \/ Complete(i)'
        BY <1>0, <2>1, <2>2 DEF SaysDone
    <2>4. DOMAIN worker' = DOMAIN worker
        BY <2>1
    <2> QED BY <2>1, <2>2, <2>3, <2>4, LaneSteps
<1>4. ASSUME NEW m \in Candles, AttemptBreaks(id, m) PROVE StoredInv'
    <2>1. /\ UNCHANGED <<call, job>> /\ DOMAIN worker' = DOMAIN worker
          /\ \A i \in DOMAIN worker : worker'[i].pc = "markSucceeded" => worker[i].pc = "markSucceeded"
        BY <1>0, <1>4 DEF AttemptBreaks, AttemptFails
    <2>2. \A s \in Symbols : stored[s] \subseteq stored'[s]
        BY <1>0, <1>4 DEF AttemptBreaks
    <2>3. \A i \in DOMAIN worker : SaysDone(i)' => SaysDone(i)
        BY <2>1 DEF SaysDone
    <2> QED BY <2>1, <2>2, <2>3, LaneSteps
<1>5. CASE MarkSucceeded(id)
    <2>1. /\ worker[id].pc = "markSucceeded" /\ UNCHANGED stored
          /\ job' = [job EXCEPT ![id].status = "succeeded"] /\ RunJobReturns(id)
        BY <1>5 DEF MarkSucceeded
    <2>2. DOMAIN job' = DOMAIN job /\ \A i \in DOMAIN job \ {id} : job'[i] = job[i]
        BY <1>0, <2>1
    <2>3. \A i \in DOMAIN worker : SaysDone(i)' => SaysDone(i)
        <3>1. DOMAIN worker \subseteq DOMAIN job /\ SaysDone(id)
            BY <2>1 DEF TypeOK, SaysDone
        <3> QED BY <2>1, <2>2, <3>1, ReturnKeepsPcs DEF SaysDone
    <2> QED BY <1>0, <2>1, <2>2, <2>3, ReturnKeepsPcs, LaneSteps
<1>6. CASE MarkSucceededFails(id)
    <2>1. /\ worker[id].pc = "markSucceeded" /\ UNCHANGED <<stored, call>>
          /\ DOMAIN job' = DOMAIN job /\ \A i \in DOMAIN job \ {id} : job'[i] = job[i]
        BY <1>0, <1>6 DEF MarkSucceededFails
    <2>2. /\ DOMAIN worker' = DOMAIN worker
          /\ \A i \in DOMAIN worker : i # id => worker'[i] = worker[i]
        BY <1>0, <1>6 DEF MarkSucceededFails, AttemptFails
    <2>3. \A i \in DOMAIN worker : SaysDone(i)' => SaysDone(i)
        <3>1. SaysDone(id)
            BY <2>1 DEF SaysDone
        <3>2. DOMAIN worker \subseteq DOMAIN job
            BY DEF TypeOK
        <3> QED BY <2>1, <2>2, <3>1, <3>2 DEF SaysDone
    <2> QED BY <1>0, <2>1, <2>2, <2>3, LaneSteps
<1>7. CASE MarkFailed(id)
    <2>1. /\ UNCHANGED stored
          /\ job' = [job EXCEPT ![id].status = "failed"] /\ RunJobReturns(id)
        BY <1>7 DEF MarkFailed
    <2>2. DOMAIN job' = DOMAIN job /\ \A i \in DOMAIN job \ {id} : job'[i] = job[i]
        BY <1>0, <2>1
    <2>3. \A i \in DOMAIN worker : SaysDone(i)' => SaysDone(i)
        <3>1. DOMAIN worker \subseteq DOMAIN job
            BY DEF TypeOK
        <3>2. job'[id].status # "succeeded"
            BY <1>0, <2>1 DEF JobRow
        <3> QED BY <2>1, <2>2, <3>1, <3>2, ReturnKeepsPcs DEF SaysDone
    <2> QED BY <1>0, <2>1, <2>2, <2>3, ReturnKeepsPcs, LaneSteps
<1>8. CASE MarkFailedFails(id)
    <2>1. /\ UNCHANGED <<stored, job>> /\ worker' = [worker EXCEPT ![id].pc = "threw"]
          /\ call' = call \/ MovesOn(CallOf(id), FALSE)
        BY <1>8 DEF MarkFailedFails, LeavesWindow
    <2>2. /\ DOMAIN worker' = DOMAIN worker
          /\ \A i \in DOMAIN worker : SaysDone(i)' => SaysDone(i)
        BY <1>0, <2>1 DEF SaysDone
    <2> QED BY <1>0, <2>1, <2>2, LaneSteps
<1> QED BY <1>1, <1>2, <1>3, <1>4, <1>5, <1>6, <1>7, <1>8 DEF WorkerSteps

-----------------------------------------------------------------------------
\* Rows that are made

\* A turn of createJobs; the last one starts the lanes.
LEMMA CreateJobKeeps ==
    ASSUME TypeOK, StoredInv, NEW c \in Calls, CreateJob(c)
    PROVE  StoredInv'
<1> DEFINE s == call[c].sym
<1>1. PICK r \in call[c].pending :
        LET rest == call[c].pending \ {r}
            ids  == JobsOf(c, s) \union {<<c, s, r>>}
        IN  /\ job' = [id \in DOMAIN job \union {<<c, s, r>>} |->
                         IF id = <<c, s, r>> THEN NewRow ELSE job[id]]
            /\ call' = [call EXCEPT ![c].pc = IF rest = {} THEN "run" ELSE "create",
                                    ![c].pending = rest]
            /\ IF rest = {}
               THEN worker' = [id \in DOMAIN worker \union ids |->
                       IF id \notin ids THEN worker[id]
                       ELSE NewWorker(IF id \in FirstInLanes(ids) THEN "markRunning" ELSE "queued")]
               ELSE worker' = worker
    BY DEF CreateJob
<1> DEFINE rest == call[c].pending \ {r}
           new  == <<c, s, r>>
           ids  == JobsOf(c, s) \union {new}
<1>2. call[c].pc = "create" /\ UNCHANGED stored /\ call \in [Calls -> CallRec]
    BY DEF CreateJob, TypeOK, CallRec
<1>3. CallOf(new) = c /\ SymbolOf(new) = s
    BY DEF CallOf, SymbolOf
<1>4. /\ \A d \in Calls \ {c} : call'[d] = call[d]
      /\ call'[c].sym = s /\ call'[c].todo = call[c].todo
      /\ call'[c].pc = (IF rest = {} THEN "run" ELSE "create")
    <2>1. call' = [call EXCEPT ![c].pc = IF rest = {} THEN "run" ELSE "create", ![c].pending = rest]
        BY <1>1
    <2> HIDE DEF rest
    <2> QED BY <1>2, <2>1 DEF CallRec
<1>5. /\ DOMAIN job' = DOMAIN job \union {new}
      /\ job'[new].status = "pending"
      /\ \A id \in DOMAIN job : id # new => job'[id] = job[id]
    BY <1>1 DEF NewRow
<1>6. \A id \in ids : id \notin DOMAIN worker /\ job'[id].status = "pending"
    <2>1. \A id \in JobsOf(c, s) : id \notin DOMAIN worker /\ job[id].status = "pending"
        BY <1>2 DEF JobsOf, StoredInv, RowFits
    <2>2. new \notin DOMAIN worker
        <3>1. DOMAIN worker \subseteq DOMAIN job
            BY DEF TypeOK
        <3> QED BY <1>3, <2>1, <3>1 DEF JobsOf
    <2>3. \A id \in JobsOf(c, s) : id \in DOMAIN job
        BY DEF JobsOf
    <2> QED BY <1>5, <2>1, <2>2, <2>3
<1>7. /\ DOMAIN worker' \subseteq DOMAIN worker \union ids
      /\ \A id \in DOMAIN worker : id \in DOMAIN worker' /\ worker'[id] = worker[id]
      /\ \A id \in DOMAIN worker' : id \in ids => worker'[id].pc # "markSucceeded" /\ rest = {}
    <2>1. CASE rest = {}
        <3>1. worker' = [id \in DOMAIN worker \union ids |->
                  IF id \notin ids THEN worker[id]
                  ELSE NewWorker(IF id \in FirstInLanes(ids) THEN "markRunning" ELSE "queued")]
            BY <1>1, <2>1
        <3> HIDE DEF rest, new, ids
        <3>2. \A id \in DOMAIN worker : id \notin ids
            BY <1>6
        <3>3. \A id \in ids : worker'[id].pc \in {"markRunning", "queued"}
            BY <3>1 DEF NewWorker
        <3> QED BY <2>1, <3>1, <3>2, <3>3
    <2>2. CASE rest # {}
        BY <1>1, <1>6, <2>2
    <2> QED BY <2>1, <2>2
<1> HIDE DEF rest, new, ids
<1>8. ASSUME NEW d \in Calls PROVE call'[d].sym \notin call'[d].todo
    BY <1>4 DEF StoredInv
<1>9. ASSUME NEW id \in DOMAIN job' PROVE RowFits(id)'
    <2>1. CASE CallOf(id) # c
        <3>1. id \in DOMAIN job /\ id # new /\ CallOf(id) \in Calls \ {c}
            BY <1>3, <1>5, <1>9, <2>1, IdParts
        <3>2. RowFits(id) /\ call'[CallOf(id)] = call[CallOf(id)] /\ job'[id] = job[id]
            BY <1>4, <1>5, <3>1 DEF StoredInv
        <3>3. id \in DOMAIN worker' => id \in DOMAIN worker
            BY <1>3, <1>7, <2>1 DEF ids, JobsOf
        <3> QED BY <3>2, <3>3 DEF RowFits
    <2>2. CASE CallOf(id) = c
        <3>1. SymbolOf(id) \notin call[c].todo
            BY <1>3, <1>5, <1>9, <2>2 DEF StoredInv, RowFits
        <3>2. CASE SymbolOf(id) = s
            <4>1. id \in ids
                BY <1>5, <1>9, <2>2, <3>2 DEF ids, JobsOf
            <4>2. job'[id].status = "pending" /\ (id \in DOMAIN worker' => rest = {})
                BY <1>6, <1>7, <4>1
            <4> QED BY <1>4, <2>2, <3>1, <4>2 DEF RowFits
        <3>3. CASE SymbolOf(id) # s
            BY <1>4, <2>2, <3>1, <3>3 DEF RowFits
        <3> QED BY <3>2, <3>3
    <2> QED BY <2>1, <2>2
<1>10. ASSUME NEW id \in DOMAIN worker' PROVE LaneFits(id)'
    <2>1. CASE CallOf(id) = c
        BY <1>4, <2>1 DEF LaneFits, Recording
    <2>2. CASE CallOf(id) # c
        <3>1. id \in DOMAIN worker /\ id \in DOMAIN job
            BY <1>3, <1>7, <1>10, <2>2 DEF ids, JobsOf, TypeOK
        <3> QED BY <1>4, <2>2, <3>1, IdParts DEF LaneFits, StoredInv
    <2> QED BY <2>1, <2>2
<1>11. ASSUME NEW id \in DOMAIN worker', SaysDone(id)' PROVE Complete(id)'
    <2>1. id \notin ids
        BY <1>6, <1>7, <1>11 DEF SaysDone
    <2>2. id \in DOMAIN worker /\ id \in DOMAIN job /\ id # new
        BY <1>7, <2>1 DEF ids, TypeOK
    <2>3. SaysDone(id)
        BY <1>5, <1>7, <1>11, <2>2 DEF SaysDone
    <2> QED BY <1>2, <2>2, <2>3 DEF StoredInv, Complete
<1> QED BY <1>8, <1>9, <1>10, <1>11 DEF StoredInv

\* The three writes of a manual request without a job.
LEMMA RecordKeeps ==
    ASSUME TypeOK, StoredInv, NEW c \in Calls,
           RecordCreate(c) \/ RecordRunning(c) \/ RecordSucceeded(c)
    PROVE  StoredInv'
<1> DEFINE new == RecordId(c)
<1>1. call \in [Calls -> CallRec] /\ call[c].pc \in Recording /\ UNCHANGED <<stored, worker>>
    BY DEF TypeOK, CallRec, RecordCreate, RecordRunning, RecordSucceeded, Recording
<1>2. CallOf(new) = c /\ SymbolOf(new) = call[c].sym
    BY DEF RecordId, CallOf, SymbolOf
<1>3. /\ \A d \in Calls \ {c} : call'[d] = call[d]
      /\ call'[c].sym = call[c].sym /\ call'[c].todo = call[c].todo
      /\ call'[c].pc \in {"recordRunning", "recordSucceeded", "done"}
    BY <1>1 DEF CallRec, RecordCreate, RecordRunning, RecordSucceeded
<1>4. /\ DOMAIN job' \subseteq DOMAIN job \union {new}
      /\ \A id \in DOMAIN job : id # new => job'[id] = job[id]
    BY DEF RecordCreate, RecordRunning, RecordSucceeded
<1>5. new \notin DOMAIN worker
    BY <1>1, <1>2 DEF StoredInv, LaneFits
<1> HIDE DEF new
<1>6. ASSUME NEW d \in Calls PROVE call'[d].sym \notin call'[d].todo
    BY <1>3 DEF StoredInv
<1>7. ASSUME NEW id \in DOMAIN job' PROVE RowFits(id)'
    <2>1. CASE CallOf(id) = c
        <3>1. SymbolOf(id) \notin call[c].todo
            BY <1>2, <1>4, <1>7, <2>1 DEF StoredInv, RowFits
        <3> QED BY <1>3, <2>1, <3>1 DEF RowFits
    <2>2. CASE CallOf(id) # c
        <3>1. id \in DOMAIN job /\ job'[id] = job[id] /\ call'[CallOf(id)] = call[CallOf(id)]
            BY <1>2, <1>3, <1>4, <1>7, <2>2, IdParts
        <3> QED BY <1>1, <3>1 DEF StoredInv, RowFits
    <2> QED BY <2>1, <2>2
<1>8. ASSUME NEW id \in DOMAIN worker PROVE LaneFits(id)'
    <2>1. LaneFits(id) /\ id \in DOMAIN job
        BY DEF StoredInv, TypeOK
    <2>2. CASE CallOf(id) = c
        BY <1>1, <1>3, <2>1, <2>2 DEF LaneFits
    <2>3. CASE CallOf(id) # c
        BY <1>3, <2>1, <2>3, IdParts DEF LaneFits
    <2> QED BY <2>2, <2>3
<1>9. ASSUME NEW id \in DOMAIN worker, SaysDone(id)' PROVE Complete(id)'
    <2>1. id \in DOMAIN job /\ id # new
        BY <1>5 DEF TypeOK
    <2> QED BY <1>1, <1>4, <1>9, <2>1 DEF SaysDone, StoredInv, Complete
<1> QED BY <1>1, <1>6, <1>7, <1>8, <1>9 DEF StoredInv

-----------------------------------------------------------------------------
\* Every step

LEMMA StoredStep == TypeOK /\ StoredInv /\ [Next]_vars => StoredInv'
<1> SUFFICES ASSUME TypeOK, StoredInv, [Next]_vars PROVE StoredInv'
    OBVIOUS
<1>0. call \in [Calls -> CallRec]
    BY DEF TypeOK, CallRec
<1>n. ASSUME NEW c \in Calls, call[c].pc = "new"
      PROVE  \A id \in DOMAIN job : CallOf(id) # c
    BY <1>n DEF StoredInv, RowFits
<1>1. ASSUME NEW c \in Calls, Starts(c) PROVE StoredInv'
    <2>1. /\ UNCHANGED <<stored, job, worker>> /\ call[c].pc = "new"
          /\ \A d \in Calls \ {c} : call'[d] = call[d]
        BY <1>0, <1>1 DEF Starts, StartEngine, StartManual, StartRepair
    <2>2. call'[c].sym \notin call'[c].todo
        <3>1. ASSUME NEW kind \in EngineKinds, StartEngine(c, kind)
              PROVE  call'[c].sym \notin call'[c].todo
            BY <1>0, <3>1 DEF StartEngine, Entered
        <3>2. ASSUME NEW s \in Symbols, NEW win \in Ranges, StartManual(c, s, win)
              PROVE  call'[c].sym \notin call'[c].todo
            BY <1>0, <3>2 DEF StartManual, Entered
        <3>3. ASSUME NEW s \in Symbols, NEW win \in Ranges, StartRepair(c, s, win)
              PROVE  call'[c].sym \notin call'[c].todo
            <4>1. call'[c].todo = {}
                BY <1>0, <3>3 DEF StartRepair, Idle
            <4> QED BY <4>1
        <3> QED BY <1>1, <3>1, <3>2, <3>3 DEF Starts
    <2> QED BY <1>n, <2>1, <2>2, CallMoves
<1>2. ASSUME NEW c \in Calls,
             \/ ResolvePlanFails(c) \/ DetectFails(c) \/ CreateFails(c)
             \/ ResolvePlan(c) /\ MovesOn(c, FALSE)
      PROVE  StoredInv'
    <2>1. MovesOn(c, FALSE) /\ call[c].pc # "new" /\ UNCHANGED <<stored, job, worker>>
        BY <1>2 DEF ResolvePlanFails, DetectFails, CreateFails, ResolvePlan, LeavesWindow
    <2> QED BY <2>1, MovesOnKeeps
<1>3. ASSUME NEW c \in Calls, (ResolvePlan(c) /\ ~MovesOn(c, FALSE)) \/ DetectGaps(c)
      PROVE  StoredInv'
    <2>1. /\ UNCHANGED <<stored, job, worker>> /\ call[c].pc \in {"plan", "detect"}
        BY <1>3 DEF ResolvePlan, DetectGaps
    <2>2. /\ \A d \in Calls \ {c} : call'[d] = call[d]
          /\ call'[c].sym = call[c].sym /\ call'[c].todo = call[c].todo
          /\ call'[c].pc \in {"detect", "reserve"}
        <3>1. CASE DetectGaps(c)
            BY <1>0, <3>1 DEF DetectGaps, CallRec
        <3>2. CASE ResolvePlan(c) /\ ~MovesOn(c, FALSE)
            <4>1. PICK plan : call' = [call EXCEPT ![c].pc = "detect", ![c].win = plan]
                BY <3>2 DEF ResolvePlan
            <4> QED BY <1>0, <4>1 DEF CallRec
        <3> QED BY <1>3, <3>1, <3>2
    <2>3. \A id \in DOMAIN job : CallOf(id) = c => RowFits(id)' /\ LaneFits(id)'
        BY <2>1, <2>2 DEF StoredInv, RowFits, LaneFits, Recording
    <2>4. call'[c].sym \notin call'[c].todo
        BY <2>2 DEF StoredInv
    <2> QED BY <2>1, <2>2, <2>3, <2>4, CallMoves
<1>4. ASSUME NEW c \in Calls, Reserve(c) PROVE StoredInv'
    <2> DEFINE runnable == Runnable(call[c].sym, call[c].gaps)
    <2>1. UNCHANGED <<stored, job, worker>> /\ call[c].pc = "reserve"
        BY <1>4 DEF Reserve
    <2>2. \A id \in DOMAIN job : CallOf(id) = c =>
              SymbolOf(id) \notin call[c].todo /\ SymbolOf(id) # call[c].sym
        BY <2>1 DEF StoredInv, RowFits
    <2>3. CASE runnable # {}
        <3>1. call' = [call EXCEPT ![c].pc = "create", ![c].pending = runnable]
            BY <1>4, <2>3 DEF Reserve
        <3> HIDE DEF runnable
        <3>2. /\ \A d \in Calls \ {c} : call'[d] = call[d]
              /\ call'[c].sym = call[c].sym /\ call'[c].todo = call[c].todo
              /\ call'[c].pc = "create"
            BY <1>0, <3>1 DEF CallRec
        <3>3. \A id \in DOMAIN job : CallOf(id) = c => RowFits(id)' /\ LaneFits(id)'
            BY <2>2, <3>2 DEF RowFits, LaneFits, Recording
        <3>4. call'[c].sym \notin call'[c].todo
            BY <3>2 DEF StoredInv
        <3> QED BY <2>1, <3>2, <3>3, <3>4, CallMoves
    <2>4. CASE runnable = {}
        <3>1. MovesOn(c, call[c].kind = "manual")
            BY <1>4, <2>4 DEF Reserve, LeavesWindow
        <3>2. /\ \A d \in Calls \ {c} : call'[d] = call[d]
              /\ \/ /\ call'[c].pc \in {"record", "done"}
                    /\ call'[c].sym = call[c].sym /\ call'[c].todo = call[c].todo
                 \/ /\ call'[c].pc \in {"plan", "detect"}
                    /\ call'[c].sym \in call[c].todo
                    /\ call'[c].todo = call[c].todo \ {call'[c].sym}
            <4>1. (call[c].kind = "manual") \in BOOLEAN
                OBVIOUS
            <4> QED BY <3>1, <4>1, MovesOnFacts
        <3>3. \A id \in DOMAIN job : CallOf(id) = c => RowFits(id)' /\ LaneFits(id)'
            BY <2>2, <3>2 DEF RowFits, LaneFits, Recording
        <3>4. call'[c].sym \notin call'[c].todo
            BY <3>2 DEF StoredInv
        <3> QED BY <2>1, <3>2, <3>3, <3>4, CallMoves
    <2> QED BY <2>3, <2>4
<1>5. ASSUME NEW c \in Calls, RecordFails(c) PROVE StoredInv'
    <2>1. /\ UNCHANGED <<stored, job, worker>> /\ call[c].pc \in Recording
          /\ call' = [call EXCEPT ![c].pc = "done"]
        BY <1>5 DEF RecordFails, Recording
    <2>2. /\ \A d \in Calls \ {c} : call'[d] = call[d]
          /\ call'[c].sym = call[c].sym /\ call'[c].todo = call[c].todo
          /\ call'[c].pc = "done"
        BY <1>0, <2>1 DEF CallRec
    <2>3. \A id \in DOMAIN job : CallOf(id) = c => RowFits(id)' /\ LaneFits(id)'
        BY <2>1, <2>2 DEF StoredInv, RowFits, LaneFits, Recording
    <2>4. call'[c].sym \notin call'[c].todo
        BY <2>2 DEF StoredInv
    <2> QED BY <2>1, <2>2, <2>3, <2>4, CallMoves
<1>6. ASSUME NEW s \in Symbols, StreamStores(s) PROVE StoredInv'
    <2>1. /\ UNCHANGED <<call, job, worker>> /\ \A t \in Symbols : stored[t] \subseteq stored'[t]
        BY <1>6 DEF StreamStores, TypeOK
    <2>2. ASSUME NEW id \in DOMAIN worker, SaysDone(id)' PROVE Complete(id)'
        <3>1. SymbolOf(id) \in Symbols /\ SaysDone(id)
            BY <2>1, <2>2, IdParts DEF TypeOK, SaysDone
        <3> QED BY <2>1, <3>1 DEF StoredInv, Complete
    <2> QED BY <2>1, <2>2 DEF StoredInv, RowFits, LaneFits
<1>7. CASE UNCHANGED vars
    BY <1>7 DEF vars, StoredInv, RowFits, LaneFits, SaysDone, Complete
<1>8. ASSUME NEW c \in Calls, CallSteps(c) PROVE StoredInv'
    BY <1>2, <1>3, <1>4, <1>5, <1>8, CreateJobKeeps, RecordKeeps DEF CallSteps
<1> QED BY <1>1, <1>6, <1>7, <1>8, WorkersKeep DEF Next

\* A job marked succeeded has every candle of its range that REST has, whatever page,
\* status write or lane failed before and however often it was retried (runJob).
THEOREM SucceededMeansStoredHolds == Spec => []SucceededMeansStored
<1>1. Init => TypeOK /\ StoredInv
    BY StoredInit, TypeOKInit
<1>2. TypeOK /\ StoredInv /\ [Next]_vars => (TypeOK /\ StoredInv)'
    BY TypeOKStep, StoredStep
<1> QED BY <1>1, <1>2, StoredInvMeans, PTL DEF Spec

-----------------------------------------------------------------------------
\* The life of a row

Open == {"pending", "running"}

\* How the row of a job and the lane that runs it go together.
LaneState(id) ==
    LET w == worker[id]  row == job[id] IN
    /\ w.pc = "queued" => row = NewRow /\ w.attempt = 1
    /\ w.pc = "markRunning" =>
          row.status \in Open /\ row.attempts < w.attempt /\ w.attempt <= MaxAttempts
    /\ w.pc \in {"attempt", "markSucceeded"} =>
          row.status = "running" /\ row.attempts <= w.attempt /\ w.attempt <= MaxAttempts
    /\ w.pc = "sleep" =>
          row.status \in Open /\ row.attempts <= w.attempt /\ w.attempt < MaxAttempts
    /\ w.pc = "markFailed" => row.status \in Open

\* The rows a call has made so far of the symbol it is at, and the one it records.
CallRows(c) ==
    /\ \A id \in JobsOf(c, call[c].sym) :
          /\ call[c].pc = "create" => job[id] = NewRow /\ RangeOf(id) \notin call[c].pending
          /\ call[c].pc # "record"
    /\ call[c].pc = "recordRunning" =>
          RecordId(c) \in DOMAIN job /\ job[RecordId(c)] = NewRow
    /\ call[c].pc = "recordSucceeded" =>
          RecordId(c) \in DOMAIN job /\ job[RecordId(c)].status = "running"

LifecycleInv ==
    /\ \A id \in DOMAIN worker : LaneState(id)
    /\ \A c \in Calls : CallRows(c)

\* What one step may do to the rows: at most one of them takes a step of its life.
RowCreated(id) ==
    /\ id \notin DOMAIN job
    /\ job' = [i \in DOMAIN job \union {id} |-> IF i = id THEN NewRow ELSE job[i]]

RowChanges(id, status, attempts) ==
    /\ id \in DOMAIN job /\ job[id].status \in Open
    /\ job' = [job EXCEPT ![id] = [status |-> status, attempts |-> attempts]]

RowRuns(id) ==
    job[id].attempts < MaxAttempts /\ RowChanges(id, "running", job[id].attempts + 1)

RowSucceeds(id) == job[id].status = "running" /\ RowChanges(id, "succeeded", job[id].attempts)

RowFails(id) == RowChanges(id, "failed", job[id].attempts)

RowStep ==
    \/ UNCHANGED job
    \/ \E id \in JobIds : RowCreated(id) \/ RowRuns(id) \/ RowSucceeds(id) \/ RowFails(id)

LEMMA LifecycleInit == Init => LifecycleInv /\ Jobs!Init
<1> SUFFICES ASSUME Init PROVE LifecycleInv /\ Jobs!Init
    OBVIOUS
<1>1. DOMAIN job = {} /\ DOMAIN worker = {} /\ \A c \in Calls : call[c].pc = "new"
    BY DEF Init, Idle
<1>2. \A c \in Calls : CallRows(c)
    BY <1>1 DEF CallRows, JobsOf
<1> QED BY <1>1, <1>2 DEF LifecycleInv, Jobs!Init

LEMMA RowStepRefines ==
    ASSUME TypeOK, TypeOK', RowStep PROVE [Jobs!Next]_Jobs!vars
<1>0. /\ DOMAIN job \subseteq JobIds /\ job \in [DOMAIN job -> JobRow]
      /\ DOMAIN job' \subseteq JobIds
    BY DEF TypeOK
<1>1. CASE UNCHANGED job
    BY <1>1 DEF Jobs!vars
<1>2. ASSUME NEW id \in JobIds, RowCreated(id) PROVE Jobs!Create(id)
    BY <1>0, <1>2 DEF RowCreated, NewRow, Jobs!Create
<1>3. ASSUME NEW id \in JobIds, RowRuns(id) PROVE Jobs!Run(id)
    BY <1>0, <1>3 DEF RowRuns, RowChanges, Open, Jobs!Run
<1>4. ASSUME NEW id \in JobIds, RowSucceeds(id) PROVE Jobs!Succeed(id)
    BY <1>0, <1>4 DEF RowSucceeds, RowChanges, Open, Jobs!Succeed
<1>5. ASSUME NEW id \in JobIds, RowFails(id) PROVE Jobs!Fail(id)
    BY <1>0, <1>5 DEF RowFails, RowChanges, Open, Jobs!Fail
<1> QED BY <1>1, <1>2, <1>3, <1>4, <1>5 DEF RowStep, Jobs!Next

-----------------------------------------------------------------------------
\* Lanes and the rows they settle

\* A step of one lane keeps the invariant if that lane and its row still agree.
LEMMA LaneLifecycle ==
    ASSUME TypeOK, StoredInv, LifecycleInv, NEW id \in DOMAIN worker,
           DOMAIN job' = DOMAIN job, \A i \in DOMAIN job \ {id} : job'[i] = job[i],
           DOMAIN worker' = DOMAIN worker,
           \A i \in DOMAIN worker \ {id} :
              \/ worker'[i] = worker[i]
              \/ worker[i].pc = "queued" /\ worker'[i] = [worker[i] EXCEPT !.pc = "markRunning"],
           LaneState(id)',
           call' = call \/ MovesOn(CallOf(id), FALSE)
    PROVE  LifecycleInv'
<1>0. /\ worker \in [DOMAIN worker -> [pc : WorkerPcs, attempt : Nat]]
      /\ DOMAIN worker \subseteq DOMAIN job /\ CallOf(id) \in Calls /\ MaxAttempts \in Nat \ {0}
    BY IdParts, EngineAssumption DEF TypeOK
<1>1. ASSUME NEW i \in DOMAIN worker PROVE LaneState(i)'
    <2>1. CASE i = id
        BY <2>1
    <2>2. CASE i # id /\ worker'[i] = worker[i]
        <3>1. LaneState(i) /\ job'[i] = job[i]
            BY <1>0, <2>2 DEF LifecycleInv
        <3> QED BY <2>2, <3>1 DEF LaneState
    <2>3. CASE /\ i # id /\ worker[i].pc = "queued"
               /\ worker'[i] = [worker[i] EXCEPT !.pc = "markRunning"]
        <3>1. job[i] = NewRow /\ worker[i].attempt = 1 /\ job'[i] = job[i]
            BY <1>0, <2>3 DEF LifecycleInv, LaneState
        <3>2. worker'[i].pc = "markRunning" /\ worker'[i].attempt = 1
            BY <1>0, <2>3, <3>1
        <3> QED BY <1>0, <3>1, <3>2 DEF LaneState, NewRow, Open
    <2> QED BY <2>1, <2>2, <2>3
<1>2. ASSUME NEW c \in Calls PROVE CallRows(c)'
    <2>1. CASE call'[c] = call[c]
        <3>1. CallRows(c) /\ JobsOf(c, call[c].sym)' = JobsOf(c, call[c].sym)
            <4>1. CallRows(c)
                BY DEF LifecycleInv
            <4>2. \A s : JobsOf(c, s)' = JobsOf(c, s)
                BY DEF JobsOf
            <4> QED BY <2>1, <4>1, <4>2
        <3>2. id \in JobsOf(c, call[c].sym) => call[c].pc \notin {"create"} \union Recording
            BY <1>0 DEF StoredInv, RowFits, LaneFits, JobsOf
        <3>3. CallOf(RecordId(c)) = c /\ SymbolOf(RecordId(c)) = call[c].sym
            BY DEF RecordId, CallOf, SymbolOf
        <3>4. RecordId(c) = id => id \in JobsOf(c, call[c].sym)
            BY <1>0, <3>3 DEF JobsOf
        <3>5. RecordId(c)' = RecordId(c)
            BY <2>1 DEF RecordId
        <3>6. \A i \in JobsOf(c, call[c].sym) : i \in DOMAIN job
            BY DEF JobsOf
        <3> QED BY <2>1, <3>1, <3>2, <3>4, <3>5, <3>6 DEF CallRows, Recording
    <2>2. CASE call'[c] # call[c]
        <3>1. MovesOn(CallOf(id), FALSE) /\ call[CallOf(id)].pc # "new"
            BY <1>0, <2>2 DEF StoredInv, RowFits
        <3>2. c = CallOf(id) /\ call'[c].pc \in {"plan", "detect", "done"}
            BY <1>0, <2>2, <3>1, MovesOnFits
        <3> QED BY <3>2 DEF CallRows
    <2> QED BY <2>1, <2>2
<1> QED BY <1>0, <1>1, <1>2 DEF LifecycleInv

\* What runJob's return does to the other lanes.
LEMMA ReturnStartsNext ==
    ASSUME TypeOK, NEW id \in DOMAIN worker, RunJobReturns(id)
    PROVE  /\ worker'[id].pc = "returned"
           /\ \A i \in DOMAIN worker \ {id} :
                 \/ worker'[i] = worker[i]
                 \/ worker[i].pc = "queued" /\ worker'[i] = [worker[i] EXCEPT !.pc = "markRunning"]
<1> DEFINE w1 == [worker EXCEPT ![id].pc = "returned"]
<1>1. /\ DOMAIN w1 = DOMAIN worker /\ w1[id].pc = "returned"
      /\ \A i \in DOMAIN worker : i # id => w1[i] = worker[i]
    BY DEF TypeOK
<1>2. worker' = LaneTakesNext(id, w1)
    BY DEF RunJobReturns
<1> HIDE DEF w1
<1>3. \A i \in DOMAIN worker :
          \/ worker'[i] = w1[i]
          \/ w1[i].pc = "queued" /\ worker'[i] = [w1[i] EXCEPT !.pc = "markRunning"]
    BY <1>1, <1>2 DEF LaneTakesNext
<1>4. worker'[id] = w1[id]
    BY <1>1, <1>3
<1> QED BY <1>1, <1>3, <1>4

\* One step per action of a lane.
LEMMA WorkersLifecycle ==
    ASSUME "lostAck" \notin Faults, TypeOK, StoredInv, LifecycleInv,
           NEW id \in DOMAIN worker, WorkerSteps(id)
    PROVE  LifecycleInv' /\ RowStep
<1> DEFINE w == worker[id]
           Moved(pc) == worker' = [worker EXCEPT ![id].pc = pc]
<1>0. /\ worker \in [DOMAIN worker -> [pc : WorkerPcs, attempt : Nat]]
      /\ job \in [DOMAIN job -> JobRow] /\ id \in DOMAIN job /\ id \in JobIds
      /\ MaxAttempts \in Nat \ {0} /\ LaneState(id)
    BY EngineAssumption DEF TypeOK, LifecycleInv
<1>u. ASSUME UNCHANGED <<call, job>>, LaneState(id)',
             DOMAIN worker' = DOMAIN worker,
             \A i \in DOMAIN worker \ {id} : worker'[i] = worker[i]
      PROVE  LifecycleInv' /\ RowStep
    BY <1>u, LaneLifecycle DEF RowStep
<1>f. ASSUME AttemptFails(id), UNCHANGED <<call, job>>,
             w.pc \in {"markRunning", "attempt", "markSucceeded"}
      PROVE  LifecycleInv' /\ RowStep
    <2>1. /\ DOMAIN worker' = DOMAIN worker
          /\ \A i \in DOMAIN worker \ {id} : worker'[i] = worker[i]
          /\ worker'[id].attempt = w.attempt
          /\ worker'[id].pc = IF w.attempt < MaxAttempts THEN "sleep" ELSE "markFailed"
        BY <1>0, <1>f DEF AttemptFails
    <2>2. job[id].status \in Open /\ job[id].attempts <= w.attempt
        BY <1>0, <1>f DEF LaneState, Open, JobRow
    <2>3. LaneState(id)'
        BY <1>0, <1>f, <2>1, <2>2 DEF LaneState, Open
    <2> QED BY <1>f, <1>u, <2>1, <2>3
<1>1. CASE MarkRunning(id)
    <2>1. /\ w.pc = "markRunning" /\ UNCHANGED call /\ Moved("attempt")
          /\ job' = [job EXCEPT ![id] = [status |-> "running", attempts |-> @.attempts + 1]]
        BY <1>1 DEF MarkRunning
    <2>2. job[id].status \in Open /\ job[id].attempts < w.attempt /\ w.attempt <= MaxAttempts
        BY <1>0, <2>1 DEF LaneState
    <2>3. job[id].attempts \in Nat /\ w.attempt \in Nat
        BY <1>0 DEF JobRow
    <2>4. /\ worker'[id] = [w EXCEPT !.pc = "attempt"] /\ DOMAIN worker' = DOMAIN worker
          /\ \A i \in DOMAIN worker \ {id} : worker'[i] = worker[i]
          /\ job'[id] = [status |-> "running", attempts |-> job[id].attempts + 1]
          /\ DOMAIN job' = DOMAIN job /\ \A i \in DOMAIN job \ {id} : job'[i] = job[i]
        BY <1>0, <2>1
    <2>5. LaneState(id)'
        BY <1>0, <2>2, <2>3, <2>4 DEF LaneState
    <2>6. RowRuns(id)
        BY <1>0, <2>1, <2>2, <2>3 DEF RowRuns, RowChanges
    <2> QED BY <1>0, <2>1, <2>4, <2>5, <2>6, LaneLifecycle DEF RowStep
<1>2. CASE MarkRunningFails(id)
    BY <1>2, <1>f DEF MarkRunningFails
<1>3. CASE AttemptWrites(id)
    <2>1. w.pc = "attempt" /\ UNCHANGED <<call, job>> /\ Moved("markSucceeded")
        BY <1>3 DEF AttemptWrites
    <2>2. /\ worker'[id] = [w EXCEPT !.pc = "markSucceeded"] /\ DOMAIN worker' = DOMAIN worker
          /\ \A i \in DOMAIN worker \ {id} : worker'[i] = worker[i]
        BY <1>0, <2>1
    <2>3. LaneState(id)'
        BY <1>0, <2>1, <2>2 DEF LaneState
    <2> QED BY <1>u, <2>1, <2>2, <2>3
<1>4. ASSUME NEW m \in Candles, AttemptBreaks(id, m) PROVE LifecycleInv' /\ RowStep
    BY <1>4, <1>f DEF AttemptBreaks
<1>5. CASE MarkSucceeded(id)
    <2>1. /\ w.pc = "markSucceeded" /\ RunJobReturns(id)
          /\ job' = [job EXCEPT ![id].status = "succeeded"]
        BY <1>5 DEF MarkSucceeded
    <2>2. LaneState(id)'
        BY <2>1, ReturnStartsNext DEF LaneState
    <2>3. job[id].status = "running"
        BY <1>0, <2>1 DEF LaneState
    <2>4. RowSucceeds(id)
        <3>1. [job[id] EXCEPT !.status = "succeeded"]
                  = [status |-> "succeeded", attempts |-> job[id].attempts]
            BY <1>0 DEF JobRow
        <3> QED BY <1>0, <2>1, <2>3, <3>1 DEF RowSucceeds, RowChanges, JobRow, Open
    <2>5. DOMAIN job' = DOMAIN job /\ \A i \in DOMAIN job \ {id} : job'[i] = job[i]
        BY <2>1
    <2> QED BY <1>0, <2>1, <2>2, <2>4, <2>5, ReturnStartsNext, ReturnKeepsPcs, LaneLifecycle
            DEF RowStep
<1>6. CASE MarkSucceededFails(id)
    BY <1>6, <1>f DEF MarkSucceededFails
<1>7. CASE RetryJob(id)
    <2>1. /\ w.pc = "sleep" /\ UNCHANGED <<call, job>>
          /\ worker' = [worker EXCEPT ![id] = [pc |-> "markRunning", attempt |-> @.attempt + 1]]
        BY <1>7 DEF RetryJob
    <2>2. /\ worker'[id] = [pc |-> "markRunning", attempt |-> w.attempt + 1]
          /\ DOMAIN worker' = DOMAIN worker
          /\ \A i \in DOMAIN worker \ {id} : worker'[i] = worker[i]
        BY <1>0, <2>1
    <2>3. job[id].attempts \in Nat /\ w.attempt \in Nat
        BY <1>0 DEF JobRow
    <2>4. LaneState(id)'
        BY <1>0, <2>1, <2>2, <2>3 DEF LaneState
    <2> QED BY <1>u, <2>1, <2>2, <2>4
<1>8. CASE MarkFailed(id)
    <2>1. /\ w.pc = "markFailed" /\ RunJobReturns(id)
          /\ job' = [job EXCEPT ![id].status = "failed"]
        BY <1>8 DEF MarkFailed
    <2>2. LaneState(id)'
        BY <2>1, ReturnStartsNext DEF LaneState
    <2>3. job[id].status \in Open
        BY <1>0, <2>1 DEF LaneState
    <2>4. RowFails(id)
        <3>1. [job[id] EXCEPT !.status = "failed"]
                  = [status |-> "failed", attempts |-> job[id].attempts]
            BY <1>0 DEF JobRow
        <3> QED BY <1>0, <2>1, <2>3, <3>1 DEF RowFails, RowChanges, JobRow
    <2>5. DOMAIN job' = DOMAIN job /\ \A i \in DOMAIN job \ {id} : job'[i] = job[i]
        BY <2>1
    <2> QED BY <1>0, <2>1, <2>2, <2>4, <2>5, ReturnStartsNext, ReturnKeepsPcs, LaneLifecycle
            DEF RowStep
<1>9. CASE MarkFailedFails(id)
    <2>1. /\ UNCHANGED job /\ Moved("threw") /\ (call' = call \/ MovesOn(CallOf(id), FALSE))
        BY <1>9 DEF MarkFailedFails, LeavesWindow
    <2>2. /\ worker'[id].pc = "threw" /\ DOMAIN worker' = DOMAIN worker
          /\ \A i \in DOMAIN worker \ {id} : worker'[i] = worker[i]
        BY <1>0, <2>1
    <2>3. LaneState(id)'
        BY <2>2 DEF LaneState
    <2> QED BY <1>0, <2>1, <2>2, <2>3, LaneLifecycle DEF RowStep
<1> QED BY <1>1, <1>2, <1>3, <1>4, <1>5, <1>6, <1>7, <1>8, <1>9 DEF WorkerSteps

-----------------------------------------------------------------------------
\* Calls and the rows they make

\* A call that moves while the rows and the lanes stay.
LEMMA CallLifecycle ==
    ASSUME LifecycleInv, NEW c \in Calls, UNCHANGED <<job, worker>>,
           \A d \in Calls \ {c} : call'[d] = call[d], CallRows(c)'
    PROVE  LifecycleInv' /\ RowStep
<1>1. \A id \in DOMAIN worker : LaneState(id)'
    BY DEF LifecycleInv, LaneState
<1>2. ASSUME NEW d \in Calls \ {c} PROVE CallRows(d)'
    <2>1. CallRows(d) /\ call'[d] = call[d]
        BY DEF LifecycleInv
    <2> QED BY <2>1 DEF CallRows, JobsOf, RecordId
<1> QED BY <1>1, <1>2 DEF LifecycleInv, RowStep

\* A turn of createJobs.
LEMMA CreateJobLifecycle ==
    ASSUME TypeOK, StoredInv, LifecycleInv, NEW c \in Calls, CreateJob(c)
    PROVE  LifecycleInv' /\ RowStep
<1> DEFINE s == call[c].sym
<1>1. PICK r \in call[c].pending :
        LET rest == call[c].pending \ {r}
            ids  == JobsOf(c, s) \union {<<c, s, r>>}
        IN  /\ job' = [id \in DOMAIN job \union {<<c, s, r>>} |->
                         IF id = <<c, s, r>> THEN NewRow ELSE job[id]]
            /\ call' = [call EXCEPT ![c].pc = IF rest = {} THEN "run" ELSE "create",
                                    ![c].pending = rest]
            /\ IF rest = {}
               THEN worker' = [id \in DOMAIN worker \union ids |->
                       IF id \notin ids THEN worker[id]
                       ELSE NewWorker(IF id \in FirstInLanes(ids) THEN "markRunning" ELSE "queued")]
               ELSE worker' = worker
    BY DEF CreateJob
<1> DEFINE rest == call[c].pending \ {r}
           new  == <<c, s, r>>
           ids  == JobsOf(c, s) \union {new}
<1>2. /\ call[c].pc = "create" /\ call \in [Calls -> CallRec]
      /\ MaxAttempts \in Nat \ {0} /\ DOMAIN worker \subseteq DOMAIN job
    BY EngineAssumption DEF CreateJob, TypeOK, CallRec
<1>3. CallOf(new) = c /\ SymbolOf(new) = s /\ RangeOf(new) = r /\ new \in JobIds
    BY <1>2 DEF CallOf, SymbolOf, RangeOf, JobIds, CallRec
<1>4. /\ \A d \in Calls \ {c} : call'[d] = call[d]
      /\ call'[c].sym = s /\ call'[c].pending = rest
      /\ call'[c].pc = (IF rest = {} THEN "run" ELSE "create")
    <2>1. call' = [call EXCEPT ![c].pc = IF rest = {} THEN "run" ELSE "create", ![c].pending = rest]
        BY <1>1
    <2> HIDE DEF rest
    <2> QED BY <1>2, <2>1 DEF CallRec
<1>5. \A id \in JobsOf(c, s) :
          id \in DOMAIN job /\ id \notin DOMAIN worker /\ job[id] = NewRow /\ RangeOf(id) \notin call[c].pending
    BY <1>2 DEF LifecycleInv, CallRows, StoredInv, RowFits, JobsOf
<1>6. new \notin DOMAIN job
    BY <1>3, <1>5 DEF JobsOf
<1>7. RowCreated(new) /\ DOMAIN job' = DOMAIN job \union {new} /\ job'[new] = NewRow
      /\ \A id \in DOMAIN job : job'[id] = job[id]
    BY <1>1, <1>6 DEF RowCreated
<1>8. \A id \in ids : id \notin DOMAIN worker /\ job'[id] = NewRow
    BY <1>2, <1>5, <1>6, <1>7
<1>9. ASSUME NEW id \in DOMAIN worker' PROVE LaneState(id)'
    <2>1. CASE id \in DOMAIN worker
        <3>1. LaneState(id) /\ job'[id] = job[id] /\ id \notin ids
            BY <1>2, <1>7, <1>8, <2>1 DEF LifecycleInv
        <3>2. worker'[id] = worker[id]
            BY <1>1, <2>1, <3>1
        <3> QED BY <3>1, <3>2 DEF LaneState
    <2>2. CASE id \notin DOMAIN worker
        <3>1. id \in ids /\ worker'[id] \in {NewWorker("markRunning"), NewWorker("queued")}
            BY <1>1, <1>9, <2>2
        <3> QED BY <1>2, <1>8, <3>1 DEF NewWorker, LaneState, NewRow, Open
    <2> QED BY <2>1, <2>2
<1>10. ASSUME NEW d \in Calls \ {c} PROVE CallRows(d)'
    <2>1. CallRows(d) /\ call'[d] = call[d]
        BY <1>4 DEF LifecycleInv
    <2>2. JobsOf(d, call[d].sym)' = JobsOf(d, call[d].sym)
        BY <1>3, <1>7, <2>1 DEF JobsOf
    <2> QED BY <1>7, <2>1, <2>2 DEF CallRows, RecordId, JobsOf
<1>11. CallRows(c)'
    <2>1. JobsOf(c, s)' = ids
        BY <1>3, <1>4, <1>7 DEF JobsOf
    <2>2. \A id \in ids : RangeOf(id) \notin rest
        BY <1>3, <1>5
    <2> QED BY <1>4, <1>8, <2>1, <2>2 DEF CallRows
<1> QED BY <1>3, <1>7, <1>9, <1>10, <1>11 DEF LifecycleInv, RowStep

\* The three writes of a manual request without a job.
LEMMA RecordLifecycle ==
    ASSUME TypeOK, StoredInv, LifecycleInv, NEW c \in Calls,
           RecordCreate(c) \/ RecordRunning(c) \/ RecordSucceeded(c)
    PROVE  LifecycleInv' /\ RowStep
<1> DEFINE new == RecordId(c)
<1>1. /\ call \in [Calls -> CallRec] /\ job \in [DOMAIN job -> JobRow] /\ DOMAIN worker \subseteq DOMAIN job
      /\ call[c].pc \in Recording /\ UNCHANGED worker /\ CallRows(c) /\ MaxAttempts \in Nat \ {0}
    BY EngineAssumption
       DEF TypeOK, CallRec, LifecycleInv, RecordCreate, RecordRunning, RecordSucceeded, Recording
<1>2. CallOf(new) = c /\ SymbolOf(new) = call[c].sym /\ new \in JobIds
    BY <1>1 DEF RecordId, CallOf, SymbolOf, JobIds, CallRec
<1>3. /\ \A d \in Calls \ {c} : call'[d] = call[d]
      /\ call'[c].sym = call[c].sym /\ call'[c].win = call[c].win
    BY <1>1 DEF CallRec, RecordCreate, RecordRunning, RecordSucceeded
<1>4. new \notin DOMAIN worker
    BY <1>1, <1>2 DEF StoredInv, LaneFits
<1>5. new' = new
    BY <1>3 DEF RecordId
<1>6. /\ DOMAIN job' = DOMAIN job \union {new}
      /\ \A id \in DOMAIN job : id # new => job'[id] = job[id]
      /\ RowStep /\ CallRows(c)'
    <2>1. CASE RecordCreate(c)
        <3>1. /\ call[c].pc = "record" /\ call' = [call EXCEPT ![c].pc = "recordRunning"]
              /\ job' = [id \in DOMAIN job \union {new} |-> IF id = new THEN NewRow ELSE job[id]]
            BY <2>1 DEF RecordCreate
        <3>2. new \notin DOMAIN job
            BY <1>1, <1>2, <3>1 DEF CallRows, JobsOf
        <3>3. RowStep
            BY <1>2, <3>1, <3>2 DEF RowStep, RowCreated
        <3>4. call'[c].pc = "recordRunning"
            BY <1>1, <3>1 DEF CallRec
        <3> HIDE DEF new
        <3>5. CallRows(c)'
            BY <1>5, <3>1, <3>4 DEF CallRows, new
        <3> QED BY <3>1, <3>3, <3>5
    <2>2. CASE RecordRunning(c)
        <3>1. /\ call[c].pc = "recordRunning" /\ call' = [call EXCEPT ![c].pc = "recordSucceeded"]
              /\ job' = [job EXCEPT ![new] = [status |-> "running", attempts |-> 1]]
            BY <2>2 DEF RecordRunning
        <3>2. new \in DOMAIN job /\ job[new] = NewRow
            BY <1>1, <3>1 DEF CallRows
        <3>3. RowRuns(new)
            BY <1>1, <3>1, <3>2 DEF RowRuns, RowChanges, NewRow, Open
        <3>4. call'[c].pc = "recordSucceeded"
            BY <1>1, <3>1 DEF CallRec
        <3>5. job'[new].status = "running" /\ DOMAIN job' = DOMAIN job
            BY <3>1, <3>2
        <3>6. CallRows(c)'
            BY <1>5, <3>2, <3>4, <3>5 DEF CallRows
        <3> QED BY <1>2, <3>1, <3>2, <3>3, <3>6 DEF RowStep
    <2>3. CASE RecordSucceeded(c)
        <3>1. /\ call[c].pc = "recordSucceeded" /\ call' = [call EXCEPT ![c].pc = "done"]
              /\ job' = [job EXCEPT ![new].status = "succeeded"]
            BY <2>3 DEF RecordSucceeded
        <3>2. new \in DOMAIN job /\ job[new].status = "running"
            BY <1>1, <3>1 DEF CallRows
        <3>3. RowSucceeds(new)
            <4>1. [job[new] EXCEPT !.status = "succeeded"]
                      = [status |-> "succeeded", attempts |-> job[new].attempts]
                BY <1>1, <3>2 DEF JobRow
            <4> QED BY <1>1, <3>1, <3>2, <4>1 DEF RowSucceeds, RowChanges, Open
        <3>4. call'[c].pc = "done"
            BY <1>1, <3>1 DEF CallRec
        <3>5. CallRows(c)'
            BY <3>4 DEF CallRows
        <3> QED BY <1>2, <3>1, <3>2, <3>3, <3>5 DEF RowStep
    <2> QED BY <2>1, <2>2, <2>3
<1> HIDE DEF new
<1>7. ASSUME NEW id \in DOMAIN worker PROVE LaneState(id)'
    <2>1. LaneState(id) /\ job'[id] = job[id]
        BY <1>1, <1>4, <1>6 DEF LifecycleInv
    <2> QED BY <1>1, <2>1 DEF LaneState
<1>8. ASSUME NEW d \in Calls \ {c} PROVE CallRows(d)'
    <2>1. CallRows(d) /\ call'[d] = call[d]
        BY <1>3 DEF LifecycleInv
    <2>2. JobsOf(d, call[d].sym)' = JobsOf(d, call[d].sym)
        BY <1>2, <1>6, <2>1 DEF JobsOf
    <2>3. new \notin JobsOf(d, call[d].sym) /\ new # RecordId(d)
        BY <1>2 DEF JobsOf, RecordId, CallOf
    <2> QED BY <1>6, <2>1, <2>2, <2>3 DEF CallRows, RecordId, JobsOf
<1> QED BY <1>1, <1>6, <1>7, <1>8 DEF LifecycleInv

\* Every step keeps the invariant and is a step in the life of at most one row.
LEMMA LifecycleStep ==
    ASSUME "lostAck" \notin Faults, TypeOK, StoredInv, LifecycleInv, [Next]_vars
    PROVE  LifecycleInv' /\ RowStep
<1>0. call \in [Calls -> CallRec]
    BY DEF TypeOK, CallRec
<1>n. ASSUME NEW c \in Calls, call[c].pc = "new" PROVE \A s : JobsOf(c, s) = {}
    BY <1>n DEF StoredInv, RowFits, JobsOf
<1>1. ASSUME NEW c \in Calls, Starts(c) PROVE LifecycleInv' /\ RowStep
    <2>1. /\ UNCHANGED <<job, worker>> /\ call[c].pc = "new"
          /\ \A d \in Calls \ {c} : call'[d] = call[d]
        BY <1>0, <1>1 DEF Starts, StartEngine, StartManual, StartRepair
    <2>2. call'[c].pc \in {"plan", "detect", "create", "done"}
        <3>1. ASSUME NEW kind \in EngineKinds, StartEngine(c, kind)
              PROVE  call'[c].pc \in {"plan", "detect"}
            BY <1>0, <3>1 DEF StartEngine, Entered
        <3>2. ASSUME NEW s \in Symbols, NEW win \in Ranges, StartManual(c, s, win)
              PROVE  call'[c].pc \in {"plan", "detect"}
            BY <1>0, <3>2 DEF StartManual, Entered
        <3>3. ASSUME NEW s \in Symbols, NEW win \in Ranges, StartRepair(c, s, win)
              PROVE  call'[c].pc \in {"create", "done"}
            BY <1>0, <3>3 DEF StartRepair, Idle
        <3> QED BY <1>1, <3>1, <3>2, <3>3 DEF Starts
    <2>3. \A s : JobsOf(c, s)' = {}
        BY <1>n, <2>1 DEF JobsOf
    <2>4. CallRows(c)'
        BY <2>2, <2>3 DEF CallRows
    <2> QED BY <2>1, <2>4, CallLifecycle
<1>2. ASSUME NEW c \in Calls,
             \/ ResolvePlanFails(c) \/ DetectFails(c) \/ CreateFails(c)
             \/ ResolvePlan(c) /\ MovesOn(c, FALSE)
      PROVE  LifecycleInv' /\ RowStep
    <2>1. MovesOn(c, FALSE) /\ call[c].pc # "new" /\ UNCHANGED <<job, worker>>
        BY <1>2 DEF ResolvePlanFails, DetectFails, CreateFails, ResolvePlan, LeavesWindow
    <2>2. call'[c].pc \in {"plan", "detect", "done"} /\ \A d \in Calls \ {c} : call'[d] = call[d]
        BY <2>1, MovesOnFits
    <2>3. CallRows(c)'
        BY <2>2 DEF CallRows
    <2> QED BY <2>1, <2>2, <2>3, CallLifecycle
<1>3. ASSUME NEW c \in Calls,
             (ResolvePlan(c) /\ ~MovesOn(c, FALSE)) \/ DetectGaps(c) \/ RecordFails(c)
      PROVE  LifecycleInv' /\ RowStep
    <2>1. /\ UNCHANGED <<job, worker>> /\ \A d \in Calls \ {c} : call'[d] = call[d]
          /\ call'[c].pc \in {"detect", "reserve", "done"}
        <3>1. CASE DetectGaps(c) \/ RecordFails(c)
            BY <1>0, <3>1 DEF DetectGaps, RecordFails, CallRec
        <3>2. CASE ResolvePlan(c) /\ ~MovesOn(c, FALSE)
            <4>1. PICK plan : call' = [call EXCEPT ![c].pc = "detect", ![c].win = plan]
                BY <3>2 DEF ResolvePlan
            <4>2. UNCHANGED <<job, worker>>
                BY <3>2 DEF ResolvePlan
            <4> QED BY <1>0, <4>1, <4>2 DEF CallRec
        <3> QED BY <1>3, <3>1, <3>2
    <2>2. CallRows(c)'
        BY <2>1 DEF CallRows
    <2> QED BY <2>1, <2>2, CallLifecycle
<1>4. ASSUME NEW c \in Calls, Reserve(c) PROVE LifecycleInv' /\ RowStep
    <2> DEFINE runnable == Runnable(call[c].sym, call[c].gaps)
    <2>1. UNCHANGED <<job, worker>> /\ call[c].pc = "reserve"
        BY <1>4 DEF Reserve
    <2>2. JobsOf(c, call[c].sym) = {}
        BY <2>1 DEF StoredInv, RowFits, JobsOf
    <2>3. CASE runnable # {}
        <3>1. call' = [call EXCEPT ![c].pc = "create", ![c].pending = runnable]
            BY <1>4, <2>3 DEF Reserve
        <3> HIDE DEF runnable
        <3>2. /\ \A d \in Calls \ {c} : call'[d] = call[d]
              /\ call'[c].sym = call[c].sym /\ call'[c].pc = "create"
            BY <1>0, <3>1 DEF CallRec
        <3>3. CallRows(c)'
            BY <2>1, <2>2, <3>2 DEF CallRows, JobsOf
        <3> QED BY <2>1, <3>2, <3>3, CallLifecycle
    <2>4. CASE runnable = {}
        <3>1. MovesOn(c, call[c].kind = "manual")
            BY <1>4, <2>4 DEF Reserve, LeavesWindow
        <3>2. (call[c].kind = "manual") \in BOOLEAN
            OBVIOUS
        <3>3. /\ \A d \in Calls \ {c} : call'[d] = call[d]
              /\ \/ call'[c].pc \in {"record", "done"} /\ call'[c].sym = call[c].sym
                 \/ call'[c].pc \in {"plan", "detect"}
            BY <3>1, <3>2, MovesOnFacts
        <3>4. CallRows(c)'
            BY <2>1, <2>2, <3>3 DEF CallRows, JobsOf
        <3> QED BY <2>1, <3>3, <3>4, CallLifecycle
    <2> QED BY <2>3, <2>4
<1>5. CASE UNCHANGED <<call, job, worker>>
    BY <1>5 DEF LifecycleInv, LaneState, CallRows, JobsOf, RecordId, RowStep
<1>6. ASSUME NEW c \in Calls, CallSteps(c) PROVE LifecycleInv' /\ RowStep
    BY <1>2, <1>3, <1>4, <1>6, CreateJobLifecycle, RecordLifecycle DEF CallSteps
<1> QED BY <1>1, <1>5, <1>6, WorkersLifecycle DEF Next, StreamStores, vars

\* The rows of backfill_jobs keep what JobLifecycle promises the operations API and the
\* dashboard: created pending, run at most MaxAttempts times, and final once succeeded
\* or failed; whatever calls, lanes and failures interleave, as long as markSucceeded
\* is not applied while its caller sees an error.
THEOREM JobLifecycleHolds ==
    ASSUME "lostAck" \notin Faults
    PROVE  Spec => JobLifecycleSpec
<1> DEFINE Inv == TypeOK /\ StoredInv /\ LifecycleInv
<1>1. Init => Inv /\ Jobs!Init
    BY TypeOKInit, StoredInit, LifecycleInit
<1>2. Inv /\ [Next]_vars => Inv' /\ [Jobs!Next]_Jobs!vars
    BY TypeOKStep, StoredStep, LifecycleStep, RowStepRefines
<1> QED BY <1>1, <1>2, PTL DEF Spec, JobLifecycleSpec, Jobs!Spec

-----------------------------------------------------------------------------
(***************************************************************************)
(* One attempt of a job: Paginator, for every horizon, page limit and      *)
(* exchange.                                                               *)
(***************************************************************************)

\* A set of numbers has a smallest element.
LEMMA Smallest ==
    ASSUME NEW S \in SUBSET Nat, S # {}
    PROVE  \E m \in S : \A n \in S : m <= n
<1> DEFINE T == {0 .. x : x \in S}
<1>1. T \subseteq FiniteSubsetsOf(Nat)
    <2> SUFFICES ASSUME NEW x \in S PROVE 0 .. x \in FiniteSubsetsOf(Nat)
        OBVIOUS
    <2>1. 0 .. x \in SUBSET Nat /\ x \in Int
        OBVIOUS
    <2>2. IsFiniteSet(0 .. x)
        BY <2>1, FS_Interval
    <2> QED BY <2>1, <2>2 DEF FiniteSubsetsOf
<1>2. T # {}
    OBVIOUS
<1>3. IsWellFoundedOn(StrictSubsetOrdering(Nat), FiniteSubsetsOf(Nat))
    BY FS_StrictSubsetOrderingWellFounded
<1> HIDE DEF T
<1>4. PICK U \in T : \A V \in T : <<V, U>> \notin StrictSubsetOrdering(Nat)
    BY <1>1, <1>2, <1>3, WFMin
<1>5. PICK m \in S : U = 0 .. m
    BY DEF T
<1>6. ASSUME NEW n \in S, n < m PROVE FALSE
    <2>1. 0 .. n \in T
        BY DEF T
    <2>2. 0 .. n \subseteq U /\ 0 .. n # U
        BY <1>5, <1>6
    <2>3. 0 .. n \in SUBSET Nat /\ U \in SUBSET Nat
        BY <1>5
    <2> QED BY <1>4, <2>1, <2>2, <2>3 DEF StrictSubsetOrdering
<1> QED BY <1>6

\* A page has a last candle.
LEMMA LastOfPage ==
    ASSUME NEW S \in SUBSET PageCandles, S # {}
    PROVE  /\ LastOf(S) \in S
           /\ \A n \in S : n <= LastOf(S)
<1> DEFINE Bounds == {b \in Nat : \A n \in S : n <= b}
<1>0. PageHorizon \in Nat /\ S \subseteq Nat
    BY PaginatorAssumption DEF PageCandles
<1>1. PageHorizon \in Bounds
    BY <1>0 DEF PageCandles
<1>2. PICK b \in Bounds : \A c \in Bounds : b <= c
    BY <1>1, Smallest
<1>3. b \in S
    <2> SUFFICES ASSUME b \notin S PROVE FALSE
        OBVIOUS
    <2>1. \A n \in S : n <= b - 1
        BY <1>0
    <2>2. b - 1 \in Nat
        <3>1. PICK n \in S : TRUE
            OBVIOUS
        <3>2. n \in Nat /\ b \in Nat /\ n <= b - 1
            BY <1>0, <2>1
        <3> QED BY <3>2
    <2>3. b - 1 \in Bounds
        BY <2>1, <2>2
    <2> QED BY <1>2, <2>3
<1>4. \E m \in S : \A n \in S : n <= m
    BY <1>3
<1> QED BY <1>4 DEF LastOf

\* An honest page: no candle before one of the page is left out, and there is
\* one as long as the exchange has any.
LEMMA FirstPageIsPrefix ==
    ASSUME NEW S \in SUBSET PageCandles
    PROVE  /\ FirstPage(S) \subseteq S
           /\ \A m \in FirstPage(S), k \in S : k < m => k \in FirstPage(S)
           /\ S # {} => FirstPage(S) # {}
<1>0. PageHorizon \in Nat /\ S \subseteq Nat /\ PageLimit \in Nat \ {0}
    BY PaginatorAssumption DEF PageCandles
<1>1. FirstPage(S) \subseteq S
    BY DEF FirstPage
<1>2. IsFiniteSet(S)
    <2>1. IsFiniteSet(PageCandles)
        BY <1>0, FS_Interval DEF PageCandles
    <2> QED BY <2>1, FS_Subset
<1>3. ASSUME NEW m \in FirstPage(S), NEW k \in S, k < m
      PROVE  k \in FirstPage(S)
    <2> DEFINE Before(x) == {n \in S : n < x}
    <2>1. Before(k) \subseteq Before(m)
        <3> SUFFICES ASSUME NEW n \in S, n < k PROVE n < m
            OBVIOUS
        <3>1. n \in Nat /\ k \in Nat /\ m \in Nat
            BY <1>0, <1>1
        <3> QED BY <1>3, <3>1
    <2>2. IsFiniteSet(Before(m)) /\ IsFiniteSet(Before(k))
        BY <1>2, FS_Subset
    <2>3. Cardinality(Before(k)) <= Cardinality(Before(m))
        BY <2>1, <2>2, FS_Subset
    <2>4. Cardinality(Before(k)) \in Nat /\ Cardinality(Before(m)) \in Nat
        BY <2>2, FS_CardinalityType
    <2>5. Cardinality(Before(m)) < PageLimit
        BY DEF FirstPage
    <2>6. Cardinality(Before(k)) < PageLimit
        BY <1>0, <2>3, <2>4, <2>5
    <2> QED BY <2>6 DEF FirstPage
<1>4. ASSUME S # {} PROVE FirstPage(S) # {}
    <2>1. PICK m \in S : \A n \in S : m <= n
        BY <1>0, <1>4, Smallest
    <2>2. \A n \in S : ~(n < m)
        <3> SUFFICES ASSUME NEW n \in S PROVE ~(n < m)
            OBVIOUS
        <3>1. n \in Nat /\ m \in Nat
            BY <1>0
        <3> QED BY <2>1, <3>1
    <2>3. {n \in S : n < m} = {}
        BY <2>2
    <2>4. Cardinality({n \in S : n < m}) < PageLimit
        BY <1>0, <2>3, FS_EmptySet
    <2> QED BY <2>4 DEF FirstPage
<1> QED BY <1>1, <1>3, <1>4

-----------------------------------------------------------------------------
\* What an honest exchange has of the range before c.
Upto(c) == {m \in exchange : range.start <= m /\ m < c /\ m < range.end}

Ends == {"none", "completed", "empty_page", "cursor_stalled", "max_pages_exceeded", "threw"}

\* An attempt at a honest exchange has written what lies before some place,
\* which is the cursor but for a page whose upsert broke; its page is the one
\* at the cursor; and it ends early only at a page without candles.
HonestProgress ==
    honest =>
        /\ \E c \in Nat : written = Upto(c)
        /\ stop # "threw" => written = Upto(cursor)
        /\ batch # NoBatch => batch = FirstPage(Served)
        /\ stop = "completed" => cursor >= range.end
        /\ stop = "empty_page" => batch = {}

\* The cursor never goes back behind the range.
CursorAhead == cursor >= range.start

PageInv == AttemptTypeOK /\ WritesInsideRange /\ CursorAhead /\ HonestProgress

LEMMA PageInit == AttemptInit => PageInv
<1> SUFFICES ASSUME AttemptInit PROVE PageInv
    OBVIOUS
<1>0. PageHorizon \in Nat /\ HardCap \in Nat
    BY PaginatorAssumption
<1>1. AttemptTypeOK
    <2>1. cursor \in PageCandles /\ pages \in 0 .. HardCap /\ written \subseteq PageCandles
        BY <1>0 DEF AttemptInit
    <2>2. honest \in BOOLEAN
        BY DEF AttemptInit
    <2> QED BY <2>1, <2>2 DEF AttemptInit, AttemptTypeOK
<1>2. WritesInsideRange /\ CursorAhead
    BY <1>0 DEF AttemptInit, WritesInsideRange, CursorAhead, PageCandles
<1>3. Upto(cursor) = {} /\ cursor \in Nat
    <2>1. cursor \in Nat /\ cursor = range.start
        BY <1>0 DEF AttemptInit, PageCandles
    <2>2. \A m \in exchange : m \in Nat
        BY <1>0 DEF AttemptInit, PageCandles
    <2>3. \A m \in exchange : ~(range.start <= m /\ m < cursor)
        BY <2>1, <2>2
    <2> QED BY <2>1, <2>3 DEF Upto
<1> QED BY <1>1, <1>2, <1>3 DEF AttemptInit, PageInv, HonestProgress

\* The steps that end an attempt, and those that only fetch.
LEMMA StepsThatWriteNothing ==
    ASSUME PageInv, LoopEnds \/ TooManyPages \/ FetchRejects \/ EmptyPage
    PROVE  PageInv'
<1>0. UNCHANGED <<range, exchange, honest, cursor, pages, batch, written>>
    BY DEF LoopEnds, TooManyPages, FetchRejects, EmptyPage
<1>1. stop' \in Ends \ {"none"}
    BY DEF LoopEnds, TooManyPages, FetchRejects, EmptyPage, Ends
<1>2. AttemptTypeOK' /\ WritesInsideRange' /\ CursorAhead'
    BY <1>0, <1>1 DEF PageInv, AttemptTypeOK, WritesInsideRange, CursorAhead, Ends
<1>3. stop = "none"
    BY DEF LoopEnds, TooManyPages, FetchRejects, EmptyPage, Running
<1>4. (stop' = "completed" => cursor >= range.end) /\ (stop' = "empty_page" => batch = {})
    BY DEF LoopEnds, TooManyPages, FetchRejects, EmptyPage
<1>5. Served' = Served /\ \A c : Upto(c)' = Upto(c)
    BY <1>0 DEF Served, Upto
<1>6. HonestProgress'
    BY <1>0, <1>3, <1>4, <1>5 DEF PageInv, HonestProgress
<1> QED BY <1>2, <1>6 DEF PageInv

LEMMA FetchPageStep ==
    ASSUME PageInv, FetchPage
    PROVE  PageInv'
<1>0. UNCHANGED <<range, exchange, honest, cursor, written, stop>>
    BY DEF FetchPage
<1>1. PageHorizon \in Nat /\ HardCap \in Nat /\ PageLimit \in Nat \ {0}
    BY PaginatorAssumption
<1>2. Served \in SUBSET PageCandles
    BY DEF PageInv, AttemptTypeOK, Served
<1>3. batch' \subseteq PageCandles
    BY <1>2, FirstPageIsPrefix DEF FetchPage
<1>4. pages' \in 0 .. HardCap
    <2>1. pages \in Nat /\ pages' = pages + 1
        BY <1>1 DEF PageInv, AttemptTypeOK, FetchPage
    <2> DEFINE candles == IF range.end > range.start THEN range.end - range.start ELSE 0
               needed  == (candles + PageLimit - 1) \div PageLimit + Margin
    <2>2. needed \in Int
        <3>1. range.start \in Int /\ range.end \in Int /\ Margin \in Int
            BY <1>1, PaginatorAssumption DEF PageInv, AttemptTypeOK, PageCandles
        <3>2. candles + PageLimit - 1 \in Int
            BY <1>1, <3>1
        <3> HIDE DEF candles
        <3> QED BY <1>1, <3>1, <3>2
    <2>3. pages < (IF needed < HardCap THEN needed ELSE HardCap)
        BY DEF FetchPage, computeMaxPages
    <2> HIDE DEF needed
    <2>4. pages < HardCap
        BY <1>1, <2>1, <2>2, <2>3
    <2> QED BY <1>1, <2>1, <2>4
<1>5. AttemptTypeOK' /\ WritesInsideRange' /\ CursorAhead'
    BY <1>0, <1>3, <1>4 DEF PageInv, AttemptTypeOK, WritesInsideRange, CursorAhead
<1>6. Served' = Served /\ \A c : Upto(c)' = Upto(c)
    BY <1>0 DEF Served, Upto
<1>7. stop = "none" /\ (honest => batch' = FirstPage(Served))
    BY DEF FetchPage, Running
<1>8. HonestProgress'
    BY <1>0, <1>6, <1>7 DEF PageInv, HonestProgress, FirstPage
<1> QED BY <1>5, <1>8 DEF PageInv

\* A consumed page of an honest exchange is what it has between the cursor and
\* the next one, and moves it on.
LEMMA HonestPage ==
    ASSUME PageInv, honest, stop = "none", batch \notin {NoBatch, {}}
    PROVE  /\ written \union InRange(batch) = Upto(NextCursor(batch))
           /\ NextCursor(batch) > cursor
<1>0. PageHorizon \in Nat
    BY PaginatorAssumption
<1>1. /\ batch = FirstPage(Served) /\ batch # {} /\ written = Upto(cursor)
      /\ Served \in SUBSET PageCandles
    BY DEF PageInv, AttemptTypeOK, HonestProgress, Served
<1>2. /\ batch \subseteq Served
      /\ \A m \in batch, k \in Served : k < m => k \in batch
    BY <1>1, FirstPageIsPrefix
<1> DEFINE last == LastOf(batch)
<1>3. last \in batch /\ \A n \in batch : n <= last
    BY <1>1, <1>2, LastOfPage
<1> HIDE DEF last
<1>4. /\ last \in Nat /\ cursor \in Nat /\ range.start \in Nat /\ range.end \in Nat
      /\ range.start <= cursor
    BY <1>0, <1>1, <1>2, <1>3 DEF PageInv, AttemptTypeOK, CursorAhead, PageCandles
<1>5. cursor <= last
    BY <1>2, <1>3 DEF Served
<1>6. \A m \in Served : m <= last => m \in batch
    <2> SUFFICES ASSUME NEW m \in Served, m <= last PROVE m \in batch
        OBVIOUS
    <2>1. m \in Nat
        BY <1>0, <1>1 DEF PageCandles
    <2> QED BY <1>2, <1>3, <1>4, <2>1
<1>7. ASSUME NEW m \in exchange
      PROVE  (m \in Upto(cursor) \/ m \in InRange(batch)) <=> m \in Upto(last + 1)
    <2>1. m \in Nat
        BY <1>0 DEF PageInv, AttemptTypeOK, PageCandles
    <2>2. m \in InRange(batch) <=> m \in batch
        BY <1>2, <1>4, <2>1 DEF InRange, Served
    <2>3. m \in batch <=> cursor <= m /\ m <= last /\ m < range.end
        BY <1>2, <1>3, <1>4, <1>6, <2>1 DEF Served
    <2> QED BY <1>4, <1>5, <2>1, <2>2, <2>3 DEF Upto
<1>8. Upto(cursor) \subseteq exchange /\ InRange(batch) \subseteq exchange /\ Upto(last + 1) \subseteq exchange
    BY <1>2 DEF Upto, InRange, Served
<1>9. written \union InRange(batch) = Upto(last + 1)
    BY <1>1, <1>7, <1>8
<1>10. NextCursor(batch) = last + 1
    BY DEF NextCursor, last
<1> QED BY <1>4, <1>5, <1>9, <1>10

\* What both outcomes of a page have in common.
LEMMA PageWrites ==
    ASSUME PageInv, batch \notin {NoBatch, {}}
    PROVE  /\ written \union InRange(batch) \subseteq PageCandles \intersect CandlesOf(range)
           /\ NextCursor(batch) \in Nat /\ NextCursor(batch) <= PageHorizon + 1
<1>0. PageHorizon \in Nat
    BY PaginatorAssumption
<1>1. batch \in SUBSET PageCandles /\ batch # {}
    BY DEF PageInv, AttemptTypeOK
<1>2. LastOf(batch) \in PageCandles
    BY <1>1, LastOfPage
<1>3. InRange(batch) \subseteq PageCandles \intersect CandlesOf(range)
    <2> SUFFICES ASSUME NEW m \in InRange(batch) PROVE m \in PageCandles \intersect CandlesOf(range)
        OBVIOUS
    <2>1. m \in PageCandles /\ cursor <= m /\ m < range.end
        BY <1>1 DEF InRange
    <2>2. cursor \in Nat /\ range.start \in Nat /\ range.end \in Nat /\ range.start <= cursor /\ m \in Nat
        BY <1>0, <2>1 DEF PageInv, AttemptTypeOK, CursorAhead, PageCandles
    <2> QED BY <2>1, <2>2 DEF CandlesOf
<1>4. written \subseteq PageCandles \intersect CandlesOf(range)
    BY DEF PageInv, AttemptTypeOK, WritesInsideRange
<1>5. NextCursor(batch) \in Nat /\ NextCursor(batch) <= PageHorizon + 1
    BY <1>0, <1>2 DEF NextCursor, PageCandles
<1> QED BY <1>3, <1>4, <1>5

LEMMA ConsumePageStep ==
    ASSUME PageInv, ConsumePage
    PROVE  PageInv'
<1>0. UNCHANGED <<range, exchange, honest, pages>> /\ batch' = NoBatch
    BY DEF ConsumePage
<1>1. stop = "none" /\ batch \notin {NoBatch, {}} /\ written' = written \union InRange(batch)
    BY DEF ConsumePage
<1>2. \/ stop' = "cursor_stalled" /\ cursor' = cursor /\ NextCursor(batch) <= cursor
      \/ stop' = "none" /\ cursor' = NextCursor(batch) /\ ~(NextCursor(batch) <= cursor)
    BY <1>1 DEF ConsumePage
<1>3. PageHorizon \in Nat
    BY PaginatorAssumption
<1>4. /\ written \union InRange(batch) \subseteq PageCandles \intersect CandlesOf(range)
      /\ NextCursor(batch) \in Nat /\ NextCursor(batch) <= PageHorizon + 1
    BY <1>1, PageWrites
<1>5. cursor \in Nat /\ range.start \in Nat /\ range.start <= cursor
    BY <1>3 DEF PageInv, AttemptTypeOK, CursorAhead, PageCandles
<1>6. cursor' \in PageCandles \union {PageHorizon + 1} /\ cursor' >= range.start
    <2>1. CASE cursor' = cursor
        BY <1>5, <2>1 DEF PageInv, AttemptTypeOK
    <2>2. CASE cursor' = NextCursor(batch) /\ ~(NextCursor(batch) <= cursor)
        BY <1>3, <1>4, <1>5, <2>2 DEF PageCandles
    <2> QED BY <1>2, <2>1, <2>2
<1>7. AttemptTypeOK' /\ WritesInsideRange' /\ CursorAhead'
    <2>1. stop' \in Ends
        BY <1>2 DEF Ends
    <2> QED BY <1>0, <1>1, <1>4, <1>6, <2>1 DEF PageInv, AttemptTypeOK, WritesInsideRange, CursorAhead, Ends
<1>8. HonestProgress'
    <2> SUFFICES ASSUME honest PROVE HonestProgress'
        BY <1>0 DEF HonestProgress
    <2>1. written' = Upto(NextCursor(batch)) /\ NextCursor(batch) > cursor
        BY <1>1, HonestPage
    <2>2. stop' = "none" /\ cursor' = NextCursor(batch)
        BY <1>2, <1>4, <1>5, <2>1
    <2>3. \A c : Upto(c)' = {m \in exchange : range.start <= m /\ m < c' /\ m < range.end}
        BY <1>0 DEF Upto
    <2>4. written' = Upto(cursor)'
        BY <1>0, <2>1, <2>2 DEF Upto
    <2>5. cursor' \in Nat
        BY <1>4, <2>2
    <2>6. (\E c \in Nat : written = Upto(c))'
        BY <1>0, <2>2, <2>4, <2>5 DEF Upto
    <2> QED BY <1>0, <2>2, <2>4, <2>6 DEF HonestProgress
<1> QED BY <1>7, <1>8 DEF PageInv

LEMMA UpsertFailsStep ==
    ASSUME PageInv, UpsertFails
    PROVE  PageInv'
<1>0. UNCHANGED <<range, exchange, honest, cursor, pages, batch>> /\ stop' = "threw"
    BY DEF UpsertFails
<1>1. stop = "none" /\ batch \notin {NoBatch, {}} /\ written' \in {written, written \union InRange(batch)}
    BY DEF UpsertFails
<1>2. /\ written \union InRange(batch) \subseteq PageCandles \intersect CandlesOf(range)
      /\ NextCursor(batch) \in Nat
    BY <1>1, PageWrites
<1>3. AttemptTypeOK' /\ WritesInsideRange' /\ CursorAhead'
    BY <1>0, <1>1, <1>2 DEF PageInv, AttemptTypeOK, WritesInsideRange, CursorAhead
<1>4. HonestProgress'
    <2> SUFFICES ASSUME honest PROVE HonestProgress'
        BY <1>0 DEF HonestProgress
    <2>1. written \union InRange(batch) = Upto(NextCursor(batch))
        BY <1>1, HonestPage
    <2>2. \E c \in Nat : written' = Upto(c)
        BY <1>1, <1>2, <2>1 DEF PageInv, HonestProgress
    <2>3. (\E c \in Nat : written = Upto(c))'
        BY <1>0, <2>2 DEF Upto
    <2>4. batch' = FirstPage(Served)'
        BY <1>0, <1>1 DEF PageInv, HonestProgress, FirstPage, Served
    <2> QED BY <1>0, <2>3, <2>4 DEF HonestProgress
<1> QED BY <1>3, <1>4 DEF PageInv

LEMMA PageStep == PageInv /\ [AttemptNext]_attemptVars => PageInv'
<1> SUFFICES ASSUME PageInv, [AttemptNext]_attemptVars PROVE PageInv'
    OBVIOUS
<1>1. CASE LoopEnds \/ TooManyPages \/ FetchRejects \/ EmptyPage
    BY <1>1, StepsThatWriteNothing
<1>2. CASE FetchPage
    BY <1>2, FetchPageStep
<1>3. CASE ConsumePage
    BY <1>3, ConsumePageStep
<1>4. CASE UpsertFails
    BY <1>4, UpsertFailsStep
<1>5. CASE UNCHANGED attemptVars
    BY <1>5 DEF attemptVars, PageInv, AttemptTypeOK, WritesInsideRange, CursorAhead, HonestProgress, Upto, Served, FirstPage
<1> QED BY <1>1, <1>2, <1>3, <1>4, <1>5 DEF AttemptNext

\* What was written up to a place is a prefix, and all of it once the place is
\* the cursor at which a successful attempt ended.
LEMMA ProgressIsExact == PageInv => WritesAreExact
<1> SUFFICES ASSUME PageInv PROVE WritesAreExact
    OBVIOUS
<1>0. PageHorizon \in Nat
    BY PaginatorAssumption
<1>1. /\ exchange \subseteq Nat /\ cursor \in Nat
      /\ range.start \in Nat /\ range.end \in Nat /\ range.start <= cursor
    BY <1>0 DEF PageInv, AttemptTypeOK, CursorAhead, PageCandles
<1>2. ASSUME honest PROVE \A m \in written : exchange \intersect (range.start .. m) \subseteq written
    <2>1. PICK c \in Nat : written = Upto(c)
        BY <1>2 DEF PageInv, HonestProgress
    <2> SUFFICES ASSUME NEW m \in Upto(c), NEW k \in exchange \intersect (range.start .. m)
                 PROVE  k \in Upto(c)
        BY <2>1
    <2>2. k \in Nat /\ m \in Nat
        BY <1>1 DEF Upto
    <2> QED BY <1>1, <2>2 DEF Upto
<1>3. ASSUME honest, Succeeds PROVE written = exchange \intersect CandlesOf(range)
    <2>1. written = Upto(cursor)
        BY <1>3 DEF PageInv, HonestProgress, Succeeds
    <2>2. \A m \in exchange : range.start <= m /\ m < range.end => m < cursor
        <3>1. CASE stop = "completed"
            <4>1. cursor >= range.end
                BY <1>3, <3>1 DEF PageInv, HonestProgress
            <4> SUFFICES ASSUME NEW m \in exchange, m < range.end PROVE m < cursor
                OBVIOUS
            <4>2. m \in Nat
                BY <1>1
            <4> QED BY <1>1, <4>1, <4>2
        <3>2. CASE stop = "empty_page"
            <4>1. batch = {} /\ batch # NoBatch
                BY <1>3, <3>2 DEF PageInv, HonestProgress, NoBatch
            <4>2. FirstPage(Served) = {}
                BY <1>3, <4>1 DEF PageInv, HonestProgress
            <4>3. Served = {}
                <5>1. Served \in SUBSET PageCandles
                    BY DEF PageInv, AttemptTypeOK, Served
                <5> QED BY <4>2, <5>1, FirstPageIsPrefix
            <4> SUFFICES ASSUME NEW m \in exchange, m < range.end PROVE m < cursor
                OBVIOUS
            <4>4. m \in Nat
                BY <1>1
            <4> QED BY <1>1, <4>3, <4>4 DEF Served
        <3> QED BY <1>3, <3>1, <3>2 DEF Succeeds
    <2>3. \A m \in exchange : m \in Upto(cursor) <=> m \in CandlesOf(range)
        <3> SUFFICES ASSUME NEW m \in exchange PROVE m \in Upto(cursor) <=> m \in CandlesOf(range)
            OBVIOUS
        <3>1. m \in Nat
            BY <1>1
        <3> QED BY <1>1, <2>2, <3>1 DEF Upto, CandlesOf
    <2> QED BY <2>1, <2>3 DEF Upto
<1> QED BY <1>2, <1>3 DEF WritesAreExact, SuccessIsComplete, WritesPrefix, PageInv

-----------------------------------------------------------------------------
\* Whatever the exchange and whatever fails, an attempt (paginateKlines with
\* its page sink) writes only candles of its range; against an exchange that
\* answers what it was asked, it writes them in order without leaving one out,
\* and all of them once it is taken for a success.
THEOREM WritesAreExactHolds == AttemptSpec => []WritesAreExact
BY PageInit, PageStep, ProgressIsExact, PTL DEF AttemptSpec

-----------------------------------------------------------------------------
\* A page is full, or it is all that is served.
LEMMA PageIsFullOrAll ==
    ASSUME NEW S \in SUBSET PageCandles, FirstPage(S) # S
    PROVE  /\ IsFiniteSet(FirstPage(S))
           /\ PageLimit <= Cardinality(FirstPage(S))
<1>0. PageHorizon \in Nat /\ S \subseteq Nat /\ PageLimit \in Nat \ {0}
    BY PaginatorAssumption DEF PageCandles
<1>1. FirstPage(S) \subseteq S
    BY DEF FirstPage
<1>2. IsFiniteSet(S)
    <2>1. IsFiniteSet(PageCandles)
        BY <1>0, FS_Interval DEF PageCandles
    <2> QED BY <2>1, FS_Subset
<1>3. IsFiniteSet(FirstPage(S)) /\ Cardinality(FirstPage(S)) \in Nat
    BY <1>1, <1>2, FS_Subset, FS_CardinalityType
<1> DEFINE Rest == S \ FirstPage(S)
<1>4. PICK m \in Rest : \A n \in Rest : m <= n
    <2>1. Rest \in SUBSET Nat /\ Rest # {}
        BY <1>0, <1>1
    <2> HIDE DEF Rest
    <2> QED BY <2>1, Smallest
<1> DEFINE Before == {n \in S : n < m}
<1>5. Before \subseteq FirstPage(S)
    <2> SUFFICES ASSUME NEW n \in S, n < m, n \in Rest PROVE FALSE
        OBVIOUS
    <2>1. n \in Nat /\ m \in Nat
        BY <1>0
    <2> QED BY <1>4, <2>1
<1>6. Cardinality(Before) <= Cardinality(FirstPage(S)) /\ Cardinality(Before) \in Nat
    <2>1. IsFiniteSet(Before)
        BY <1>2, FS_Subset
    <2> HIDE DEF Before
    <2> QED BY <1>3, <1>5, <2>1, FS_Subset, FS_CardinalityType
<1>7. ~(Cardinality(Before) < PageLimit)
    BY DEF FirstPage
<1> HIDE DEF Before
<1> QED BY <1>0, <1>3, <1>6, <1>7

\* PageCandles between two places are no more than the places.
LEMMA PageFitsBetween ==
    ASSUME NEW a \in Nat, NEW b \in Nat, a <= b,
           NEW S \in SUBSET (a .. b)
    PROVE  Cardinality(S) <= b + 1 - a
<1>1. IsFiniteSet(a .. b) /\ Cardinality(a .. b) = b - a + 1
    BY FS_Interval
<1>2. Cardinality(S) <= Cardinality(a .. b)
    BY <1>1, FS_Subset
<1> QED BY <1>1, <1>2

\* What rounding up a division promises.
LEMMA RoundedUp ==
    ASSUME NEW a \in Nat, NEW b \in Nat \ {0}
    PROVE  /\ (a + b - 1) \div b \in Int
           /\ a <= ((a + b - 1) \div b) * b
<1> DEFINE n == a + b - 1
           q == n \div b
<1>1. n \in Int
    OBVIOUS
<1> HIDE DEF n
<1>2. q \in Int /\ n < q * b + b
    BY <1>1, SMTT(20)
<1> HIDE DEF q
<1>3. a <= q * b
    BY <1>2 DEF n
<1> QED BY <1>2, <1>3 DEF n, q

LEMMA LessTimes ==
    ASSUME NEW k \in Int, NEW q \in Int, NEW b \in Nat \ {0}, k * b < q * b
    PROVE  k < q
BY SMTT(20)

LEMMA OneMoreTime ==
    ASSUME NEW k \in Int, NEW b \in Int
    PROVE  (k + 1) * b = k * b + b
OBVIOUS

-----------------------------------------------------------------------------
\* The pages an attempt has consumed.
Consumed == IF batch = NoBatch THEN pages ELSE pages - 1

\* Each page of an honest exchange but the last took the cursor a whole page
\* ahead, and after one that was not full there is nothing more to serve.
PagesFit ==
    honest /\ stop = "none" =>
        \/ Consumed * PageLimit <= cursor - range.start
        \/ Served = {} /\ (Consumed - 1) * PageLimit < cursor - range.start

\* The hard cap lies beyond every range: 500 pages of 1000 candles are 347 days of
\* 1m candles; startup windows and manual requests have at most 30 days, a scan its
\* lookback of 24 hours, and a repair lasts as long as the outage it repairs.
CapIsBeyond == Margin >= 1 /\ PageHorizon <= (HardCap - 1) * PageLimit

PageCountInv == PageInv /\ PagesFit /\ HonestNeverCutOff

LEMMA PlacesAreNat ==
    ASSUME PageInv
    PROVE  /\ cursor \in Nat /\ range.start \in Nat /\ range.end \in Nat
           /\ range.start <= cursor /\ pages \in Nat
           /\ range.end <= PageHorizon /\ PageHorizon \in Nat
           /\ PageLimit \in Nat \ {0} /\ HardCap \in Nat \ {0} /\ Margin \in Nat
<1>0. PageHorizon \in Nat /\ PageLimit \in Nat \ {0} /\ HardCap \in Nat \ {0} /\ Margin \in Nat
    BY PaginatorAssumption
<1>1. cursor \in Nat /\ range.start \in Nat /\ range.end \in Nat /\ range.end <= PageHorizon
    BY <1>0 DEF PageInv, AttemptTypeOK, PageCandles
<1>2. range.start <= cursor /\ pages \in Nat
    BY <1>0, <1>1 DEF PageInv, AttemptTypeOK, CursorAhead
<1> QED BY <1>0, <1>1, <1>2

LEMMA CountInit == AttemptInit => PageCountInv
<1> SUFFICES ASSUME AttemptInit PROVE PageCountInv
    OBVIOUS
<1>1. PageInv
    BY PageInit
<1>2. cursor \in Nat /\ range.start \in Nat /\ PageLimit \in Nat
    BY <1>1, PlacesAreNat
<1>3. Consumed = 0 /\ cursor = range.start
    BY DEF AttemptInit, Consumed
<1>4. PagesFit
    BY <1>2, <1>3 DEF PagesFit
<1>5. HonestNeverCutOff
    BY DEF AttemptInit, HonestNeverCutOff
<1> QED BY <1>1, <1>4, <1>5 DEF PageCountInv

\* The pages that fit before a place inside the range are fewer than the
\* limit allows, the last one being allowed to be short.
LEMMA LimitIsGenerous ==
    ASSUME PageInv, CapIsBeyond, cursor < range.end,
           NEW k \in Int, (k - 1) * PageLimit < cursor - range.start
    PROVE  k < computeMaxPages(range.start, range.end)
<1>0. /\ cursor \in Nat /\ range.start \in Nat /\ range.end \in Nat
      /\ range.start <= cursor /\ range.end <= PageHorizon
      /\ PageLimit \in Nat \ {0} /\ HardCap \in Nat \ {0} /\ Margin \in Nat /\ PageHorizon \in Nat
    BY PlacesAreNat
<1> DEFINE candles == range.end - range.start
           wanted  == (candles + PageLimit - 1) \div PageLimit
<1>1. candles \in Nat /\ range.end > range.start /\ candles <= PageHorizon
      /\ cursor - range.start < candles /\ cursor - range.start \in Int
    BY <1>0
<1> HIDE DEF candles
<1>2. wanted \in Int /\ candles <= wanted * PageLimit
    BY <1>0, <1>1, RoundedUp
<1> HIDE DEF wanted
<1>3. k - 1 \in Int /\ (k - 1) * PageLimit \in Int
    BY <1>0
<1>4. k - 1 < wanted
    <2>1. (k - 1) * PageLimit < wanted * PageLimit
        <3>1. wanted * PageLimit \in Int
            BY <1>0, <1>2
        <3> QED BY <1>0, <1>1, <1>2, <1>3, <3>1
    <2> QED BY <1>0, <1>2, <1>3, <2>1, LessTimes
<1>5. k - 1 < HardCap - 1
    <2>1. HardCap - 1 \in Int /\ (HardCap - 1) * PageLimit \in Int
        BY <1>0
    <2>2. (k - 1) * PageLimit < (HardCap - 1) * PageLimit
        BY <1>0, <1>1, <1>3, <2>1 DEF CapIsBeyond
    <2> QED BY <1>0, <1>3, <2>1, <2>2, LessTimes
<1>6. k < wanted + Margin /\ k < HardCap
    BY <1>0, <1>2, <1>4, <1>5 DEF CapIsBeyond
<1>7. computeMaxPages(range.start, range.end) = IF wanted + Margin < HardCap THEN wanted + Margin ELSE HardCap
    BY <1>1 DEF computeMaxPages, wanted, candles
<1> QED BY <1>6, <1>7

LEMMA CountTooManyPages ==
    ASSUME PageCountInv, CapIsBeyond, TooManyPages, honest
    PROVE  FALSE
<1>0. PageInv
    BY DEF PageCountInv
<1>1. /\ cursor \in Nat /\ range.start \in Nat /\ range.end \in Nat
      /\ pages \in Nat /\ PageLimit \in Nat \ {0}
    BY <1>0, PlacesAreNat
<1>2. /\ stop = "none" /\ batch = NoBatch /\ cursor < range.end
      /\ pages >= computeMaxPages(range.start, range.end)
    BY DEF TooManyPages, Running
<1>3. (pages - 1) * PageLimit < cursor - range.start
    <2>1. Consumed = pages
        BY <1>2 DEF Consumed
    <2>2. \/ pages * PageLimit <= cursor - range.start
          \/ (pages - 1) * PageLimit < cursor - range.start
        BY <1>2, <2>1 DEF PageCountInv, PagesFit
    <2>3. pages * PageLimit = (pages - 1) * PageLimit + PageLimit
        <3>1. pages - 1 \in Int /\ PageLimit \in Int /\ (pages - 1) + 1 = pages
            BY <1>1
        <3> QED BY <3>1, OneMoreTime
    <2>4. (pages - 1) * PageLimit \in Int /\ cursor - range.start \in Int
        BY <1>1
    <2> QED BY <1>1, <2>2, <2>3, <2>4
<1>4. pages < computeMaxPages(range.start, range.end)
    BY <1>0, <1>1, <1>2, <1>3, LimitIsGenerous
<1>5. computeMaxPages(range.start, range.end) \in Int
    <2> DEFINE candles == IF range.end > range.start THEN range.end - range.start ELSE 0
    <2>1. candles \in Nat /\ PageLimit \in Nat \ {0} /\ HardCap \in Int /\ Margin \in Int
        BY <1>0, <1>1, PlacesAreNat
    <2> HIDE DEF candles
    <2>2. (candles + PageLimit - 1) \div PageLimit \in Int
        BY <2>1, RoundedUp
    <2>3. computeMaxPages(range.start, range.end)
            = IF (candles + PageLimit - 1) \div PageLimit + Margin < HardCap
              THEN (candles + PageLimit - 1) \div PageLimit + Margin ELSE HardCap
        BY DEF computeMaxPages, candles
    <2> QED BY <2>1, <2>2, <2>3
<1> QED BY <1>1, <1>2, <1>4, <1>5

\* A page is answered: it is the next one, not yet consumed.
LEMMA CountFetchPage ==
    ASSUME PageCountInv, FetchPage
    PROVE  PagesFit' /\ HonestNeverCutOff'
<1>0. PageInv /\ PagesFit
    BY DEF PageCountInv
<1>1. UNCHANGED <<range, exchange, honest, cursor, written, stop>> /\ pages' = pages + 1
    BY DEF FetchPage
<1>2. pages \in Nat
    BY <1>0, PlacesAreNat
<1>3. ASSUME honest PROVE batch' # NoBatch /\ batch = NoBatch
    <2>1. batch' = FirstPage(Served) /\ batch = NoBatch
        BY <1>3 DEF FetchPage, Running
    <2>2. FirstPage(Served) \subseteq PageCandles
        <3>1. Served \in SUBSET PageCandles
            BY <1>0 DEF PageInv, AttemptTypeOK, Served
        <3> QED BY <3>1, FirstPageIsPrefix
    <2>3. -1 \notin PageCandles
        BY <1>0, PlacesAreNat DEF PageCandles
    <2> QED BY <2>1, <2>2, <2>3 DEF NoBatch
<1>4. honest => Consumed' = Consumed
    BY <1>1, <1>2, <1>3 DEF Consumed
<1>5. Served' = Served
    BY <1>1 DEF Served
<1>6. PagesFit'
    BY <1>0, <1>1, <1>4, <1>5 DEF PagesFit
<1>7. HonestNeverCutOff'
    BY <1>1 DEF PageCountInv, HonestNeverCutOff
<1> QED BY <1>6, <1>7

\* A consumed page of an honest exchange was full, or it was the last one.
LEMMA CountConsumePage ==
    ASSUME PageCountInv, ConsumePage, honest
    PROVE  PagesFit' /\ HonestNeverCutOff'
<1>0. PageInv /\ PagesFit
    BY DEF PageCountInv
<1>1. /\ cursor \in Nat /\ range.start \in Nat /\ range.end \in Nat /\ range.start <= cursor
      /\ pages \in Nat /\ PageHorizon \in Nat /\ PageLimit \in Nat \ {0}
    BY <1>0, PlacesAreNat
<1>2. /\ stop = "none" /\ batch \notin {NoBatch, {}} /\ batch' = NoBatch
      /\ UNCHANGED <<range, exchange, honest, pages>>
    BY DEF ConsumePage
<1>3. NextCursor(batch) > cursor
    BY <1>0, <1>2, HonestPage
<1>4. NextCursor(batch) \in Nat
    BY <1>0, <1>2, PageWrites
<1>5. cursor' = NextCursor(batch) /\ stop' = "none"
    BY <1>1, <1>3, <1>4 DEF ConsumePage
<1>6. batch = FirstPage(Served) /\ Served \in SUBSET PageCandles
    BY <1>0, <1>2 DEF PageInv, AttemptTypeOK, HonestProgress, Served
<1> DEFINE last == LastOf(batch)
<1>7. batch \subseteq Served /\ last \in batch /\ \A n \in batch : n <= last
    BY <1>2, <1>6, FirstPageIsPrefix, LastOfPage
<1>8. cursor' = last + 1
    BY <1>5 DEF NextCursor
<1> HIDE DEF last
<1>9. last \in Nat /\ cursor <= last
    BY <1>1, <1>6, <1>7 DEF Served, PageCandles
<1>10. Consumed = pages - 1 /\ Consumed' = pages /\ pages = Consumed + 1
    BY <1>1, <1>2 DEF Consumed
<1>11. Consumed * PageLimit <= cursor - range.start
    <2>1. Served # {}
        BY <1>7
    <2> QED BY <1>0, <1>2, <2>1 DEF PagesFit
<1>12. CASE batch # Served
    <2>1. PageLimit <= Cardinality(batch) /\ Cardinality(batch) \in Nat
        BY <1>6, <1>12, PageIsFullOrAll, FS_CardinalityType
    <2>2. batch \in SUBSET (cursor .. last)
        <3> SUFFICES ASSUME NEW n \in batch PROVE n \in cursor .. last
            OBVIOUS
        <3>1. n \in Nat /\ cursor <= n /\ n <= last
            BY <1>1, <1>6, <1>7 DEF Served, PageCandles
        <3> QED BY <1>1, <1>9, <3>1
    <2>3. Cardinality(batch) <= last + 1 - cursor
        BY <1>1, <1>9, <2>2, PageFitsBetween
    <2>4. pages * PageLimit = Consumed * PageLimit + PageLimit
        <3>1. Consumed \in Int /\ PageLimit \in Int
            BY <1>1, <1>10
        <3> QED BY <1>10, <3>1, OneMoreTime
    <2>5. Consumed * PageLimit \in Int
        BY <1>1, <1>10
    <2>6. pages * PageLimit <= cursor' - range.start
        BY <1>1, <1>8, <1>9, <1>11, <2>1, <2>3, <2>4, <2>5
    <2>7. Consumed' * PageLimit <= cursor' - range'.start
        BY <1>2, <1>10, <2>6
    <2> QED BY <1>5, <2>7 DEF PagesFit, HonestNeverCutOff
<1>13. CASE batch = Served
    <2>1. Served' = {}
        <3> SUFFICES ASSUME NEW n \in exchange, cursor' <= n, n <= range.end - 1 PROVE FALSE
            BY <1>2 DEF Served
        <3>1. n \in Nat
            BY <1>0, <1>1 DEF PageInv, AttemptTypeOK, PageCandles
        <3>2. n \in Served
            BY <1>1, <1>8, <1>9, <3>1 DEF Served
        <3> QED BY <1>7, <1>8, <1>9, <1>13, <3>1, <3>2
    <2>2. (Consumed' - 1) * PageLimit < cursor' - range'.start
        <3>1. Consumed' - 1 = Consumed /\ Consumed * PageLimit \in Int
            BY <1>1, <1>10
        <3>2. Consumed * PageLimit < cursor' - range.start
            BY <1>1, <1>8, <1>9, <1>11, <3>1
        <3> QED BY <1>2, <3>1, <3>2
    <2> QED BY <1>5, <2>1, <2>2 DEF PagesFit, HonestNeverCutOff
<1> QED BY <1>12, <1>13

LEMMA CountStep == PageCountInv /\ CapIsBeyond /\ [AttemptNext]_attemptVars => PageCountInv'
<1> SUFFICES ASSUME PageCountInv, CapIsBeyond, [AttemptNext]_attemptVars PROVE PageCountInv'
    OBVIOUS
<1>1. PageInv'
    BY PageStep DEF PageCountInv
<1>2. ASSUME LoopEnds \/ FetchRejects \/ EmptyPage \/ UpsertFails
      PROVE  PagesFit' /\ HonestNeverCutOff'
    <2>1. stop' \in {"completed", "threw", "empty_page"}
        BY <1>2 DEF LoopEnds, FetchRejects, EmptyPage, UpsertFails
    <2> QED BY <2>1 DEF PagesFit, HonestNeverCutOff
<1>3. ASSUME TooManyPages
      PROVE  PagesFit' /\ HonestNeverCutOff'
    <2>1. honest' = honest /\ ~honest
        BY <1>3, CountTooManyPages DEF TooManyPages
    <2> QED BY <2>1 DEF PagesFit, HonestNeverCutOff
<1>4. ASSUME FetchPage
      PROVE  PagesFit' /\ HonestNeverCutOff'
    BY <1>4, CountFetchPage
<1>5. ASSUME ConsumePage
      PROVE  PagesFit' /\ HonestNeverCutOff'
    <2>1. CASE honest
        BY <1>5, <2>1, CountConsumePage
    <2>2. CASE ~honest
        <3>1. ~honest'
            BY <1>5, <2>2 DEF ConsumePage
        <3> QED BY <3>1 DEF PagesFit, HonestNeverCutOff
    <2> QED BY <2>1, <2>2
<1>6. ASSUME UNCHANGED attemptVars
      PROVE  PagesFit' /\ HonestNeverCutOff'
    BY <1>6 DEF attemptVars, PageCountInv, PagesFit, HonestNeverCutOff, Consumed, Served
<1>7. PagesFit' /\ HonestNeverCutOff'
    BY <1>2, <1>3, <1>4, <1>5, <1>6 DEF AttemptNext
<1> QED BY <1>1, <1>7 DEF PageCountInv

-----------------------------------------------------------------------------
\* The page limit of an attempt (computeMaxPages) is generous enough: as long
\* as the hard cap lies beyond the range and the margin has a page for the
\* empty answer after a short one, an exchange that answers what it was asked
\* is never cut off, nor taken for one that stalls.
THEOREM HonestNeverCutOffHolds ==
    ASSUME CapIsBeyond
    PROVE  AttemptSpec => []HonestNeverCutOff
<1>1. AttemptInit => PageCountInv
    BY CountInit
<1>2. PageCountInv /\ [AttemptNext]_attemptVars => PageCountInv'
    BY CountStep
<1>3. PageCountInv => HonestNeverCutOff
    BY DEF PageCountInv
<1> QED BY <1>1, <1>2, <1>3, PTL DEF AttemptSpec

-----------------------------------------------------------------------------
\* The stop

\* A request says where it stands.
InShape(r) == "pc" \in DOMAIN r

\* Each caller has a request, idle or not.
RequestsInShape == req = [c \in Callers |-> req[c]] /\ \A c \in Callers : InShape(req[c])

\* The pause under way outlasts every Retry-After that is not over.
PauseCoversOwed ==
    /\ pauseLeft \in Nat
    /\ owed \subseteq Nat \ {0}
    /\ \A t \in owed : t <= pauseLeft

StopInv == RequestsInShape /\ PauseCoversOwed

\* Where the request of a caller can go when it is tried again or ends.
LEMMA Onward ==
    ASSUME NEW c \in Callers, InShape(req[c]), NEW pause, NEW why
    PROVE  /\ InShape(Ended(c, why)) /\ Ended(c, why).pc = "idle"
           /\ InShape(TriedAgain(c, pause, why))
           /\ TriedAgain(c, pause, why).pc \in {"acquire", "idle"}
BY DEF InShape, Ended, TriedAgain

\* One caller's request changes, the others' do not: no grant unless it says so.
LEMMA OneMoves ==
    ASSUME RequestsInShape, NEW c \in Callers, NEW r, InShape(r),
           req' = [req EXCEPT ![c] = r]
    PROVE  /\ RequestsInShape'
           /\ req'[c] = r
           /\ \A d \in Callers \ {c} : req'[d] = req[d]
BY DEF RequestsInShape, InShape

LEMMA StopInit == ClientInit => StopInv
BY DEF ClientInit, LimiterInit, StopInv, RequestsInShape, PauseCoversOwed, InShape, NoRequest

\* A grant is given by Acquire, and Acquire gives it when nothing is owed.
LEMMA AcquireSound ==
    ASSUME StopInv, NEW c \in Callers, Acquire(c)
    PROVE  StopInv' /\ (\A d \in Callers : Grants(d) => owed = {} /\ ~banned)
<1> DEFINE verdict == Verdict(req[c].weight)
<1>0. UNCHANGED <<pauseLeft, banned, owed>>
    BY DEF Acquire, Grant
<1>1. PauseCoversOwed'
    BY <1>0 DEF StopInv, PauseCoversOwed
<1>2. InShape(req[c])
    BY DEF StopInv, RequestsInShape
<1>3. CASE verdict = "granted"
    <2>1. PICK r : r = [req[c] EXCEPT !.pc = "fetch"]
        OBVIOUS
    <2>2. InShape(r) /\ req' = [req EXCEPT ![c] = r]
        BY <1>2, <1>3, <2>1 DEF Acquire, InShape
    <2>3. RequestsInShape' /\ \A d \in Callers \ {c} : req'[d] = req[d]
        BY <2>2, OneMoves DEF StopInv
    <2>4. ~banned /\ pauseLeft = 0
        BY <1>3 DEF Verdict, StopInv, PauseCoversOwed
    <2>5. owed = {}
        BY <2>4 DEF StopInv, PauseCoversOwed
    <2> QED BY <1>1, <2>3, <2>4, <2>5 DEF StopInv
<1>4. CASE verdict # "granted"
    <2>1. PICK r : /\ req' = [req EXCEPT ![c] = r] /\ InShape(r)
                   /\ r.pc \in {"acquire", "idle"}
        <3>1. CASE verdict = "banned"
            BY <1>2, <3>1, Onward DEF Acquire
        <3>2. CASE verdict # "banned"
            <4> DEFINE r == [req[c] EXCEPT !.wake = WaitFor(verdict)]
            <4>1. req' = [req EXCEPT ![c] = r]
                BY <1>4, <3>2 DEF Acquire
            <4>2. InShape(r) /\ r.pc = "acquire"
                BY <1>2 DEF Acquire, InShape
            <4> HIDE DEF r
            <4> QED BY <4>1, <4>2
        <3> QED BY <3>1, <3>2
    <2>2. /\ RequestsInShape' /\ req'[c] = r
          /\ \A d \in Callers \ {c} : req'[d] = req[d]
        BY <2>1, OneMoves DEF StopInv
    <2> QED BY <1>1, <2>1, <2>2 DEF StopInv, Grants
<1> QED BY <1>3, <1>4

\* A step of a caller that sets its request to anything but "fetch" grants nothing.
LEMMA NoGrantHere ==
    ASSUME StopInv, NEW c \in Callers, NEW r, InShape(r), r.pc # "fetch",
           req' = [req EXCEPT ![c] = r], PauseCoversOwed'
    PROVE  StopInv' /\ (\A d \in Callers : Grants(d) => owed = {} /\ ~banned)
<1>1. /\ RequestsInShape' /\ req'[c] = r
      /\ \A d \in Callers \ {c} : req'[d] = req[d]
    BY OneMoves DEF StopInv
<1> QED BY <1>1 DEF StopInv, Grants

LEMMA StopStep ==
    StopInv /\ [ClientNext]_clientVars =>
        StopInv' /\ [\A c \in Callers : Grants(c) => owed = {} /\ ~banned]_clientVars
<1> SUFFICES ASSUME StopInv, [ClientNext]_clientVars
             PROVE  StopInv' /\ [\A c \in Callers : Grants(c) => owed = {} /\ ~banned]_clientVars
    OBVIOUS
<1>0. \A c \in Callers : InShape(req[c])
    BY DEF StopInv, RequestsInShape
<1>1. ASSUME NEW c \in Callers, NEW w \in Weights, Request(c, w)
      PROVE  StopInv' /\ (\A d \in Callers : Grants(d) => owed = {} /\ ~banned)
    <2> DEFINE r == [NoRequest EXCEPT !.pc = "acquire", !.weight = w, !.attempt = 1,
                                      !.made = req[c].made + 1]
    <2>1. req' = [req EXCEPT ![c] = r] /\ UNCHANGED <<pauseLeft, owed>>
        BY <1>1 DEF Request
    <2>2. InShape(r) /\ r.pc = "acquire"
        BY DEF InShape, NoRequest
    <2>3. PauseCoversOwed'
        BY <2>1 DEF StopInv, PauseCoversOwed
    <2> HIDE DEF r
    <2> QED BY <2>1, <2>2, <2>3, NoGrantHere
<1>2. ASSUME NEW c \in Callers, Acquire(c)
      PROVE  StopInv' /\ (\A d \in Callers : Grants(d) => owed = {} /\ ~banned)
    BY <1>2, AcquireSound
<1>3. ASSUME NEW c \in Callers, FetchThrows(c) \/ BodyOf5xx(c)
      PROVE  StopInv' /\ (\A d \in Callers : Grants(d) => owed = {} /\ ~banned)
    <2>1. PICK pause \in Backoffs, why \in {"net", "5xx"} :
              req' = [req EXCEPT ![c] = TriedAgain(c, pause, why)]
        BY <1>3 DEF FetchThrows, BodyOf5xx
    <2>2. PauseCoversOwed'
        BY <1>3 DEF FetchThrows, BodyOf5xx, StopInv, PauseCoversOwed
    <2>3. InShape(TriedAgain(c, pause, why)) /\ TriedAgain(c, pause, why).pc # "fetch"
        BY <1>0, Onward
    <2> QED BY <2>1, <2>2, <2>3, NoGrantHere
<1>4. ASSUME NEW c \in Callers, NEW answer \in Answers, NEW report \in Reports,
             HeadersArrive(c, answer, report)
      PROVE  StopInv' /\ (\A d \in Callers : Grants(d) => owed = {} /\ ~banned)
    <2> DEFINE r == [req[c] EXCEPT !.pc = "body", !.answer = answer]
    <2>1. UNCHANGED <<pauseLeft, owed>>
        BY <1>4 DEF HeadersArrive
    <2>2. InShape(r) /\ r.pc = "body"
        BY <1>0 DEF InShape
    <2>3. req' = [req EXCEPT ![c] = r]
        BY <1>4 DEF HeadersArrive, StopInv, RequestsInShape
    <2>4. PauseCoversOwed'
        BY <2>1 DEF StopInv, PauseCoversOwed
    <2> HIDE DEF r
    <2> QED BY <2>2, <2>3, <2>4, NoGrantHere
<1>5. ASSUME NEW c \in Callers, BodyOfOk(c) \/ BodyOf418(c) \/ BodyOf4xx(c)
      PROVE  StopInv' /\ (\A d \in Callers : Grants(d) => owed = {} /\ ~banned)
    <2>1. PICK why \in Results : req' = [req EXCEPT ![c] = Ended(c, why)]
        BY <1>5 DEF BodyOfOk, BodyOf418, BodyOf4xx, Results
    <2>2. UNCHANGED <<pauseLeft, owed>>
        BY <1>5 DEF BodyOfOk, BodyOf418, BodyOf4xx
    <2>3. PauseCoversOwed'
        BY <2>2 DEF StopInv, PauseCoversOwed
    <2>4. InShape(Ended(c, why)) /\ Ended(c, why).pc # "fetch"
        BY <1>0, Onward
    <2> QED BY <2>1, <2>3, <2>4, NoGrantHere
<1>6. ASSUME NEW c \in Callers, NEW ticks \in RetryAfters, BodyOf429(c, ticks)
      PROVE  StopInv' /\ (\A d \in Callers : Grants(d) => owed = {} /\ ~banned)
    <2>1. /\ req' = [req EXCEPT ![c] = TriedAgain(c, 0, "429")]
          /\ pauseLeft' = applyRetryAfter(ticks) /\ owed' = owed \union {ticks}
        BY <1>6 DEF BodyOf429
    <2>2. ticks \in Nat \ {0}
        BY ClientAssumption
    <2>3. PauseCoversOwed'
        BY <2>1, <2>2 DEF StopInv, PauseCoversOwed, applyRetryAfter
    <2>4. /\ InShape(TriedAgain(c, 0, "429"))
          /\ TriedAgain(c, 0, "429").pc # "fetch"
        BY <1>0, Onward
    <2> QED BY <2>1, <2>3, <2>4, NoGrantHere
<1>7. CASE Tick
    <2>1. \A c \in Callers : req'[c].pc = req[c].pc /\ InShape(req'[c])
        BY <1>0, <1>7 DEF Tick, InShape
    <2>2. RequestsInShape'
        BY <1>7, <2>1 DEF Tick, RequestsInShape
    <2>3. /\ pauseLeft' = (IF pauseLeft > 0 THEN pauseLeft - 1 ELSE 0)
          /\ owed' = {t - 1 : t \in owed \ {1}}
        BY <1>7 DEF Tick, LimiterTick
    <2>4. PauseCoversOwed'
        BY <2>3 DEF StopInv, PauseCoversOwed
    <2> QED BY <2>1, <2>2, <2>4 DEF StopInv, Grants
<1>8. CASE UNCHANGED clientVars
    BY <1>8 DEF clientVars, StopInv, RequestsInShape, PauseCoversOwed, InShape
<1> QED BY <1>1, <1>2, <1>3, <1>4, <1>5, <1>6, <1>7, <1>8 DEF ClientNext, CallerSteps

\* No request leaves while a Retry-After is owed, also when a later 429 asked for less,
\* and none after a ban (applyRetryAfter, markBanned and acquire of the rate limiter).
THEOREM NoGrantWhileStoppedHolds == ClientSpec => NoGrantWhileStopped
<1>1. ClientInit => StopInv
    BY StopInit
<1>2. StopInv /\ [ClientNext]_clientVars =>
          StopInv' /\ [\A c \in Callers : Grants(c) => owed = {} /\ ~banned]_clientVars
    BY StopStep
<1> QED BY <1>1, <1>2, PTL DEF ClientSpec, NoGrantWhileStopped

-----------------------------------------------------------------------------
\* Induction

\* A set of naturals that is not empty has a least element.
LEMMA LeastNatural ==
    ASSUME NEW T, T \subseteq Nat, T # {}
    PROVE  \E m \in T : \A k \in T : m <= k
<1> DEFINE Below == {0 .. n : n \in T}
           R == StrictSubsetOrdering(Nat)
           F == FiniteSubsetsOf(Nat)
<1>1. Below \subseteq F /\ Below # {}
    <2>1. \A n \in T : 0 .. n \subseteq Nat /\ IsFiniteSet(0 .. n)
        BY FS_Interval
    <2> QED BY <2>1 DEF FiniteSubsetsOf
<1>2. \E x \in Below : \A y \in Below : ~(<<y, x>> \in R)
    <2>1. IsWellFoundedOn(R, F)
        BY FS_StrictSubsetOrderingWellFounded
    <2> HIDE DEF Below, R, F
    <2> QED BY <1>1, <2>1, WFMin
<1>3. PICK m \in T : \A k \in T : ~(<<0 .. k, 0 .. m>> \in R)
    BY <1>2
<1>4. ASSUME NEW k \in T PROVE m <= k
    <2>1. SUFFICES ASSUME k < m PROVE FALSE
        BY <1>4
    <2>2. m \in 0 .. m /\ m \notin 0 .. k /\ 0 .. k \subseteq 0 .. m /\ 0 .. m \subseteq Nat
        BY <2>1
    <2>3. <<0 .. k, 0 .. m>> \in R
        BY <2>2 DEF StrictSubsetOrdering
    <2> QED BY <1>3, <2>3
<1> QED BY <1>4

\* Induction up to a bound: what holds of 0 and of the next number holds of all.
LEMMA InductionUpTo ==
    ASSUME NEW N \in Nat, NEW I, 0 \in I, \A n \in 0 .. N - 1 : n \in I => n + 1 \in I
    PROVE  0 .. N \subseteq I
<1> DEFINE T == (0 .. N) \ I
<1>1. SUFFICES ASSUME T # {} PROVE FALSE
    OBVIOUS
<1>2. PICK m \in T : \A k \in T : m <= k
    <2>1. T \subseteq Nat
        OBVIOUS
    <2> HIDE DEF T
    <2> QED BY <1>1, <2>1, LeastNatural
<1>3. m \in 0 .. N /\ m # 0 /\ m - 1 \in 0 .. N - 1 /\ (m - 1) + 1 = m
    OBVIOUS
<1>4. m - 1 \notin T
    BY <1>2, <1>3
<1> QED BY <1>3, <1>4

-----------------------------------------------------------------------------
\* The weight of a window

\* Youngest is what its recursion says.
LEMMA YoungestIs ==
    ASSUME NEW w \in [Ages -> Nat]
    PROVE  /\ Youngest(w) \in [0 .. Window -> Nat]
           /\ Youngest(w)[0] = 0
           /\ \A n \in 1 .. Window : Youngest(w)[n] = Youngest(w)[n - 1] + w[n - 1]
<1> DEFINE Sums(f, n) == /\ f \in [0 .. n -> Nat] /\ f[0] = 0
                         /\ \A i \in 1 .. n : f[i] = f[i - 1] + w[i - 1]
           I == {n \in Nat : \E f : Sums(f, n)}
<1>0. Window \in Nat /\ Window # 0
    BY LimiterAssumption
<1>1. 0 \in I
    <2>1. Sums([i \in 0 .. 0 |-> 0], 0)
        OBVIOUS
    <2> HIDE DEF Sums
    <2> QED BY <2>1
<1>2. ASSUME NEW n \in 0 .. Window - 1, n \in I PROVE n + 1 \in I
    <2>1. PICK f : Sums(f, n)
        BY <1>2
    <2> DEFINE g == [i \in 0 .. n + 1 |-> IF i = n + 1 THEN f[n] + w[n] ELSE f[i]]
    <2>2. w[n] \in Nat /\ f[n] \in Nat /\ n \in Nat
        BY <1>0, <2>1 DEF Ages
    <2>3. g \in [0 .. n + 1 -> Nat] /\ g[0] = 0
        BY <2>1, <2>2
    <2>4. ASSUME NEW i \in 1 .. n + 1 PROVE g[i] = g[i - 1] + w[i - 1]
        <3>1. CASE i = n + 1
            BY <2>2, <3>1
        <3>2. CASE i # n + 1
            <4>1. i \in 1 .. n /\ i - 1 \in 0 .. n /\ i \in 0 .. n
                BY <2>2, <3>2
            <4> QED BY <2>1, <2>2, <4>1
        <3> QED BY <3>1, <3>2
    <2>5. Sums(g, n + 1)
        BY <2>3, <2>4
    <2> HIDE DEF Sums, g
    <2> QED BY <2>2, <2>5
<1>3. PICK f : Sums(f, Window)
    <2> HIDE DEF Sums
    <2>1. 0 .. Window \subseteq I
        <3> HIDE DEF I
        <3> QED BY <1>0, <1>1, <1>2, InductionUpTo
    <2> QED BY <1>0, <2>1
<1> DEFINE Step(g) == [n \in 0 .. Window |-> IF n = 0 THEN 0 ELSE g[n - 1] + w[n - 1]]
           sum == Youngest(w)
<1>4. sum = CHOOSE g : g = Step(g)
    BY DEF Youngest
<1>5. f = Step(f)
    BY <1>0, <1>3
<1>6. sum = Step(sum)
    <2> HIDE DEF Step, sum
    <2> QED BY <1>4, <1>5
<1>7. \A n \in 0 .. Window : sum[n] = IF n = 0 THEN 0 ELSE sum[n - 1] + w[n - 1]
    <2> HIDE DEF sum
    <2> QED BY <1>6
<1>8. DOMAIN sum = 0 .. Window /\ sum = [n \in 0 .. Window |-> sum[n]]
    <2> HIDE DEF sum
    <2> QED BY <1>6
<1> HIDE DEF sum
<1>9. \A n \in 0 .. Window : sum[n] \in Nat
    <2> DEFINE J == {n \in 0 .. Window : sum[n] \in Nat}
    <2>1. 0 \in J
        BY <1>0, <1>7
    <2>2. ASSUME NEW n \in 0 .. Window - 1, n \in J PROVE n + 1 \in J
        <3>1. n + 1 \in 0 .. Window /\ n + 1 # 0 /\ (n + 1) - 1 = n /\ w[n] \in Nat
            BY <1>0 DEF Ages
        <3> QED BY <1>7, <2>2, <3>1
    <2>3. 0 .. Window \subseteq J
        <3> HIDE DEF J
        <3> QED BY <1>0, <2>1, <2>2, InductionUpTo
    <2> QED BY <2>3
<1>10. sum \in [0 .. Window -> Nat]
    BY <1>8, <1>9
<1>11. sum[0] = 0 /\ \A n \in 1 .. Window : sum[n] = sum[n - 1] + w[n - 1]
    BY <1>0, <1>7
<1> QED BY <1>10, <1>11 DEF sum

LEMMA TotalIsNat ==
    ASSUME NEW w \in [Ages -> Nat]
    PROVE  Total(w) \in Nat
BY YoungestIs, LimiterAssumption DEF Total

\* A window that is nowhere heavier weighs no more.
LEMMA TotalIsMonotone ==
    ASSUME NEW v \in [Ages -> Nat], NEW w \in [Ages -> Nat], \A a \in Ages : v[a] <= w[a]
    PROVE  Total(v) <= Total(w)
<1> DEFINE I == {n \in 0 .. Window : Youngest(v)[n] <= Youngest(w)[n]}
<1>0. Window \in Nat
    BY LimiterAssumption
<1>1. 0 \in I
    BY <1>0, YoungestIs
<1>2. ASSUME NEW n \in 0 .. Window - 1, n \in I PROVE n + 1 \in I
    <2>1. n + 1 \in 1 .. Window /\ n + 1 \in 0 .. Window /\ n \in 0 .. Window /\ n \in Ages
          /\ (n + 1) - 1 = n
        BY <1>0 DEF Ages
    <2>2. /\ Youngest(v)[n + 1] = Youngest(v)[n] + v[n] /\ Youngest(v)[n] \in Nat
          /\ Youngest(w)[n + 1] = Youngest(w)[n] + w[n] /\ Youngest(w)[n] \in Nat
        BY <2>1, YoungestIs
    <2>3. v[n] \in Nat /\ w[n] \in Nat /\ v[n] <= w[n]
        BY <2>1
    <2>4. Youngest(v)[n + 1] <= Youngest(w)[n + 1]
        BY <1>2, <2>2, <2>3
    <2> QED BY <2>1, <2>4
<1>3. 0 .. Window \subseteq I
    <2> HIDE DEF I
    <2> QED BY <1>0, <1>1, <1>2, InductionUpTo
<1> QED BY <1>0, <1>3 DEF Total

\* An entry adds its weight.
LEMMA TotalOfWith ==
    ASSUME NEW w \in [Ages -> Nat], NEW x \in Nat
    PROVE  With(w, x) \in [Ages -> Nat] /\ Total(With(w, x)) = Total(w) + x
<1> DEFINE v == With(w, x)
           I == {0} \union {n \in 1 .. Window : Youngest(v)[n] = Youngest(w)[n] + x}
<1>0. Window \in Nat /\ Window # 0 /\ 0 \in Ages
    BY LimiterAssumption DEF Ages
<1>1. /\ v \in [Ages -> Nat] /\ v[0] = w[0] + x
      /\ \A a \in Ages : a # 0 => v[a] = w[a]
    BY <1>0 DEF With
<1> HIDE DEF v
<1>2. ASSUME NEW n \in 0 .. Window - 1, n \in I PROVE n + 1 \in I
    <2>1. n + 1 \in 1 .. Window /\ n \in 0 .. Window /\ n \in Ages /\ (n + 1) - 1 = n
        BY <1>0 DEF Ages
    <2>2. /\ Youngest(v)[n + 1] = Youngest(v)[n] + v[n] /\ Youngest(v)[n] \in Nat
          /\ Youngest(w)[n + 1] = Youngest(w)[n] + w[n] /\ Youngest(w)[n] \in Nat
        BY <1>1, <2>1, YoungestIs
    <2>3. v[n] \in Nat /\ w[n] \in Nat
        BY <1>1, <2>1
    <2>4. CASE n = 0
        <3>1. Youngest(v)[n] = 0 /\ Youngest(w)[n] = 0
            BY <1>1, <2>4, YoungestIs
        <3>2. v[n] = w[n] + x
            BY <1>1, <2>4
        <3>3. Youngest(v)[n + 1] = Youngest(w)[n + 1] + x
            BY <2>2, <2>3, <3>1, <3>2
        <3> QED BY <2>1, <3>3
    <2>5. CASE n # 0
        <3>1. v[n] = w[n] /\ Youngest(v)[n] = Youngest(w)[n] + x
            BY <1>1, <1>2, <2>1, <2>5
        <3>2. Youngest(v)[n + 1] = Youngest(w)[n + 1] + x
            BY <2>2, <2>3, <3>1
        <3> QED BY <2>1, <3>2
    <2> QED BY <2>4, <2>5
<1>3. 0 .. Window \subseteq I
    <2>1. 0 \in I
        OBVIOUS
    <2> HIDE DEF I
    <2> QED BY <1>0, <1>2, <2>1, InductionUpTo
<1>4. Youngest(v)[Window] = Youngest(w)[Window] + x
    BY <1>0, <1>3
<1> QED BY <1>1, <1>4 DEF Total, v

\* A tick takes the oldest weight away and adds none.
LEMMA TotalOfAged ==
    ASSUME NEW w \in [Ages -> Nat]
    PROVE  Aged(w) \in [Ages -> Nat] /\ Total(Aged(w)) <= Total(w)
<1> DEFINE v == Aged(w)
           I == {0} \union {n \in 1 .. Window : Youngest(v)[n] = Youngest(w)[n - 1]}
<1>0. Window \in Nat /\ Window # 0 /\ 0 \in Ages
    BY LimiterAssumption DEF Ages
<1>1. /\ v \in [Ages -> Nat] /\ v[0] = 0
      /\ \A a \in Ages : a # 0 => v[a] = w[a - 1]
    BY <1>0 DEF Aged, Ages
<1> HIDE DEF v
<1>2. ASSUME NEW n \in 0 .. Window - 1, n \in I PROVE n + 1 \in I
    <2>1. n + 1 \in 1 .. Window /\ n \in 0 .. Window /\ n \in Ages /\ (n + 1) - 1 = n
        BY <1>0 DEF Ages
    <2>2. /\ Youngest(v)[n + 1] = Youngest(v)[n] + v[n] /\ Youngest(v)[n] \in Nat
          /\ Youngest(w)[n] \in Nat
        BY <1>1, <2>1, YoungestIs
    <2>3. CASE n = 0
        <3>1. Youngest(v)[n] = 0 /\ Youngest(w)[n] = 0 /\ v[n] = 0
            BY <1>1, <2>3, YoungestIs
        <3> QED BY <2>1, <2>2, <3>1
    <2>4. CASE n # 0
        <3>1. n \in 1 .. Window /\ n - 1 \in Ages
            BY <1>0, <2>1, <2>4 DEF Ages
        <3>2. Youngest(v)[n] = Youngest(w)[n - 1] /\ v[n] = w[n - 1]
            BY <1>1, <1>2, <2>1, <2>4
        <3>3. Youngest(w)[n] = Youngest(w)[n - 1] + w[n - 1]
            BY <3>1, YoungestIs
        <3> QED BY <2>1, <2>2, <3>2, <3>3
    <2> QED BY <2>3, <2>4
<1>3. 0 .. Window \subseteq I
    <2>1. 0 \in I
        OBVIOUS
    <2> HIDE DEF I
    <2> QED BY <1>0, <1>2, <2>1, InductionUpTo
<1>4. Youngest(v)[Window] = Youngest(w)[Window - 1]
    BY <1>0, <1>3
<1>5. /\ Youngest(w)[Window] = Youngest(w)[Window - 1] + w[Window - 1]
      /\ w[Window - 1] \in Nat /\ Youngest(w)[Window - 1] \in Nat
    <2>1. Window \in 1 .. Window /\ Window - 1 \in Ages /\ Window - 1 \in 0 .. Window
        BY <1>0 DEF Ages
    <2> QED BY <2>1, YoungestIs
<1> QED BY <1>1, <1>4, <1>5 DEF Total, v

\* Windows without an entry weigh nothing.
LEMMA TotalOfNothing ==
    ASSUME NEW w \in [Ages -> Nat], \A a \in Ages : w[a] = 0
    PROVE  Total(w) = 0
<1> DEFINE I == {n \in 0 .. Window : Youngest(w)[n] = 0}
<1>0. Window \in Nat
    BY LimiterAssumption
<1>1. 0 \in I
    BY <1>0, YoungestIs
<1>2. ASSUME NEW n \in 0 .. Window - 1, n \in I PROVE n + 1 \in I
    <2>1. n + 1 \in 1 .. Window /\ n + 1 \in 0 .. Window /\ (n + 1) - 1 = n /\ n \in Ages
        BY <1>0 DEF Ages
    <2>2. Youngest(w)[n + 1] = Youngest(w)[n] + w[n]
        BY <2>1, YoungestIs
    <2> QED BY <1>2, <2>1, <2>2
<1>3. 0 .. Window \subseteq I
    <2> HIDE DEF I
    <2> QED BY <1>0, <1>1, <1>2, InductionUpTo
<1> QED BY <1>0, <1>3 DEF Total

\* A window that weighs something has an oldest entry.
LEMMA OldestIsThere ==
    ASSUME used \in [Ages -> Nat], Total(used) > 0
    PROVE  UntilOldestLeaves \in 1 .. Window
<1>0. Window \in Nat /\ Window # 0
    BY LimiterAssumption
<1> DEFINE T == {t \in 1 .. Window : used[Window - t] > 0}
<1>1. T # {}
    <2>1. SUFFICES ASSUME T = {} PROVE FALSE
        OBVIOUS
    <2>2. ASSUME NEW n \in 0 .. Window - 1 PROVE used[n] = 0
        <3>1. Window - n \in 1 .. Window /\ Window - (Window - n) = n /\ n \in Ages
            BY <1>0 DEF Ages
        <3>2. ~(used[n] > 0) /\ used[n] \in Nat
            BY <2>1, <3>1
        <3> QED BY <3>2
    <2>3. Total(used) = 0
        <3>1. \A a \in Ages : used[a] = 0
            BY <2>2 DEF Ages
        <3> QED BY <3>1, TotalOfNothing
    <2> QED BY <2>3
<1>2. PICK t \in T : \A k \in T : t <= k
    <2>1. T \subseteq Nat
        BY <1>0
    <2> HIDE DEF T
    <2> QED BY <1>1, <2>1, LeastNatural
<1>3. t \in 1 .. Window /\ used[Window - t] > 0
    BY <1>2
<1>4. ASSUME NEW a \in Ages, a > Window - t PROVE used[a] = 0
    <2>1. Window - a \in 1 .. Window /\ Window - (Window - a) = a /\ Window - a < t
        BY <1>0, <1>3, <1>4 DEF Ages
    <2>2. Window - a \notin T
        BY <1>2, <2>1
    <2>3. ~(used[a] > 0) /\ used[a] \in Nat
        BY <2>1, <2>2
    <2> QED BY <2>3
<1> QED BY <1>3, <1>4 DEF UntilOldestLeaves

-----------------------------------------------------------------------------
\* The budget

RequestRec == [pc : {"idle", "acquire", "fetch", "body"},
               weight : Weights \union {0}, attempt : 0 .. RequestAttempts,
               wake : Nat, made : 0 .. MaxRequests,
               answer : AnswerKinds \union {"none"}, result : Results]

\* The limiter has recorded at least what it granted; the reports of the server add
\* to that.
Recorded == \A a \in Ages : granted[a] <= used[a]

BudgetInv == ClientTypeOK /\ WindowBudget /\ Recorded

\* What a request becomes when it is tried again or ends.
LEMMA OnwardTyped ==
    ASSUME NEW c \in Callers, req[c] \in RequestRec, NEW pause \in Nat, NEW why \in Results
    PROVE  Ended(c, why) \in RequestRec /\ TriedAgain(c, pause, why) \in RequestRec
<1>1. Ended(c, why) \in RequestRec
    BY DEF Ended, RequestRec
<1>2. CASE req[c].attempt < RequestAttempts
    <2>1. req[c].attempt + 1 \in 0 .. RequestAttempts
        BY <1>2, ClientAssumption DEF RequestRec
    <2>2. [req[c] EXCEPT !.pc = "acquire", !.attempt = @ + 1, !.wake = pause] \in RequestRec
        BY <2>1 DEF RequestRec
    <2> QED BY <1>1, <1>2, <2>2 DEF TriedAgain
<1>3. CASE ~(req[c].attempt < RequestAttempts)
    BY <1>1, <1>3 DEF TriedAgain
<1> QED BY <1>1, <1>2, <1>3

LEMMA BudgetInit == ClientInit => BudgetInv
<1> SUFFICES ASSUME ClientInit PROVE BudgetInv
    OBVIOUS
<1>0. Window \in Nat /\ Window # 0 /\ Budget \in Nat
    BY LimiterAssumption
<1> DEFINE zero == [a \in Ages |-> 0]
<1>1. NoRequest \in RequestRec
    BY ClientAssumption DEF NoRequest, RequestRec, Results
<1>2. ClientTypeOK
    BY <1>1 DEF ClientInit, LimiterInit, ClientTypeOK, RequestRec
<1>3. Recorded
    BY DEF ClientInit, LimiterInit, Recorded
<1>4. Total(zero) = 0
    BY TotalOfNothing
<1>5. WindowBudget
    BY <1>0, <1>4 DEF ClientInit, WindowBudget
<1> QED BY <1>2, <1>3, <1>5 DEF BudgetInv

\* The step of one caller that touches neither window.
LEMMA CallerMoves ==
    ASSUME BudgetInv, NEW c \in Callers, NEW r \in RequestRec, req' = [req EXCEPT ![c] = r],
           UNCHANGED <<used, granted>>, pauseLeft' \in Nat, banned' \in BOOLEAN,
           owed' \subseteq Nat \ {0}
    PROVE  BudgetInv'
<1>1. req' \in [Callers -> RequestRec]
    BY DEF BudgetInv, ClientTypeOK, RequestRec
<1>2. ClientTypeOK'
    BY <1>1 DEF BudgetInv, ClientTypeOK, RequestRec
<1> QED BY <1>2 DEF BudgetInv, WindowBudget, Recorded

\* A grant is recorded with its weight, and given only where that fits the budget.
LEMMA AcquireKeepsBudget ==
    ASSUME BudgetInv, NEW c \in Callers, Acquire(c)
    PROVE  BudgetInv'
<1> DEFINE w == req[c].weight
           verdict == Verdict(w)
<1>0. /\ used \in [Ages -> Nat] /\ granted \in [Ages -> Nat] /\ pauseLeft \in Nat
      /\ req \in [Callers -> RequestRec] /\ owed \subseteq Nat \ {0}
      /\ Window \in Nat /\ Window # 0 /\ Budget \in Nat /\ Budget # 0
    BY LimiterAssumption DEF BudgetInv, ClientTypeOK, RequestRec
<1>00. banned \in BOOLEAN
    BY DEF BudgetInv, ClientTypeOK
<1>1. req[c] \in RequestRec /\ w \in Nat /\ w <= Budget
    <2>1. req[c] \in RequestRec
        BY <1>0
    <2>2. w \in Weights \union {0}
        BY <2>1 DEF RequestRec
    <2>3. Weights \subseteq 1 .. Budget
        BY ClientAssumption
    <2> HIDE DEF w
    <2> QED BY <1>0, <2>1, <2>2, <2>3
<1>2. UNCHANGED <<pauseLeft, banned, owed>>
    BY DEF Acquire, Grant
<1>3. CASE verdict = "banned"
    <2>1. req' = [req EXCEPT ![c] = Ended(c, "banned")] /\ UNCHANGED <<used, granted>>
        BY <1>3 DEF Acquire
    <2>2. Ended(c, "banned") \in RequestRec
        BY <1>1, OnwardTyped DEF Results
    <2> QED BY <1>0, <1>00, <1>2, <2>1, <2>2, CallerMoves
<1>4. CASE verdict = "granted"
    <2> DEFINE r == [req[c] EXCEPT !.pc = "fetch"]
    <2>1. used' = With(used, w) /\ granted' = With(granted, w) /\ req' = [req EXCEPT ![c] = r]
        BY <1>4 DEF Acquire, Grant
    <2>2. r \in RequestRec
        BY <1>1 DEF RequestRec
    <2>3. req' \in [Callers -> RequestRec]
        <3> HIDE DEF r
        <3> QED BY <1>0, <2>1, <2>2
    <2>4. Total(used) + w <= Budget
        BY <1>4 DEF Verdict, usedWeight
    <2>5. /\ used' \in [Ages -> Nat] /\ granted' \in [Ages -> Nat]
          /\ Total(granted') = Total(granted) + w
        BY <1>0, <1>1, <2>1, TotalOfWith
    <2>6. Total(granted) <= Total(used) /\ Total(granted) \in Nat /\ Total(used) \in Nat
        BY <1>0, TotalIsMonotone, TotalIsNat DEF BudgetInv, Recorded
    <2>7. WindowBudget'
        BY <1>0, <1>1, <2>4, <2>5, <2>6 DEF WindowBudget
    <2>8. Recorded'
        BY <1>0, <1>1, <2>1 DEF BudgetInv, Recorded, With, Ages
    <2>9. ClientTypeOK'
        BY <1>0, <1>00, <1>2, <2>3, <2>5 DEF ClientTypeOK, RequestRec
    <2> QED BY <2>7, <2>8, <2>9 DEF BudgetInv
<1>5. CASE verdict \notin {"banned", "granted"}
    <2> DEFINE r == [req[c] EXCEPT !.wake = WaitFor(verdict)]
    <2>1. verdict \in {"paused", "full"} /\ req' = [req EXCEPT ![c] = r]
          /\ UNCHANGED <<used, granted>>
        BY <1>5 DEF Acquire
    <2>2. ASSUME verdict = "paused" PROVE WaitFor(verdict) \in Nat
        BY <1>0, <2>2 DEF WaitFor
    <2>3. ASSUME verdict = "full" PROVE WaitFor(verdict) \in Nat
        <3>1. Total(used) + w > Budget /\ Total(used) \in Nat
            <4>1. Total(used) \in Nat
                BY <1>0, TotalIsNat
            <4>2. ~(Total(used) + w <= Budget)
                BY <1>0, <2>3 DEF Verdict, usedWeight
            <4> QED BY <1>0, <1>1, <4>1, <4>2
        <3>2. UntilOldestLeaves \in Nat
            BY <1>0, <1>1, <3>1, OldestIsThere
        <3> QED BY <2>3, <3>2 DEF WaitFor
    <2>4. r \in RequestRec
        BY <1>1, <2>1, <2>2, <2>3 DEF RequestRec
    <2> HIDE DEF r
    <2> QED BY <1>0, <1>00, <1>2, <2>1, <2>4, CallerMoves
<1> QED BY <1>3, <1>4, <1>5

LEMMA BudgetStep == BudgetInv /\ [ClientNext]_clientVars => BudgetInv'
<1> SUFFICES ASSUME BudgetInv, [ClientNext]_clientVars PROVE BudgetInv'
    OBVIOUS
<1>0. /\ used \in [Ages -> Nat] /\ granted \in [Ages -> Nat] /\ pauseLeft \in Nat
      /\ req \in [Callers -> RequestRec] /\ owed \subseteq Nat \ {0}
      /\ \A a \in Ages : granted[a] <= used[a]
    BY DEF BudgetInv, ClientTypeOK, RequestRec, Recorded
<1>00. banned \in BOOLEAN
    BY DEF BudgetInv, ClientTypeOK
<1>1. ASSUME NEW c \in Callers, NEW w \in Weights, Request(c, w) PROVE BudgetInv'
    <2> DEFINE r == [NoRequest EXCEPT !.pc = "acquire", !.weight = w, !.attempt = 1,
                                      !.made = req[c].made + 1]
    <2>1. req' = [req EXCEPT ![c] = r] /\ UNCHANGED <<used, pauseLeft, banned, granted, owed>>
        BY <1>1 DEF Request
    <2>2. req[c].made + 1 \in 0 .. MaxRequests /\ 1 \in 0 .. RequestAttempts
        BY <1>0, <1>1, ClientAssumption DEF Request, RequestRec
    <2>3. r \in RequestRec
        BY <2>2 DEF NoRequest, RequestRec, Results
    <2> HIDE DEF r
    <2> QED BY <1>0, <1>00, <2>1, <2>3, CallerMoves
<1>2. ASSUME NEW c \in Callers, Acquire(c) PROVE BudgetInv'
    BY <1>2, AcquireKeepsBudget
<1>3. ASSUME NEW c \in Callers, FetchThrows(c) \/ BodyOf5xx(c) PROVE BudgetInv'
    <2>1. PICK pause \in Backoffs, why \in {"net", "5xx"} :
              req' = [req EXCEPT ![c] = TriedAgain(c, pause, why)]
        BY <1>3 DEF FetchThrows, BodyOf5xx
    <2>2. UNCHANGED <<used, pauseLeft, banned, granted, owed>>
        BY <1>3 DEF FetchThrows, BodyOf5xx
    <2>3. TriedAgain(c, pause, why) \in RequestRec
        BY <1>0, ClientAssumption, OnwardTyped DEF Results
    <2> QED BY <1>0, <1>00, <2>1, <2>2, <2>3, CallerMoves
<1>4. ASSUME NEW c \in Callers, NEW answer \in Answers, NEW report \in Reports,
             HeadersArrive(c, answer, report)
      PROVE  BudgetInv'
    <2> DEFINE r == [req[c] EXCEPT !.pc = "body", !.answer = answer]
    <2>1. r \in RequestRec
        BY <1>0, ClientAssumption DEF RequestRec
    <2>2. req' = [req EXCEPT ![c] = r]
        BY <1>0, <1>4 DEF HeadersArrive
    <2>3. req' \in [Callers -> RequestRec]
        <3> HIDE DEF r
        <3> QED BY <1>0, <2>1, <2>2
    <2>4. report \in Nat /\ Total(used) \in Nat
        BY <1>0, ClientAssumption, TotalIsNat
    <2>5. used' \in [Ages -> Nat] /\ \A a \in Ages : used[a] <= used'[a]
        <3>1. used' = syncServerUsedWeight(report)
            BY <1>4 DEF HeadersArrive
        <3>2. CASE report > usedWeight
            <4>1. report - Total(used) \in Nat
                BY <2>4, <3>2 DEF usedWeight
            <4>2. used' = With(used, report - Total(used))
                BY <3>1, <3>2 DEF syncServerUsedWeight, usedWeight
            <4> DEFINE x == report - Total(used)
            <4>3. 0 \in Ages
                BY LimiterAssumption DEF Ages
            <4>4. used' = [used EXCEPT ![0] = used[0] + x] /\ x \in Nat
                BY <4>1, <4>2 DEF With
            <4> HIDE DEF x
            <4> QED BY <1>0, <4>3, <4>4
        <3>3. CASE ~(report > usedWeight)
            BY <1>0, <3>1, <3>3 DEF syncServerUsedWeight
        <3> QED BY <3>2, <3>3
    <2>6. UNCHANGED <<pauseLeft, banned, granted, owed>>
        BY <1>4 DEF HeadersArrive
    <2>7. ClientTypeOK'
        BY <1>0, <1>00, <2>3, <2>5, <2>6 DEF ClientTypeOK, RequestRec
    <2>8. Recorded'
        BY <1>0, <2>5, <2>6 DEF Recorded
    <2> QED BY <2>6, <2>7, <2>8 DEF BudgetInv, WindowBudget
<1>5. ASSUME NEW c \in Callers, BodyOfOk(c) \/ BodyOf418(c) \/ BodyOf4xx(c) PROVE BudgetInv'
    <2>1. PICK why \in Results : req' = [req EXCEPT ![c] = Ended(c, why)]
        BY <1>5 DEF BodyOfOk, BodyOf418, BodyOf4xx, Results
    <2>2. UNCHANGED <<used, pauseLeft, granted, owed>> /\ banned' \in {banned, TRUE}
        BY <1>5 DEF BodyOfOk, BodyOf418, BodyOf4xx, markBanned
    <2>3. Ended(c, why) \in RequestRec
        BY <1>0, OnwardTyped
    <2>4. banned' \in BOOLEAN
        BY <1>00, <2>2
    <2> QED BY <1>0, <2>1, <2>2, <2>3, <2>4, CallerMoves
<1>6. ASSUME NEW c \in Callers, NEW ticks \in RetryAfters, BodyOf429(c, ticks) PROVE BudgetInv'
    <2>1. /\ req' = [req EXCEPT ![c] = TriedAgain(c, 0, "429")]
          /\ pauseLeft' = applyRetryAfter(ticks) /\ owed' = owed \union {ticks}
          /\ UNCHANGED <<used, banned, granted>>
        BY <1>6 DEF BodyOf429
    <2>2. ticks \in Nat \ {0}
        BY ClientAssumption
    <2>3. TriedAgain(c, 0, "429") \in RequestRec
        BY <1>0, OnwardTyped DEF Results
    <2>4. pauseLeft' \in Nat /\ owed' \subseteq Nat \ {0}
        BY <1>0, <2>1, <2>2 DEF applyRetryAfter
    <2> QED BY <1>00, <2>1, <2>3, <2>4, CallerMoves
<1>7. CASE Tick
    <2>1. /\ used' = Aged(used) /\ granted' = Aged(granted) /\ UNCHANGED banned
          /\ pauseLeft' = (IF pauseLeft > 0 THEN pauseLeft - 1 ELSE 0)
          /\ owed' = {t - 1 : t \in owed \ {1}}
          /\ req' = [c \in Callers |-> [req[c] EXCEPT !.wake = IF @ > 0 THEN @ - 1 ELSE 0]]
        BY <1>7 DEF Tick, LimiterTick
    <2>2. \A c \in Callers : req'[c] \in RequestRec
        <3> SUFFICES ASSUME NEW c \in Callers PROVE req'[c] \in RequestRec
            OBVIOUS
        <3>1. req[c] \in RequestRec /\ req[c].wake \in Nat
            BY <1>0 DEF RequestRec
        <3>2. (IF req[c].wake > 0 THEN req[c].wake - 1 ELSE 0) \in Nat
            BY <3>1
        <3>3. req'[c] = [req[c] EXCEPT !.wake = IF @ > 0 THEN @ - 1 ELSE 0]
            BY <2>1
        <3> QED BY <3>1, <3>2, <3>3 DEF RequestRec
    <2>3. req' \in [Callers -> RequestRec]
        BY <2>1, <2>2
    <2>4. /\ used' \in [Ages -> Nat] /\ granted' \in [Ages -> Nat]
          /\ Total(granted') <= Total(granted)
        BY <1>0, <2>1, TotalOfAged
    <2>5. pauseLeft' \in Nat /\ owed' \subseteq Nat \ {0}
        <3>1. pauseLeft' \in Nat
            BY <1>0, <2>1
        <3>2. \A t \in owed \ {1} : t - 1 \in Nat \ {0}
            BY <1>0
        <3> QED BY <2>1, <3>1, <3>2
    <2>6. ClientTypeOK'
        BY <1>00, <2>1, <2>3, <2>4, <2>5 DEF ClientTypeOK, RequestRec
    <2>7. Recorded'
        <3> SUFFICES ASSUME NEW a \in Ages PROVE granted'[a] <= used'[a]
            BY DEF Recorded
        <3>1. /\ used'[a] = (IF a = 0 THEN 0 ELSE used[a - 1])
              /\ granted'[a] = (IF a = 0 THEN 0 ELSE granted[a - 1])
            BY <2>1 DEF Aged
        <3>2. a # 0 => a - 1 \in Ages
            BY LimiterAssumption DEF Ages
        <3> QED BY <1>0, <3>1, <3>2
    <2>8. WindowBudget'
        BY <1>0, <2>4, TotalIsNat, LimiterAssumption DEF BudgetInv, WindowBudget
    <2> QED BY <2>6, <2>7, <2>8 DEF BudgetInv
<1>8. CASE UNCHANGED clientVars
    BY <1>8 DEF clientVars, BudgetInv, ClientTypeOK, WindowBudget, Recorded
<1> QED BY <1>1, <1>2, <1>3, <1>4, <1>5, <1>6, <1>7, <1>8 DEF ClientNext, CallerSteps

\* The weight granted within any window never exceeds the budget, whatever the callers,
\* the retries and the reports of the server (acquire, syncServerUsedWeight and prune
\* of the rate limiter), and the state stays within its types.
THEOREM BudgetIsKeptHolds == ClientSpec => []BudgetIsKept
<1>1. BudgetInv => BudgetIsKept
    BY DEF BudgetInv, BudgetIsKept
<1> QED BY <1>1, BudgetInit, BudgetStep, PTL DEF ClientSpec
==============================================================================
