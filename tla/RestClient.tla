----------------------------- MODULE RestClient ------------------------------
(***************************************************************************)
(* BinanceRestClient.requestJson: concurrent callers that acquire weight   *)
(* from one limiter, fetch, and retry what can be retried.                 *)
(* (src/backend/src/binance/binance-rest.client.ts, backoff.ts)            *)
(*                                                                         *)
(* A step is what runs between two awaits.  Binance is external: every     *)
(* request gets any answer of Answers, at any time, with any usage report  *)
(* of Reports.  A caller makes at most MaxRequests requests (a bound).     *)
(* Timers may fire late but not early, and the clock does not go back.     *)
(***************************************************************************)
EXTENDS RateLimiter, FiniteSets

CONSTANTS
    Callers,         \* concurrent users of the client
    MaxRequests,     \* bound: requests per caller
    RequestAttempts, \* maxAttempts
    Weights,         \* request weights in use
    Answers,         \* what the exchange may answer
    Reports,         \* values of X-MBX-USED-WEIGHT-1M
    RetryAfters,     \* Retry-After of a 429, in ticks
    Backoffs         \* what computeBackoffMs may return, in ticks

\* "net": fetch itself rejects; the others carry headers and a body.
AnswerKinds == {"net", "ok", "429", "418", "5xx", "4xx"}

ASSUME ClientAssumption ==
    /\ Callers # {}
    /\ MaxRequests \in Nat
    /\ RequestAttempts \in Nat \ {0}
    /\ Weights \subseteq 1 .. Budget
    /\ Answers \subseteq AnswerKinds
    /\ Reports \subseteq Nat /\ Reports # {}
    /\ RetryAfters \subseteq Nat \ {0}
    /\ Backoffs \subseteq Nat /\ Backoffs # {}

VARIABLES
    req,             \* each caller's request and where it stands
    granted,         \* history: weight granted in the window, by age
    owed             \* history: Retry-After times not yet over

clientVars == <<used, pauseLeft, banned, req, granted, owed>>

\* result: how the last request ended; attempt: its last attempt.
NoRequest == [pc |-> "idle", weight |-> 0, attempt |-> 0, wake |-> 0, made |-> 0,
              answer |-> "none", result |-> "none"]

ClientInit ==
    /\ LimiterInit
    /\ req = [c \in Callers |-> NoRequest]
    /\ granted = [a \in Ages |-> 0]
    /\ owed = {}

\* requestJson is called.
Request(c, weight) ==
    /\ req[c].pc = "idle"
    /\ req[c].made < MaxRequests
    /\ req' = [req EXCEPT ![c] = [NoRequest EXCEPT !.pc = "acquire", !.weight = weight,
                                      !.attempt = 1, !.made = req[c].made + 1]]
    /\ UNCHANGED <<used, pauseLeft, banned, granted, owed>>

\* The request is over, with a value or an error.
Ended(c, result) == [req[c] EXCEPT !.pc = "idle", !.result = result]

\* Mutant: an attempt answered with a retryable error does not count.
TriedAgainUncounted(c, pause, why) ==
    [req[c] EXCEPT !.pc = "acquire", !.wake = pause]

\* A retryable error: the next attempt after a pause, or the end.
TriedAgain(c, pause, why) ==
    IF req[c].attempt < RequestAttempts
    THEN [req[c] EXCEPT !.pc = "acquire", !.attempt = @ + 1, !.wake = pause]
    ELSE Ended(c, why)

\* One turn of acquire, at its first call or after a sleep.
Acquire(c) ==
    LET verdict == Verdict(req[c].weight) IN
    /\ req[c].pc = "acquire"
    /\ req[c].wake = 0
    /\ \/ /\ verdict = "banned"
          /\ req' = [req EXCEPT ![c] = Ended(c, "banned")]
          /\ UNCHANGED <<used, pauseLeft, banned, granted>>
       \/ /\ verdict = "granted"
          /\ Grant(req[c].weight)
          /\ granted' = With(granted, req[c].weight)
          /\ req' = [req EXCEPT ![c].pc = "fetch"]
       \/ /\ verdict \in {"paused", "full"}
          /\ req' = [req EXCEPT ![c].wake = WaitFor(verdict)]
          /\ UNCHANGED <<used, pauseLeft, banned, granted>>
    /\ UNCHANGED owed

\* fetch rejects: a network error or a timeout before the headers.
FetchThrows(c) ==
    /\ "net" \in Answers
    /\ req[c].pc = "fetch"
    /\ \E pause \in Backoffs : req' = [req EXCEPT ![c] = TriedAgain(c, pause, "net")]
    /\ UNCHANGED <<used, pauseLeft, banned, granted, owed>>

\* The headers arrive: the usage report is applied, the body is awaited.
HeadersArrive(c, answer, report) ==
    /\ answer \in Answers \ {"net"}
    /\ req[c].pc = "fetch"
    /\ used' = syncServerUsedWeight(report)
    /\ req' = [req EXCEPT ![c].pc = "body", ![c].answer = answer]
    /\ UNCHANGED <<pauseLeft, banned, granted, owed>>

\* res.json(): the value, or an error that is not wrapped.
BodyOfOk(c) ==
    /\ req[c].pc = "body" /\ req[c].answer = "ok"
    /\ \/ req' = [req EXCEPT ![c] = Ended(c, "ok")]
       \/ "net" \in Answers /\ req' = [req EXCEPT ![c] = Ended(c, "bodyTimeout")]
    /\ UNCHANGED <<used, pauseLeft, banned, granted, owed>>

\* raiseHttpError, once res.text() settled.
BodyOf429(c, ticks) ==
    /\ req[c].pc = "body" /\ req[c].answer = "429"
    /\ pauseLeft' = applyRetryAfter(ticks)
    /\ owed' = owed \union {ticks}
    /\ req' = [req EXCEPT ![c] = TriedAgain(c, 0, "429")]
    /\ UNCHANGED <<used, banned, granted>>

BodyOf418(c) ==
    /\ req[c].pc = "body" /\ req[c].answer = "418"
    /\ markBanned
    /\ req' = [req EXCEPT ![c] = Ended(c, "banned")]
    /\ UNCHANGED <<used, pauseLeft, granted, owed>>

BodyOf5xx(c) ==
    /\ req[c].pc = "body" /\ req[c].answer = "5xx"
    /\ \E pause \in Backoffs : req' = [req EXCEPT ![c] = TriedAgain(c, pause, "5xx")]
    /\ UNCHANGED <<used, pauseLeft, banned, granted, owed>>

BodyOf4xx(c) ==
    /\ req[c].pc = "body" /\ req[c].answer = "4xx"
    /\ req' = [req EXCEPT ![c] = Ended(c, "4xx")]
    /\ UNCHANGED <<used, pauseLeft, banned, granted, owed>>

\* A tick of the clock: everything ages, sleepers come closer to waking.
Tick ==
    /\ LimiterTick
    /\ req' = [c \in Callers |-> [req[c] EXCEPT !.wake = IF @ > 0 THEN @ - 1 ELSE 0]]
    /\ granted' = Aged(granted)
    /\ owed' = {t - 1 : t \in owed \ {1}}

CallerSteps(c) ==
    \/ Acquire(c)
    \/ FetchThrows(c)
    \/ \E answer \in Answers, report \in Reports : HeadersArrive(c, answer, report)
    \/ BodyOfOk(c)
    \/ \E ticks \in RetryAfters : BodyOf429(c, ticks)
    \/ BodyOf418(c) \/ BodyOf5xx(c) \/ BodyOf4xx(c)

ClientNext ==
    \/ \E c \in Callers : (\E w \in Weights : Request(c, w)) \/ CallerSteps(c)
    \/ Tick

\* Time passes, timers fire and every fetch is answered: AbortSignal.timeout
\* ends the one the exchange leaves open.
ClientFairness ==
    /\ WF_clientVars(Tick)
    /\ \A c \in Callers : WF_clientVars(CallerSteps(c))

ClientSpec == ClientInit /\ [][ClientNext]_clientVars /\ ClientFairness

-----------------------------------------------------------------------------
Results == {"none", "ok", "banned", "net", "bodyTimeout", "429", "5xx", "4xx"}

ClientTypeOK ==
    /\ used \in [Ages -> Nat]
    /\ pauseLeft \in Nat
    /\ banned \in BOOLEAN
    /\ req \in [Callers -> [pc : {"idle", "acquire", "fetch", "body"},
                            weight : Weights \union {0}, attempt : 0 .. RequestAttempts,
                            wake : Nat, made : 0 .. MaxRequests,
                            answer : AnswerKinds \union {"none"}, result : Results]]
    /\ granted \in [Ages -> Nat]
    /\ owed \subseteq Nat \ {0}

\* The weight granted within any window is within the budget: callers that
\* wake together, retries and server reports never let a burst through.
WindowBudget == Total(granted) <= Budget

Grants(c) == req[c].pc = "acquire" /\ req'[c].pc = "fetch"

\* No request leaves before every Retry-After it follows is over, also when a
\* later 429 asked for less, and none leaves after a ban.
NoGrantWhileStopped ==
    [][\A c \in Callers : Grants(c) => owed = {} /\ ~banned]_clientVars

\* A timeout is retried up to the limit of attempts (the header comment of
\* binance-rest.client.ts, line 8).  No run checks it: BodyOfOk refutes it.
TimeoutsAreRetried ==
    \A c \in Callers : req[c].result = "bodyTimeout" => req[c].attempt = RequestAttempts

\* Every request ends, with a value or an error.
RequestsSettle ==
    \A c \in Callers : req[c].pc # "idle" ~> req[c].pc = "idle"

\* The budget of every window is kept, and the ages, pauses and attempts stay
\* within what the client can account for.
BudgetIsKept == ClientTypeOK /\ WindowBudget
==============================================================================
