--------------------------- MODULE CircuitBreaker ---------------------------
(***************************************************************************)
(* internal/health/monitor.go: the circuit breaker, one step per operation *)
(* on its atomics, as the market workers of internal/multimarket share it. *)
(* A worker asks Allow before it trades and reports every tick: an error   *)
(* with RecordError, anything else, a skipped tick included, with          *)
(* RecordTick.  Times are kept as ages: how long ago they are, up to the   *)
(* reset timeout, beyond which no code tells them apart.                   *)
(***************************************************************************)
EXTENDS Naturals, FiniteSets

CONSTANTS Workers,       \* goroutines that share the breaker
          Cold,          \* those that have fewer than 60 candles
          Threshold,     \* failures that trip it
          Probes,        \* successes that close it from half-open (3)
          ResetTimeout   \* how long it stays open, in ticks of Time

ASSUME BreakerConstantsOK ==
    /\ IsFiniteSet(Workers) /\ Cold \subseteq Workers
    /\ Threshold \in Nat \ {0} /\ Probes \in Nat \ {0} /\ ResetTimeout \in Nat \ {0}

VARIABLES
    active,        \* the workers whose Start got past connecting
    state,         \* "closed", "open", "half"
    failureCount,  \* up to Threshold: more makes no difference to the code
    successCount,  \* up to Probes, likewise
    age,           \* age of lastFailure
    op,            \* op[w]: the next atomic operation of worker w
    loaded,        \* loaded[w]: age of the time stamp worker w holds
    probed         \* successful requests since the circuit went half-open

breakerVars == <<active, state, failureCount, successCount, age, op, loaded, probed>>

Ages == 0..ResetTimeout
Operations == {"idle", "loadFailure", "compare", "swapHalf", "zeroSuccess", "working",
       "zeroFailures", "loadState", "addSuccess", "storeClosed",
       "storeFailure", "addFailure", "swapOpen"}

\* Every variable has its type: the state is one of the three constants.
BreakerTypeOK ==
    /\ active \subseteq Workers
    /\ state \in {"closed", "open", "half"}
    /\ failureCount \in 0..Threshold /\ successCount \in 0..Probes
    /\ age \in Ages /\ loaded \in [Workers -> Ages]
    /\ op \in [Workers -> Operations] /\ probed \in 0..Probes

BreakerInit ==
    /\ active \in SUBSET Workers \ {{}}
    /\ state = "closed" /\ failureCount = 0 /\ successCount = 0
    /\ age = ResetTimeout /\ loaded = [w \in Workers |-> ResetTimeout]
    /\ op = [w \in Workers |-> "idle"] /\ probed = 0

Moves(w, from, to) == op[w] = from /\ op' = [op EXCEPT ![w] = to]
UpTo(bound, n) == IF n > bound THEN bound ELSE n

\* A minute passes for every time stamp.
Time ==
    /\ age' = UpTo(ResetTimeout, age + 1)
    /\ loaded' = [w \in Workers |-> UpTo(ResetTimeout, loaded[w] + 1)]
    /\ <<age, loaded>>' # <<age, loaded>>
    /\ UNCHANGED <<state, failureCount, successCount, op, probed>>

-----------------------------------------------------------------------------
(* Allow *)

LoadState(w) ==
    /\ w \notin Cold
    /\ Moves(w, "idle", IF state = "open" THEN "loadFailure" ELSE "working")
    /\ UNCHANGED <<state, failureCount, successCount, age, loaded, probed>>

LoadLastFailure(w) ==
    /\ Moves(w, "loadFailure", "compare")
    /\ loaded' = [loaded EXCEPT ![w] = age]
    /\ UNCHANGED <<state, failureCount, successCount, age, probed>>

Elapsed(w) == loaded[w] >= ResetTimeout

\* false: the tick is skipped, returns nil and is reported as a success.
Compare(w) ==
    /\ Moves(w, "compare", IF Elapsed(w) THEN "swapHalf" ELSE "zeroFailures")
    /\ UNCHANGED <<state, failureCount, successCount, age, loaded, probed>>

\* A mutant with the arguments of CompareAndSwap the wrong way round.
SwapHalfReversed(w) ==
    /\ Moves(w, "swapHalf", "zeroSuccess")
    /\ state' = IF state = "half" THEN "open" ELSE state
    /\ probed' = IF state = "open" THEN 0 ELSE probed
    /\ UNCHANGED <<failureCount, successCount, age, loaded>>

SwapHalf(w) ==
    /\ Moves(w, "swapHalf", "zeroSuccess")
    /\ state' = IF state = "open" THEN "half" ELSE state
    /\ probed' = IF state = "open" THEN 0 ELSE probed
    /\ UNCHANGED <<failureCount, successCount, age, loaded>>

\* A mutant that goes half-open with the successes of the last time.
KeepSuccess(w) ==
    /\ Moves(w, "zeroSuccess", "working")
    /\ UNCHANGED <<state, failureCount, successCount, age, loaded, probed>>

ZeroSuccess(w) ==
    /\ Moves(w, "zeroSuccess", "working") /\ successCount' = 0
    /\ UNCHANGED <<state, failureCount, age, loaded, probed>>

-----------------------------------------------------------------------------
(* The tick: what was allowed succeeds or fails; a cold worker only reports *)

Succeed(w) ==
    /\ Moves(w, "working", "zeroFailures")
    /\ probed' = IF state = "half" THEN UpTo(Probes, probed + 1) ELSE probed
    /\ UNCHANGED <<state, failureCount, successCount, age, loaded>>

\* RecordFailure takes the time before it stores it.
Fail(w) ==
    /\ Moves(w, "working", "storeFailure")
    /\ loaded' = [loaded EXCEPT ![w] = 0]
    /\ UNCHANGED <<state, failureCount, successCount, age, probed>>

ColdTick(w) ==
    /\ w \in Cold /\ Moves(w, "idle", "zeroFailures")
    /\ UNCHANGED <<state, failureCount, successCount, age, loaded, probed>>

-----------------------------------------------------------------------------
(* RecordSuccess *)

ZeroFailures(w) ==
    /\ Moves(w, "zeroFailures", "loadState") /\ failureCount' = 0
    /\ UNCHANGED <<state, successCount, age, loaded, probed>>

LoadStateAfterSuccess(w) ==
    /\ Moves(w, "loadState", IF state = "half" THEN "addSuccess" ELSE "idle")
    /\ UNCHANGED <<state, failureCount, successCount, age, loaded, probed>>

AddSuccess(w) ==
    LET n == UpTo(Probes, successCount + 1)
    IN  /\ Moves(w, "addSuccess", IF n >= Probes THEN "storeClosed" ELSE "idle")
        /\ successCount' = n
        /\ UNCHANGED <<state, failureCount, age, loaded, probed>>

StoreClosed(w) ==
    /\ Moves(w, "storeClosed", "idle") /\ state' = "closed"
    /\ UNCHANGED <<failureCount, successCount, age, loaded, probed>>

-----------------------------------------------------------------------------
(* RecordFailure *)

StoreFailure(w) ==
    /\ Moves(w, "storeFailure", "addFailure") /\ age' = loaded[w]
    /\ UNCHANGED <<state, failureCount, successCount, loaded, probed>>

TripsLate(n) == n > Threshold
Trips(n) == n >= Threshold

\* A mutant that also takes back a success.
AddFailureTakesBack(w) ==
    LET n == UpTo(Threshold, failureCount + 1)
    IN  /\ Moves(w, "addFailure", IF Trips(n) THEN "swapOpen" ELSE "idle")
        /\ failureCount' = n /\ successCount' = successCount - 1
        /\ UNCHANGED <<state, age, loaded, probed>>

AddFailure(w) ==
    LET n == UpTo(Threshold, failureCount + 1)
    IN  /\ Moves(w, "addFailure", IF Trips(n) THEN "swapOpen" ELSE "idle")
        /\ failureCount' = n
        /\ UNCHANGED <<state, successCount, age, loaded, probed>>

SwapOpen(w) ==
    /\ Moves(w, "swapOpen", "idle") /\ state' = "open"
    /\ UNCHANGED <<failureCount, successCount, age, loaded, probed>>

Allow(w) == \/ LoadState(w) \/ LoadLastFailure(w) \/ Compare(w) \/ SwapHalf(w)
            \/ ZeroSuccess(w)
RecordSuccess(w) == \/ ZeroFailures(w) \/ LoadStateAfterSuccess(w) \/ AddSuccess(w)
                    \/ StoreClosed(w)
RecordFailure(w) == StoreFailure(w) \/ AddFailure(w) \/ SwapOpen(w)
WorkerStep(w) == \/ Allow(w) \/ Succeed(w) \/ Fail(w) \/ ColdTick(w)
                 \/ RecordSuccess(w) \/ RecordFailure(w)

TimePasses == Time /\ UNCHANGED active
Step(w) == w \in active /\ WorkerStep(w) /\ UNCHANGED active

BreakerNext == TimePasses \/ \E w \in Workers : Step(w)

BreakerSpec == BreakerInit /\ [][BreakerNext]_breakerVars

\* Workers tick every minute and time passes.
BreakerFairSpec ==
    /\ BreakerSpec /\ WF_breakerVars(TimePasses)
    /\ \A w \in Workers : WF_breakerVars(Step(w))

-----------------------------------------------------------------------------
(* Properties *)

\* A worker that has the breaker to itself, and knows enough candles to trade.
SoleUser == Cardinality(active) = 1 /\ active \cap Cold = {}

\* Once the failures in a row of a sole user have reached the threshold, and the
\* one that did it has finished reporting, the circuit is not closed, whatever
\* it has gone through before.
HaltsAfterThreshold ==
    SoleUser /\ failureCount >= Threshold /\ (\A w \in active : op[w] # "swapOpen")
        => state # "closed"

\* For a sole user a tripped circuit stays open until the reset timeout is over, and
\* closes from half-open only after that many of its requests have succeeded,
\* those before an earlier trip not counted.
ReopensInSteps ==
    [][SoleUser => /\ state = "open" /\ state' # "open" => age >= ResetTimeout
                   /\ state = "half" /\ state' = "closed" => probed >= Probes]_breakerVars

\* An open circuit does not stay open for good, however many workers share it
\* and in whatever order their atomic operations come.
Recovers == state = "open" ~> state # "open"
=============================================================================
