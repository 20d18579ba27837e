------------------------------- MODULE Optimizer -------------------------------
(***************************************************************************)
(* internal/optimizer/optimizer.go: walk-forward optimisation.  Run takes  *)
(* the windows one after the other: one goroutine per parameter set backs  *)
(* a trial on the in-sample bars, the best set is chosen when all have     *)
(* ended, and another goroutine tries it on the out-of-sample bars while   *)
(* Run goes on.  All of them share a semaphore of Workers slots.  What a   *)
(* backtest scores is any number.                                          *)
(***************************************************************************)
EXTENDS Integers, SequencesExt, FiniteSetsExt

CONSTANTS CandleCounts,   \* numbers of candles there may be
          InSample, OutSample, StepBars,   \* bars of a window and of a step
          Ranges,         \* the parameters to sweep, a sequence of ParamRange
          Workers,        \* slots of the semaphore
          Scores,         \* what a trial can score
          Worst           \* -1e18, where bestParams starts

ASSUME OptimizerConstantsOK ==
    /\ CandleCounts \subseteq Nat
    /\ InSample \in Nat \ {0} /\ OutSample \in Nat \ {0} /\ StepBars \in Nat \ {0}
    /\ Ranges \in Seq([name : STRING, from : Int, to : Int, step : Nat \ {0}])
    /\ \A i, j \in DOMAIN Ranges : Ranges[i].name = Ranges[j].name => i = j
    /\ Workers \in Nat \ {0}
    /\ Scores \subseteq Int /\ Worst \in Int /\ \A s \in Scores : Worst < s

-----------------------------------------------------------------------------
(* The grid *)

\* The values of a range, from its start up to its end.
Values(r) == [k \in 1..(r.to - r.from) \div r.step + 1 |-> r.from + (k - 1) * r.step]

\* A parameter set maps names to values; rest is what the ranges after it give.
Added(rest, name, v) ==
    [n \in DOMAIN rest \cup {name} |-> IF n \in DOMAIN rest THEN rest[n] ELSE v]

\* Every value of r with every set of grid, the values of r varying slowest.
Cross(r, grid) ==
    FlattenSeq([k \in DOMAIN Values(r) |->
                   [i \in DOMAIN grid |-> Added(grid[i], r.name, Values(r)[k])]])

Grid == FoldRight(Cross, Ranges, <<[n \in {} |-> 0]>>)

\* A parameter set is its place in the grid; 0 is the nil set.
Params == DOMAIN Grid
NoParams == 0

-----------------------------------------------------------------------------

VARIABLES
    total,    \* number of candles
    score,    \* score[p]: what p scores in the current window
    window,   \* number of the window Run is at
    trial,    \* trial[p]: the goroutine that tries p
    scored,   \* the channel of bestParams
    out,      \* out[w]: the out-of-sample goroutine of window w
    chosen,   \* chosen[w]: parameters and in-sample metric of window w
    results, ctxDone,
    run       \* "search", "returned", "refused"

vars == <<total, score, window, trial, scored, out, chosen, results, ctxDone, run>>

\* First bars of the windows buildWindows makes of n candles.
Starts(n) == {s \in 0..n : s % StepBars = 0 /\ s + InSample + OutSample <= n}
Windows == 1..Cardinality(Starts(total))
MaxWindows == UNION {1..Cardinality(Starts(n)) : n \in CandleCounts}

Idle == [p \in Params |-> "none"]
Nothing == [params |-> NoParams, metric |-> Worst]

Init ==
    /\ total \in CandleCounts /\ score \in [Params -> Scores]
    /\ window = 1 /\ trial = Idle /\ scored = <<>>
    /\ out = [w \in MaxWindows |-> "none"] /\ chosen = [w \in MaxWindows |-> Nothing]
    /\ results = <<>> /\ ctxDone = FALSE
    /\ run = IF Starts(total) = {} THEN "refused" ELSE "search"

\* Goroutines that hold a slot of the semaphore.
Holding == Cardinality({p \in Params : trial[p] = "running"})
           + Cardinality({w \in MaxWindows : out[w] = "running"})

SlotFreeOneMore == Holding <= Workers
SlotFree == Holding < Workers

-----------------------------------------------------------------------------
(* bestParams *)

\* Run starts the trials of a window; the grid may be empty.
StartTrials ==
    /\ run = "search" /\ window \in Windows /\ trial = Idle /\ Params # {}
    /\ trial' = [p \in Params |-> "waiting"]
    /\ UNCHANGED <<total, score, window, scored, out, chosen, results, ctxDone, run>>

\* A mutant that returns before its deferred Done when the context is cancelled.
BeginWithoutDone(p) ==
    /\ trial[p] = "waiting" /\ SlotFree
    /\ trial' = [trial EXCEPT ![p] = IF ctxDone THEN "lost" ELSE "running"]
    /\ UNCHANGED <<total, score, window, scored, out, chosen, results, ctxDone, run>>

\* A trial gets its slot and looks at the context; it gives the slot back at once
\* if that is cancelled.
Begin(p) ==
    /\ trial[p] = "waiting" /\ SlotFree
    /\ trial' = [trial EXCEPT ![p] = IF ctxDone THEN "ended" ELSE "running"]
    /\ UNCHANGED <<total, score, window, scored, out, chosen, results, ctxDone, run>>

Finish(p) ==
    /\ trial[p] = "running"
    /\ trial' = [trial EXCEPT ![p] = "ended"]
    /\ scored' = Append(scored, p)
    /\ UNCHANGED <<total, score, window, out, chosen, results, ctxDone, run>>

\* A mutant that keeps the last set that is not worse than the one before.
BestLast(ps) ==
    FoldLeft(LAMBDA b, p : [params |-> p, metric |-> score[p]], Nothing, ps)
\* The first of the channel with the largest metric.
Best(ps) ==
    FoldLeft(LAMBDA b, p : IF score[p] > b.metric
                           THEN [params |-> p, metric |-> score[p]] ELSE b,
             Nothing, ps)

AllEnded == \A p \in Params : trial[p] = "ended"

\* All trials have ended: Run starts the out-of-sample goroutine with the best
\* set and goes on to the next window, whose trials score anything.
Choose ==
    /\ run = "search" /\ window \in Windows /\ AllEnded
    /\ chosen' = [chosen EXCEPT ![window] = Best(scored)]
    /\ out' = [out EXCEPT ![window] = "waiting"]
    /\ window' = window + 1 /\ trial' = Idle /\ scored' = <<>>
    /\ score' \in [Params -> Scores]
    /\ UNCHANGED <<total, results, ctxDone, run>>

-----------------------------------------------------------------------------
(* Out of sample, and the end *)

BeginOut(w) ==
    /\ out[w] = "waiting" /\ SlotFree
    /\ out' = [out EXCEPT ![w] = "running"]
    /\ UNCHANGED <<total, score, window, trial, scored, chosen, results, ctxDone, run>>

\* A mutant that shares the variables between the iterations.
CapturedLast(w) == chosen[window - 1]
\* What goroutine w tries: the variables of its own iteration of Run's loop.
Captured(w) == chosen[w]

\* The context is not looked at: the set of a cancelled window, nil if no trial
\* was made, is tried and recorded like any other.
FinishOut(w) ==
    /\ out[w] = "running"
    /\ out' = [out EXCEPT ![w] = "ended"]
    /\ \E m \in Scores :
          results' = Append(results, [window |-> w, params |-> Captured(w).params,
                                      in |-> Captured(w).metric, out |-> m])
    /\ UNCHANGED <<total, score, window, trial, scored, chosen, ctxDone, run>>

\* wg.Wait, and the results sorted by what they scored out of sample.
Return ==
    /\ run = "search" /\ window \notin Windows /\ \A w \in Windows : out[w] = "ended"
    /\ run' = "returned"
    /\ results' \in {s \in SetToSeqs(ToSet(results)) :
                        \A i \in 1..Len(s) - 1 : s[i].out >= s[i + 1].out}
    /\ UNCHANGED <<total, score, window, trial, scored, out, chosen, ctxDone>>

\* buildSummary: averages (sums here), and the first result for the best.
Summary(rs) ==
    [totalWindows |-> Len(rs), bestParams |-> rs[1].params, bestOut |-> rs[1].out,
     in |-> FoldLeft(LAMBDA a, r : a + r.in, 0, rs),
     out |-> FoldLeft(LAMBDA a, r : a + r.out, 0, rs)]

Cancel ==
    /\ ~ctxDone /\ run = "search" /\ ctxDone' = TRUE
    /\ UNCHANGED <<total, score, window, trial, scored, out, chosen, results, run>>

Goroutines ==
    \/ StartTrials \/ Choose \/ Return
    \/ \E p \in Params : Begin(p) \/ Finish(p)
    \/ \E w \in MaxWindows : BeginOut(w) \/ FinishOut(w)

Next == Goroutines \/ Cancel

Spec == Init /\ [][Next]_vars

\* Goroutines are scheduled and backtests end.
FairSpec == Spec /\ WF_vars(Goroutines)

-----------------------------------------------------------------------------
(* Properties *)

\* Every variable has its type; the channel never holds more than it has room for, and
\* no more backtests run at once than there are workers, trials of one window and
\* out-of-sample runs of earlier ones taken together.
TypeOK ==
    /\ Holding <= Workers
    /\ total \in CandleCounts /\ score \in [Params -> Scores]
    /\ window \in 1..Cardinality(Windows) + 1
    /\ trial \in [Params -> {"none", "waiting", "running", "ended"}]
    /\ scored \in Seq(Params) /\ Len(scored) <= Cardinality(Params)
    /\ out \in [MaxWindows -> {"none", "waiting", "running", "ended"}]
    /\ chosen \in [MaxWindows -> [params : Params \cup {NoParams}, metric : Scores \cup {Worst}]]
    /\ results \in Seq([window : Windows, params : Params \cup {NoParams},
                        in : Scores \cup {Worst}, out : Scores])
    /\ ctxDone \in BOOLEAN /\ run \in {"search", "returned", "refused"}

\* When a window's trials have all ended, each combination of values within the
\* ranges has been tried exactly once, unless the search was cancelled.
EveryCombinationTried ==
    LET Names == {Ranges[i].name : i \in DOMAIN Ranges}
        Within(r) == {v \in r.from..r.to : (v - r.from) % r.step = 0}
        Combinations == {f \in [Names -> UNION {Within(Ranges[i]) : i \in DOMAIN Ranges}] :
                            \A i \in DOMAIN Ranges : f[Ranges[i].name] \in Within(Ranges[i])}
    IN  AllEnded /\ ~ctxDone =>
            /\ {Grid[p] : p \in ToSet(scored)} = Combinations
            /\ Len(scored) = Cardinality(Combinations)

\* The set that goes out of sample scored no worse in its window than any other,
\* in whatever order the trials ended, and every combination was tried, unless the
\* search was cancelled.
BestIsChosen ==
    [][\A w \in Windows : out[w] = "none" /\ out'[w] = "waiting" /\ ~ctxDone =>
          /\ EveryCombinationTried
          /\ Params # {} => chosen'[w].params \in Params
          /\ \A p \in Params : score[p] <= chosen'[w].metric]_vars

\* Run returns one result for each window that fits into the candles, the last of
\* which leaves no room for another, and refuses when there is none.
AllWindowsReported ==
    /\ run = "returned" =>
          /\ Len(results) = Cardinality({r.window : r \in ToSet(results)})
          /\ Len(results) * StepBars + InSample + OutSample > total
          /\ (Len(results) - 1) * StepBars + InSample + OutSample <= total
    /\ run = "refused" <=> total < InSample + OutSample

\* A result shows its own window's choice, however far Run has come meanwhile.
ResultsOfTheirWindows ==
    \A r \in ToSet(results) :
        r.params = chosen[r.window].params /\ r.in = chosen[r.window].metric

\* Run reports every window with its own choice, however far it has come when that is
\* tried; the summary is about all of them, and its best parameters are the choice of
\* a window that did best out of sample.
ReportIsComplete ==
  /\ AllWindowsReported /\ ResultsOfTheirWindows
  /\ run = "returned" =>
        LET s == Summary(results)
            best == {r \in ToSet(results) : \A q \in ToSet(results) : q.out <= r.out}
        IN  /\ s.totalWindows = Cardinality(Windows)
            /\ s.in = FoldSet(LAMBDA w, a : a + chosen[w].metric, 0, Windows)
            /\ \E r \in best : s.bestOut = r.out /\ s.bestParams = chosen[r.window].params

\* Run returns, cancelled or not: no goroutine waits for a slot for ever, and none
\* is forgotten.
RunReturns == <>(run \in {"returned", "refused"})
================================================================================
