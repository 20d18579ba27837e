----------------------------- MODULE RateLimiter -----------------------------
(***************************************************************************)
(* internal/api/rate_limiter.go: a token bucket whose callers sleep until  *)
(* the next token is due and try again.  Time and tokens are whole units,  *)
(* as the nanoseconds of time.Duration are: One units make a token, Rate   *)
(* units come in per unit of time.                                         *)
(***************************************************************************)
EXTENDS Integers

CONSTANTS Callers,    \* goroutines that call Wait, again and again
          One,        \* units of a token
          MaxTokens,  \* units the bucket holds
          Rate,       \* units that come in per unit of time
          MaxTime     \* bound of the clock, for TLC

ASSUME LimiterConstantsOK ==
    /\ One \in Nat \ {0} /\ Rate \in Nat \ {0} /\ MaxTime \in Nat
    /\ MaxTokens \in Nat /\ MaxTokens >= One

VARIABLES
    now, tokens, lastRefill,
    phase,        \* phase[c]: "idle", "calling" Wait, "sleeping" in it
    wake,         \* wake[c]: when the sleep of c is over
    windowStart,  \* a moment from which requests are counted
    granted       \* how many Wait has let through since then

limiterVars == <<now, tokens, lastRefill, phase, wake, windowStart, granted>>

\* Every variable has its type: the bucket never overflows or goes below zero.
LimiterTypeOK ==
    /\ now \in Nat /\ tokens \in 0..MaxTokens
    /\ lastRefill \in 0..now /\ windowStart \in 0..now
    /\ phase \in [Callers -> {"idle", "calling", "sleeping"}]
    /\ wake \in [Callers -> Nat] /\ granted \in Nat

\* NewRateLimiter: the bucket starts full.
LimiterInit ==
    /\ now = 0 /\ tokens = MaxTokens /\ lastRefill = 0
    /\ phase = [c \in Callers |-> "idle"] /\ wake = [c \in Callers |-> 0]
    /\ windowStart = 0 /\ granted = 0

Tick ==
    /\ now < MaxTime /\ now' = now + 1
    /\ UNCHANGED <<tokens, lastRefill, phase, wake, windowStart, granted>>

\* The observer starts to count anew.
OpenWindow ==
    /\ windowStart' = now /\ granted' = 0
    /\ UNCHANGED <<now, tokens, lastRefill, phase, wake>>

Call(c) ==
    /\ phase[c] = "idle" /\ phase' = [phase EXCEPT ![c] = "calling"]
    /\ UNCHANGED <<now, tokens, lastRefill, wake, windowStart, granted>>

\* A mutant that forgets the limit of the bucket.
RefilledUncapped == tokens + (now - lastRefill) * Rate
Refilled ==
    LET t == tokens + (now - lastRefill) * Rate
    IN  IF t > MaxTokens THEN MaxTokens ELSE t

Needed(t) == (One - t) \div Rate

\* A mutant that does not remember when it has refilled.
GrantOldRefill(c) ==
    /\ phase[c] = "calling" /\ Refilled >= One
    /\ tokens' = Refilled - One
    /\ granted' = granted + 1
    /\ phase' = [phase EXCEPT ![c] = "idle"]
    /\ UNCHANGED <<now, lastRefill, wake, windowStart>>

\* One pass of Wait under the mutex: a token is there.
Grant(c) ==
    /\ phase[c] = "calling" /\ Refilled >= One
    /\ tokens' = Refilled - One /\ lastRefill' = now
    /\ granted' = granted + 1
    /\ phase' = [phase EXCEPT ![c] = "idle"]
    /\ UNCHANGED <<now, wake, windowStart>>

\* Or it is not, and the caller sleeps without the mutex.
Sleep(c) ==
    /\ phase[c] = "calling" /\ Refilled < One
    /\ tokens' = Refilled /\ lastRefill' = now
    /\ wake' = [wake EXCEPT ![c] = now + Needed(Refilled)]
    /\ phase' = [phase EXCEPT ![c] = "sleeping"]
    /\ UNCHANGED <<now, windowStart, granted>>

Wake(c) ==
    /\ phase[c] = "sleeping" /\ now >= wake[c]
    /\ phase' = [phase EXCEPT ![c] = "calling"]
    /\ UNCHANGED <<now, tokens, lastRefill, wake, windowStart, granted>>

\* ctx.Done: Wait returns an error and takes no token.
Cancel(c) ==
    /\ phase[c] = "sleeping" /\ phase' = [phase EXCEPT ![c] = "idle"]
    /\ UNCHANGED <<now, tokens, lastRefill, wake, windowStart, granted>>

Wait(c) == Grant(c) \/ Sleep(c) \/ Wake(c) \/ Cancel(c)

LimiterNext == Tick \/ OpenWindow \/ \E c \in Callers : Call(c) \/ Wait(c)

LimiterSpec == LimiterInit /\ [][LimiterNext]_limiterVars

-----------------------------------------------------------------------------
(* Properties *)

\* From any moment on, Wait lets through no more than a full bucket and what
\* comes in meanwhile, however its callers interleave.
RateBound == granted * One <= MaxTokens + Rate * (now - windowStart)
==============================================================================
