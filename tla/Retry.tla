--------------------------------- MODULE Retry ---------------------------------
(***************************************************************************)
(* internal/pkg/retry/retry.go: one call of RetryWithConfig, the function  *)
(* it retries, the deadline of each attempt and the caller's context.      *)
(*                                                                         *)
(* The function does not receive the attempt's context: it runs to its end *)
(* whatever happens to it, and a success that comes after the deadline     *)
(* counts as a failure.                                                    *)
(***************************************************************************)
EXTENDS Integers, Sequences, FiniteSetsExt

CONSTANTS
    Configs,   \* the configurations a caller may give
    MaxInt     \* the largest time.Duration

\* Config is not validated by the code.  Intervals are positive here and the jitter is
\* not negative, as in every configuration that asks for a wait; any number of retries
\* and any timeout may be given.
ASSUME RetryAssumption ==
    /\ MaxInt \in Nat
    /\ Configs \subseteq [MaxRetries : Int, MinInterval : 1..MaxInt, MaxInterval : 1..MaxInt,
                          MaxJitter : 0..MaxInt, Timeout : Int]

\* DefaultConfig, in tenths of a second, which a caller who gives none gets.
DefaultConfig == [MaxRetries |-> 3, MinInterval |-> 1, MaxInterval |-> 10,
                  MaxJitter |-> 1, Timeout |-> 50]

VARIABLES
    config,
    stage,     \* "loop", "fn", "check", "result", "wait" or "returned"
    retries,   \* the attempt, from 0
    lastErr,
    ctx,       \* the caller's context: "live" or "canceled"
    opCtx,     \* the attempt's context: "live", or the error it ended with
    interval,  \* the time between two attempts
    fired,     \* the timer of the wait has fired
    outcomes   \* history: how each attempt ended: "failed", "late" or "ok"

retryVars == <<config, stage, retries, lastErr, ctx, opCtx, interval, fired, outcomes>>

RetryInit ==
    /\ config \in Configs \cup {DefaultConfig}
    /\ stage = "loop" /\ retries = 0
    /\ lastErr = "nil"
    /\ ctx \in {"live", "canceled"} /\ opCtx = "live"
    /\ interval = 0 /\ fired = FALSE
    /\ outcomes = <<>>

Goto(from, to) == stage = from /\ stage' = to

-------------------------------------------------------------------------------
(* RetryWithConfig *)

\* The context of the attempt ends with the caller's, and at once without time.
Attempt ==
    /\ Goto("loop", "fn") /\ retries <= config.MaxRetries
    /\ opCtx' = IF ctx # "live" THEN ctx ELSE IF config.Timeout <= 0 THEN "deadline" ELSE "live"
    /\ UNCHANGED <<config, retries, lastErr, ctx, interval, fired, outcomes>>

\* A negative number of retries: the function is not called at all.
NoAttempt ==
    /\ Goto("loop", "returned") /\ retries > config.MaxRetries
    /\ UNCHANGED <<config, retries, lastErr, ctx, opCtx, interval, fired, outcomes>>

FnReturns ==
    /\ Goto("fn", "check")
    /\ lastErr' \in {"nil", "error"}
    /\ UNCHANGED <<config, retries, ctx, opCtx, interval, fired, outcomes>>

\* (Mutant) the deadline is not looked at.
CheckDeadline_Not ==
    /\ Goto("check", "result")
    /\ outcomes' = Append(outcomes,
                       IF lastErr # "nil" THEN "failed" ELSE IF opCtx = "live" THEN "ok" ELSE "late")
    /\ UNCHANGED <<config, retries, lastErr, ctx, opCtx, interval, fired>>

\* A success under a context that has ended is the error of that context.
CheckDeadline ==
    /\ Goto("check", "result")
    /\ lastErr' = IF lastErr = "nil" /\ opCtx # "live" THEN opCtx ELSE lastErr
    /\ outcomes' = Append(outcomes,
                       IF lastErr # "nil" THEN "failed" ELSE IF opCtx = "live" THEN "ok" ELSE "late")
    /\ UNCHANGED <<config, retries, ctx, opCtx, interval, fired>>

\* A success, or the error of the last attempt.
Return ==
    /\ Goto("result", "returned")
    /\ lastErr = "nil" \/ retries = config.MaxRetries
    /\ UNCHANGED <<config, retries, lastErr, ctx, opCtx, interval, fired, outcomes>>

\* A sum of durations wraps; a float too large for one becomes, by the processor,
\* the least duration or the largest.
Wrap(n) == IF n > MaxInt THEN n - 2 * (MaxInt + 1) ELSE n
Convert(x) == IF x <= MaxInt THEN {x} ELSE {-(MaxInt + 1), MaxInt}

\* (Mutant) the interval is doubled after it is bounded.
calculateBackoff_CapFirst(attempt) ==
    {Wrap(Min({base, config.MaxInterval}) * 2 ^ attempt + jitter) :
        base \in Convert(config.MinInterval),
        jitter \in {j \in 0..config.MaxJitter : j = 0 \/ j < config.MaxJitter}}

\* math.Pow
Doubled(attempt) == config.MinInterval * 2 ^ attempt

\* What calculateBackoff may return.
calculateBackoff(attempt) ==
    {Wrap(Min({base, config.MaxInterval}) + jitter) :
        base \in Convert(Doubled(attempt)),
        jitter \in {j \in 0..config.MaxJitter : j = 0 \/ j < config.MaxJitter}}

Backoff ==
    /\ Goto("result", "wait")
    /\ lastErr # "nil" /\ retries # config.MaxRetries
    /\ interval' \in calculateBackoff(retries)
    /\ fired' = (interval' <= 0)
    /\ UNCHANGED <<config, retries, lastErr, ctx, opCtx, outcomes>>

\* (Mutant) any ended context gives the retries up.
GiveUp_AttemptOver ==
    /\ Goto("wait", "returned") /\ (ctx # "live" \/ opCtx # "live")
    /\ lastErr' = opCtx
    /\ UNCHANGED <<config, retries, ctx, opCtx, interval, fired, outcomes>>

\* The caller's context ends the wait ...
GiveUp ==
    /\ Goto("wait", "returned") /\ ctx # "live"
    /\ lastErr' = ctx
    /\ UNCHANGED <<config, retries, ctx, opCtx, interval, fired, outcomes>>

\* (Mutant) the attempts are not counted.
TryAgain_Uncounted ==
    /\ Goto("wait", "loop") /\ fired
    /\ retries' = retries /\ interval' = 0 /\ fired' = FALSE
    /\ outcomes' = <<>>
    /\ UNCHANGED <<config, lastErr, ctx, opCtx>>

\* ... or the timer does; when both are ready either may.
TryAgain ==
    /\ Goto("wait", "loop") /\ fired
    /\ retries' = retries + 1 /\ interval' = 0 /\ fired' = FALSE
    /\ UNCHANGED <<config, lastErr, ctx, opCtx, outcomes>>

-------------------------------------------------------------------------------
(* Time, and the caller *)

Deadline ==
    /\ stage \in {"fn", "check"} /\ opCtx = "live" /\ opCtx' = "deadline"
    /\ UNCHANGED <<config, stage, retries, lastErr, ctx, interval, fired, outcomes>>

Fire ==
    /\ stage = "wait" /\ ~fired /\ fired' = TRUE
    /\ UNCHANGED <<config, stage, retries, lastErr, ctx, opCtx, interval, outcomes>>

\* The caller's context ends, and a running attempt's with it.
Cancel ==
    /\ stage # "returned" /\ ctx = "live" /\ ctx' = "canceled"
    /\ opCtx' = IF stage \in {"fn", "check"} /\ opCtx = "live" THEN "canceled" ELSE opCtx
    /\ UNCHANGED <<config, stage, retries, lastErr, interval, fired, outcomes>>

Loop == Attempt \/ NoAttempt \/ CheckDeadline \/ Return \/ Backoff \/ GiveUp \/ TryAgain

RetryNext == Loop \/ FnReturns \/ Deadline \/ Fire \/ Cancel

\* The function returns, and timers fire.
RetryFairness == WF_retryVars(Loop) /\ WF_retryVars(FnReturns) /\ WF_retryVars(Fire)

RetrySpec == RetryInit /\ [][RetryNext]_retryVars /\ RetryFairness

-------------------------------------------------------------------------------
(* Properties *)

\* The caller is told of a success exactly when the last attempt succeeded while both
\* contexts were live; every success before that one came too late and was retried.
SuccessIsTimely ==
    stage = "returned" /\ config.MaxRetries >= 0 =>
        /\ outcomes # <<>>
        /\ (lastErr = "nil") <=> (outcomes[Len(outcomes)] = "ok")
        /\ \A n \in 1..Len(outcomes) - 1 : outcomes[n] # "ok"

\* While the caller's context is live no retry is saved: neither a deadline missed nor
\* an error that comes back ends the call before the last attempt.
NoEarlySurrender ==
    stage = "returned" /\ lastErr # "nil" /\ ctx = "live" => Len(outcomes) = config.MaxRetries + 1

\* However late the attempt, a retry waits at least the least interval, or the
\* greatest if that is less, and less than the greatest and the jitter together:
\* unless a doubling or a sum has left the range of durations.
WaitsInRange ==
    LET most == config.MaxInterval + config.MaxJitter IN
    stage = "wait" /\ Doubled(retries) <= MaxInt /\ most <= MaxInt =>
        /\ interval >= Min({config.MinInterval, config.MaxInterval})
        /\ interval < most \/ interval = config.MaxInterval

\* A call ends, whatever the function does and whoever gives up on it.
Returns == <>(stage = "returned")
===============================================================================
