---------------------------- MODULE TokenBucket ----------------------------
(***************************************************************************)
(* The token bucket behind RATE_LIMIT_RPS (budget.rs).  All requests share *)
(* one bucket under a Mutex, so an attempt is one atomic step; time passes *)
(* between attempts.  The code keeps tokens as a float; here one token is  *)
(* TicksPerSecond units, so that what one tick refills (rps units) is a    *)
(* whole number.  The float sum of a refill is off by at most Rounding     *)
(* units, either way (the refill of a bucket that it fills does not        *)
(* matter: min caps it); taking a token off is exact.                      *)
(*                                                                         *)
(* mark, granted and refills belong to an observer, not to the code: the   *)
(* observer may start a window at any moment, and counts what is granted   *)
(* in it and how often it was refilled, and so rounded.                    *)
(***************************************************************************)
EXTENDS Integers

CONSTANTS
    Rps,               \* RATE_LIMIT_RPS
    TicksPerSecond,    \* resolution of the model's clock
    Rounding,          \* the error of one refill, in units
    MaxTime            \* bound of the model: last tick

ASSUME BucketAssumption ==
    /\ Rps \in Nat
    /\ TicksPerSecond \in Nat \ {0}
    /\ Rounding \in Nat
    /\ MaxTime \in Nat

\* The code refuses to build a bucket that could never fill: rps.max(1).
Capacity == IF Rps = 0 THEN 1 ELSE Rps

Token == TicksPerSecond

Full == Capacity * Token

VARIABLES
    now,        \* Instant::now()
    tokens,     \* units in the bucket as of last
    last,       \* when it was refilled
    verdict,    \* outcome of the step just taken, or "none"
    mark,       \* when the observer's window began
    granted,    \* attempts granted since then
    refills     \* attempts since then that found time had passed

vars == <<now, tokens, last, verdict, mark, granted, refills>>

TypeOK ==
    /\ now \in 0..MaxTime
    /\ last \in 0..now
    /\ tokens \in 0..Full
    /\ verdict \in {"none", "granted", "refused"}
    /\ mark \in 0..now
    /\ granted \in Nat
    /\ refills \in Nat

Init ==
    /\ now = 0
    /\ tokens = Full
    /\ last = 0
    /\ verdict = "none"
    /\ mark = 0
    /\ granted = 0
    /\ refills = 0

\* What rounding may do to the sum: it never takes it below what was there, and
\* nothing is rounded where nothing is added.
Errors ==
    IF now = last THEN {0}
    ELSE {e \in -Rounding..Rounding : (now - last) * Capacity + e >= 0}

\* Mutated: what is refilled after a pause is not capped.
Refilled_Uncapped(e) == tokens + (now - last) * Capacity + e

\* tokens + elapsed * refill_per_sec, at most capacity.
Refilled(e) ==
    LET t == tokens + (now - last) * Capacity + e
    IN  IF t <= Full THEN t ELSE Full

\* An attempt is made, and the observer sees whether it refilled the bucket.
Attempt(left, result) ==
    /\ tokens' = left
    /\ last' = now
    /\ verdict' = result
    /\ refills' = IF now = last THEN refills ELSE refills + 1
    /\ UNCHANGED <<now, mark>>

Grant(e) ==
    /\ Refilled(e) >= Token
    /\ Attempt(Refilled(e) - Token, "granted")
    /\ granted' = granted + 1

\* Mutated: a refused attempt restarts the clock but loses what it refilled.
Refuse_Forgets(e) ==
    /\ Refilled(e) < Token
    /\ Attempt(tokens, "refused")
    /\ UNCHANGED granted

\* A refused attempt refills the bucket all the same.
Refuse(e) ==
    /\ Refilled(e) < Token
    /\ Attempt(Refilled(e), "refused")
    /\ UNCHANGED granted

TryAcquire == \E e \in Errors : Grant(e) \/ Refuse(e)

Tick ==
    /\ now < MaxTime
    /\ now' = now + 1
    /\ verdict' = "none"
    /\ UNCHANGED <<tokens, last, mark, granted, refills>>

Observe ==
    /\ mark' = now
    /\ granted' = 0
    /\ refills' = 0
    /\ verdict' = "none"
    /\ UNCHANGED <<now, tokens, last>>

Next == TryAcquire \/ Tick \/ Observe

Spec == Init /\ [][Next]_vars

-----------------------------------------------------------------------------

\* In no window, wherever it begins, are more requests granted than one full
\* bucket and what the window refills, up to the rounding of its refills: bursts
\* do not add up across attempts, refusals and idle time
\* (TokenBucket::try_acquire).
RateBounded ==
    granted * Token <= Full + (now - mark) * Capacity + refills * Rounding

\* The limiter refuses only callers that really exceed the rate: when a request
\* is refused, the requests granted within the last second fall short of rps by
\* less than one, apart from what rounding took at each attempt.  No refill is
\* lost to refused attempts or to idle time.
RefusesOnlyAboveRate ==
    verdict = "refused" /\ now - mark = TicksPerSecond =>
        (granted + 1) * Token + refills * Rounding > Full

\* Inductive strengthening of the two: what a bucket that was empty, or full,
\* when the window began can hold now.
WindowInv ==
    /\ last < mark => granted = 0 /\ refills = 0
    /\ last >= mark =>
        /\ tokens + granted * Token
               <= Full + (last - mark) * Capacity + refills * Rounding
        /\ \/ Full <= tokens + granted * Token + refills * Rounding
           \/ (last - mark) * Capacity <= tokens + granted * Token + refills * Rounding
    /\ verdict = "refused" => last = now /\ tokens < Token
=============================================================================
