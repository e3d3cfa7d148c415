----------------------------- MODULE RetryPolicy -----------------------------
(***************************************************************************)
(* RetryPolicy of events/retry.py: what becomes of an event whose delivery *)
(* failed.  The policy is a value, so its operators take it as p and the   *)
(* modules that use a policy pass their own.                               *)
(*                                                                         *)
(* An error is known by the two questions the policy asks about it.  A     *)
(* delay is a whole number of time units; Infinity stands for what the     *)
(* float arithmetic overflows to, and as a max_delay for None.             *)
(***************************************************************************)
EXTENDS Naturals

CONSTANT MaxFinite   \* the largest finite delay

Infinity == MaxFinite + 1

Policy == [max_deliveries : Nat \ {0},
           dead_letter_on_exhaustion : BOOLEAN, dead_letter_non_retryable : BOOLEAN,
           base_delay : Nat, multiplier : Nat \ {0}, max_delay : Nat,
           jitter_percent : 0..100]

Error == [retryable : BOOLEAN, discardable : BOOLEAN]

Smaller(a, b) == IF a <= b THEN a ELSE b

\* base ** exponent
Power(base, exponent) ==
  LET Up[i \in 0..exponent] == IF i = 0 THEN 1 ELSE base * Up[i - 1] IN Up[exponent]

\* base_delay_seconds * backoff_multiplier ** (delivery_count - 1)
Grown(p, n) == p.base_delay * Power(p.multiplier, n - 1)

\* Mutant of Backoff: no max_delay_seconds.
Uncapped(p, n) == Smaller(Grown(p, n), Infinity)

Backoff(p, n) == Smaller(Smaller(Grown(p, n), Infinity), p.max_delay)

\* Mutant of RetryDelays: jitter may take the whole delay away.
FullJitter(p, n) ==
  LET full == Backoff(p, n) IN {d \in 0..full : full <= MaxFinite}

(***************************************************************************)
(* retry_delay_for_delivery: the delays it may return.  Jitter shortens    *)
(* the delay by any part of jitter_percent of it; a delay that is not      *)
(* finite raises RetryPolicyError, so there is none to return.             *)
(***************************************************************************)
RetryDelays(p, n) ==
  LET full == Backoff(p, n)
  IN  {d \in 0..full : full <= MaxFinite /\ 100 * d >= full * (100 - p.jitter_percent)}

\* Mutant of Exhausted: one delivery too many.
OneMore(p, n) == n > p.max_deliveries

Exhausted(p, n) == n >= p.max_deliveries

\* Mutant of DeadLetterIf: an action no worker knows.
UnknownAction(flag) == IF flag THEN "dead_letter" ELSE "drop"

(***************************************************************************)
(* decide: the action for the failed delivery number n.  "error" is the    *)
(* exception of a delay that overflowed.                                   *)
(***************************************************************************)
DeadLetterIf(flag) == IF flag THEN "dead_letter" ELSE "discard"

\* Mutant of Decide: exhaustion ends in no decision.
NothingWhenExhausted(p, n, e) ==
  IF Exhausted(p, n) THEN "open" ELSE IF e.retryable THEN "retry" ELSE "discard"

Decide(p, n, e) ==
  CASE e.discardable   -> "discard"
    [] ~e.discardable /\ Exhausted(p, n) -> DeadLetterIf(p.dead_letter_on_exhaustion)
    [] ~e.discardable /\ ~Exhausted(p, n) /\ e.retryable ->
         IF RetryDelays(p, n) = {} THEN "error" ELSE "retry"
    [] ~e.discardable /\ ~Exhausted(p, n) /\ ~e.retryable ->
         DeadLetterIf(p.dead_letter_non_retryable)
=============================================================================
