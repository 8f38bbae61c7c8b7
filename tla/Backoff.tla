------------------------------- MODULE Backoff -------------------------------
(***************************************************************************)
(* calculateBackoffWithJitter of pkg/proxy/reconnect.go, on the integers   *)
(* of a machine.  The exponential is a float64 converted to an int64: when *)
(* it is out of range, the result is up to the processor.                  *)
(***************************************************************************)
EXTENDS Integers

CONSTANT MaxInt  \* the largest time.Duration

ASSUME BackoffAssumption == MaxInt \in Nat

MinInt == -MaxInt - 1
Durations == MinInt..MaxInt

\* Addition wraps around.
Wrap(x) == ((x - MinInt) % (2 * (MaxInt + 1))) + MinInt

\* A conversion to time.Duration: amd64 makes MinInt of everything out of
\* range, arm64 saturates.
Converted(x) == IF x \in Durations THEN {x} ELSE {MinInt, MaxInt}

\* float64(d) * 0.25, truncated.
Quarter(d) == IF d >= 0 THEN d \div 4 ELSE -((-d) \div 4)

\* Any duration below the bound, and zero if there is none.
secureRandomDuration(bound) == IF bound <= 0 THEN {0} ELSE 0..(bound - 1)

AtMost(bound, d) == IF d > bound THEN bound ELSE d

\* Mutant: the result is capped, but a negative one gets through.
ClampTop(d, initial, maxBackoff) == AtMost(maxBackoff, d)

\* Not below initial, and above all not above maxBackoff.
Clamp(d, initial, maxBackoff) ==
  AtMost(maxBackoff, IF d < initial THEN initial ELSE d)

Jittered(d) == {Wrap(d + n - Quarter(d)) : n \in secureRandomDuration(2 * Quarter(d))}

\* The delays the function may return.
calculateBackoffWithJitter(attempt, initial, maxBackoff) ==
  {Clamp(d, initial, maxBackoff) :
     d \in UNION {Jittered(AtMost(maxBackoff, b)) :
                    b \in Converted(initial * 2^(attempt - 1))}}
=============================================================================
