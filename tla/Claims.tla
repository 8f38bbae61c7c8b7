------------------------------- MODULE Claims -------------------------------
(***************************************************************************)
(* The arithmetic of pkg/auth/jwt.go: what the two timestamps of a token   *)
(* say at a given moment.  The claims are whole seconds, the clock is      *)
(* finer: a second has several ticks.  The claims that are names           *)
(* (path_id, sub, jti) are taken to be there.                              *)
(***************************************************************************)
EXTENDS Integers

CONSTANT Second  \* ticks in a second

ASSUME ClaimsAssumption == Second \in Nat \ {0}

\* time.Now().Unix()
Unix(now) == now \div Second

IssuedAt(c) == Second * c.iat
ExpiresAt(c) == Second * c.exp
Lifespan(c) == ExpiresAt(c) - IssuedAt(c)
HalfLife(c) == IssuedAt(c) + Lifespan(c) \div 2

\* IsExpired counts in seconds and ExpiresIn does not: in the second of exp a
\* token has not expired, and has no time left.
IsExpired(c, now) == Unix(now) > c.exp
ExpiresIn(c, now) == ExpiresAt(c) - now

\* Mutant: the time that has passed since is taken for a duration.
TimeUntilSigned(c, now) == HalfLife(c) - now

TimeUntilHalfLife(c, now) == IF HalfLife(c) < now THEN 0 ELSE HalfLife(c) - now

\* A token issued by a clock that is ahead of this one is refused.
Validate(c, now) == ~IsExpired(c, now) /\ c.iat <= Unix(now)
=============================================================================
