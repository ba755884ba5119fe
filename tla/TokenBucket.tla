----------------------------- MODULE TokenBucket -----------------------------
(***************************************************************************)
(* The token bucket of crates/fwknox-ratelimit/src/bucket.rs.  Time is     *)
(* counted in ticks of 1/Unit second and tokens in units of 1/Unit token,  *)
(* so that a rate of r tokens a second is r units a tick and one token is  *)
(* Unit units: the code's f64 arithmetic without its rounding.             *)
(*                                                                         *)
(* A bucket is a record: tokens and last are the code's tokens and         *)
(* last_refill; since, passed and fills are history: the start of a        *)
(* window, how many packets the bucket has let through in it, and how many *)
(* times it was handed out full in it, one for what it held at the start.  *)
(***************************************************************************)
EXTENDS Naturals

CONSTANT Unit

ASSUME UnitAssumption == Unit \in Nat \ {0}

Bucket == [tokens : Nat, last : Nat, since : Nat, passed : Nat, fills : Nat \ {0}]

\* TokenBucket::new: it starts full.
NewBucket(burst, now) ==
    [tokens |-> Unit * burst, last |-> now, since |-> now, passed |-> 0, fills |-> 1]

\* A new bucket takes the place of b, in the window in which b is observed.
Reprime(b, burst, now) ==
    [NewBucket(burst, now) EXCEPT !.since = b.since, !.passed = b.passed, !.fills = b.fills + 1]

\* Mutant of Refill: last_refill is not moved, so time is credited again.
RefillAgain(b, rate, burst, now) ==
    LET refilled == b.tokens + (now - b.last) * rate
    IN  [b EXCEPT !.tokens = IF refilled < Unit * burst THEN refilled ELSE Unit * burst]

\* refill; Instant never goes back.
Refill(b, rate, burst, now) ==
    LET refilled == b.tokens + (now - b.last) * rate
    IN  [b EXCEPT !.tokens = IF refilled < Unit * burst THEN refilled ELSE Unit * burst,
                  !.last = now]

\* consume returns Pass ...
CanConsume(b, rate, burst, now) == Refill(b, rate, burst, now).tokens >= Unit

\* ... and takes a token, or returns Drop and leaves the refilled bucket.
Consume(b, rate, burst, now) ==
    LET r == Refill(b, rate, burst, now)
    IN  IF r.tokens >= Unit
        THEN [r EXCEPT !.tokens = @ - Unit, !.passed = @ + 1]
        ELSE r

\* History: a new window starts now.
OpenWindow(b, now) == [b EXCEPT !.since = now, !.passed = 0, !.fills = 1]

\* No window lets through more than a full bucket, once for each time it was
\* filled, and what flowed in since.
WithinRate(b, rate, burst, now) ==
    Unit * b.passed <= b.fills * (Unit * burst) + (now - b.since) * rate
=============================================================================
