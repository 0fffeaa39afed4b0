----------------------------- MODULE TokenBucket -----------------------------
(***************************************************************************)
(* One rate.Limiter of golang.org/x/time/rate, as internal/tenant uses it: *)
(* a bucket of Burst bytes refilled at Rate bytes per tick, asked with     *)
(* AllowN(t, n).  Time is the caller's reading of the clock, so a call may *)
(* carry a reading older than the last one the limiter accepted.           *)
(***************************************************************************)
EXTENDS Integers

CONSTANTS Rate, Burst

ASSUME BucketAssumption == Rate \in Int /\ Burst \in Nat

Bucket == [tokens : Nat, last : Nat]

Full == [tokens |-> Burst, last |-> 0]

\* advance: the tokens at time t, capped at the burst; a reading from before
\* the last one earns nothing.
TokensAt(b, t) ==
  LET earned == b.tokens + Rate * (IF t < b.last THEN 0 ELSE t - b.last)
  IN IF earned > Burst THEN Burst ELSE earned

\* reserveN with no waiting allowed.
Grants(b, t, n) == n <= Burst /\ n <= TokensAt(b, t)

\* A granted call takes its tokens and moves the bucket to its own reading; a
\* refused call changes nothing.
Spend(b, t, n) == [tokens |-> TokensAt(b, t) - n, last |-> t]
=============================================================================
