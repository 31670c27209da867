---------------------------- MODULE TokenBucket ----------------------------
(***************************************************************************)
(* The arithmetic of one token bucket (admissionspec/TokenBucket.hpp over  *)
(* folly::TokenBucket).  A bucket is one number, the instant at which it   *)
(* would be empty; the balance is the time elapsed since then times the    *)
(* refill rate, capped at the capacity.                                    *)
(*                                                                         *)
(* Time is a natural number of ticks.  The code keeps zeroTime in seconds; *)
(* here it is kept in tokens (seconds times Rate), which makes every       *)
(* quantity an integer and the arithmetic exact.                           *)
(***************************************************************************)
EXTENDS Integers

CONSTANTS
  Capacity,   \* the burst size, in tokens
  Rate        \* tokens regained per tick

\* folly asserts a positive rate and a positive burst size on every call.
ASSUME BucketAssumption == Capacity \in Nat \ {0} /\ Rate \in Nat \ {0}

\* The bucket that is full at time now.
FullStartZeroTime(now) == Rate * now - Capacity

\* A slip: the refill is not capped at the burst size.
BalanceUncapped(zeroTime, now) == Rate * now - zeroTime

\* Tokens held at time now; negative while the bucket is in debt, and also
\* when now lies before the time of the last debit.
Balance(zeroTime, now) ==
  LET filled == Rate * now - zeroTime
  IN  IF filled < Capacity THEN filled ELSE Capacity

\* What available() reports: the balance, never below zero.
Available(zeroTime, now) ==
  IF Balance(zeroTime, now) < 0 THEN 0 ELSE Balance(zeroTime, now)

\* A slip: a single token is enough to pay any cost.
AffordableByAny(zeroTime, cost, now) == Balance(zeroTime, now) > 0

\* The consume callback: all of the cost or nothing.
Affordable(zeroTime, cost, now) == Balance(zeroTime, now) >= cost

\* The zeroTime that leaves balance - cost tokens at time now.
Debited(zeroTime, cost, now) == Rate * now - (Balance(zeroTime, now) - cost)

\* tryConsume run by a thread that holds the bucket alone: whether it
\* succeeds, and the zeroTime it leaves behind.
Consumes(zeroTime, cost, now) ==
  cost <= 0 \/ Affordable(zeroTime, cost, now)

\* A slip: the tokens are taken although they are not there.
AfterConsumeOverdraft(zeroTime, cost, now) ==
  IF cost > 0 THEN Debited(zeroTime, cost, now) ELSE zeroTime

AfterConsume(zeroTime, cost, now) ==
  IF cost > 0 /\ Affordable(zeroTime, cost, now)
  THEN Debited(zeroTime, cost, now)
  ELSE zeroTime
=============================================================================
