---------------------------- MODULE BucketCalls ----------------------------
(***************************************************************************)
(* Who calls a shared token bucket, with what, and what one round of a     *)
(* call does to the bucket it reads.  A call is a record of what the       *)
(* caller is doing, the time its call was made with and the tokens it      *)
(* still asks for:                                                         *)
(*                                                                         *)
(*   consume  all of the cost or nothing          (consume)                *)
(*   drain    whatever there is, up to the cost   (consumeOrDrain)         *)
(*   borrow   drain, again and again until the cost is met or nothing is   *)
(*            left                          (consumeWithBorrowNonBlocking) *)
(*   owe      the second half of a borrow: run the bucket into debt for    *)
(*            what is missing                                              *)
(*   give     hand tokens back                    (returnTokens)           *)
(***************************************************************************)
EXTENDS TokenBucket

CONSTANTS
  Threads,    \* the threads that share the bucket
  Requests,   \* the calls they make
  StartTime,  \* the time at which the bucket is constructed, full
  MaxTime     \* bound on the clock

Operations == {"consume", "drain", "borrow", "give"}

\* A call asking for nothing returns before it touches the bucket.
ASSUME CallsAssumption ==
  /\ StartTime \in Nat
  /\ MaxTime \in Nat
  /\ Requests \subseteq [op : Operations, cost : Nat \ {0}]

NoCall == [doing |-> "nothing", now |-> 0, cost |-> 0]

Calls == {NoCall} \cup [doing : Operations \cup {"owe"}, now : Nat, cost : Nat \ {0}]

\* The calls that take what they can from the balance they read.
Takes(c) == c.doing \in {"consume", "drain", "borrow"}

\* The tokens one round of call c draws from a bucket read as zeroTime.  The
\* balance is not asked for its sign: once past the quick look of
\* consumeOrDrain, a drain that finds the balance below zero draws a negative
\* count.
Drawn(c, zeroTime) ==
  IF c.doing = "consume"
  THEN IF Affordable(zeroTime, c.cost, c.now) THEN c.cost ELSE 0
  ELSE IF c.doing = "give" THEN -c.cost
  ELSE IF c.doing = "owe" \/ c.cost <= Balance(zeroTime, c.now) THEN c.cost
  ELSE Balance(zeroTime, c.now)

\* A slip: a debt is owed from now on, on top of nothing.
StoredFromNow(c, zeroTime) ==
  IF Takes(c) THEN Debited(zeroTime, Drawn(c, zeroTime), c.now)
  ELSE IF c.doing = "owe" THEN Rate * c.now + c.cost
  ELSE zeroTime + Drawn(c, zeroTime)

\* The zeroTime that round stores.  Tokens given back or owed move zeroTime
\* as it stands; a bucket given more than its capacity just stays full longer.
Stored(c, zeroTime) ==
  IF Takes(c) THEN Debited(zeroTime, Drawn(c, zeroTime), c.now)
  ELSE zeroTime + Drawn(c, zeroTime)

\* The part of a negative balance that a round erases: a drain that draws a
\* negative count leaves the bucket empty, and hands nobody's tokens back.
Erased(c, drawn) == IF Takes(c) /\ drawn < 0 THEN -drawn ELSE 0

\* What is left of call c after a round that drew so many tokens.
Continued(c, drawn) ==
  IF c.doing # "borrow" \/ drawn = c.cost THEN NoCall
  ELSE IF drawn > 0 THEN [c EXCEPT !.cost = @ - drawn]
  ELSE [c EXCEPT !.doing = "owe"]

\* The answers that take nothing: the quick look at the balance refuses a
\* consume only in debt, and a drain already at zero.
RefusedAtOnce(c, zeroTime) ==
  IF c.doing = "consume" THEN Balance(zeroTime, c.now) < 0
  ELSE Takes(c) /\ Balance(zeroTime, c.now) <= 0

NothingToTake(c, zeroTime) ==
  IF c.doing = "consume" THEN ~Affordable(zeroTime, c.cost, c.now)
  ELSE Takes(c) /\ Balance(zeroTime, c.now) <= 0

\* The observer of a window counts the tokens granted to calls made at
\* window.from or later, as long as the bucket only pays out: a debt, tokens
\* handed back and a balance written off by a drain close it, since after any
\* of them the bucket may grant more than a burst and its refill.
Windows == [open : BOOLEAN, from : Nat, granted : Nat]

WindowFrom(s) == [open |-> TRUE, from |-> s, granted |-> 0]

Closed == [open |-> FALSE, from |-> 0, granted |-> 0]

Observed(window, c, drawn) ==
  IF window.open /\ Takes(c) /\ drawn >= 0
  THEN [window EXCEPT !.granted = @ + drawn]
  ELSE Closed
=============================================================================
