------------------------- MODULE AtomicTokenBucket -------------------------
(***************************************************************************)
(* What a token bucket shared by several threads promises: a call takes    *)
(* effect at one instant between its invocation and its return, on the     *)
(* bucket as it then is.  consume and returnTokens take effect once; a     *)
(* borrow is a sequence of rounds, each of them atomic.                    *)
(*                                                                         *)
(* A caller reads the steady clock when it calls, so the time a call uses  *)
(* may lie behind the clock, and behind the time of a call that has        *)
(* already taken effect, by the moment it takes effect itself.             *)
(*                                                                         *)
(* A consumeOrDrain that took effect at one instant would return 0 on a    *)
(* bucket without tokens and leave it alone.  The code looks once and      *)
(* decides again in its loop, so that a drain can also write a balance     *)
(* below zero off; that step, which no atomic call takes, is an action of  *)
(* its own and exists only where DrainsRace says so.                       *)
(***************************************************************************)
EXTENDS BucketCalls

CONSTANT DrainsRace  \* whether a drain may write off what it did not find

VARIABLES
  clock,      \* the steady clock
  zeroTime,   \* the bucket
  call,       \* call[t]: what thread t is doing
  ledger,     \* history: tokens drawn in all, less those given back
  writtenOff, \* history: tokens below zero that drains have written off
  window      \* history: tokens granted since the calls stamped window.from

bucketVars == <<clock, zeroTime, call, ledger, writtenOff, window>>

Init ==
  /\ clock = StartTime
  /\ zeroTime = FullStartZeroTime(StartTime)
  /\ call = [t \in Threads |-> NoCall]
  /\ ledger = 0
  /\ writtenOff = 0
  /\ window = WindowFrom(StartTime)

InCall == {t \in Threads : call[t].doing # "nothing"}

Tick ==
  /\ clock < MaxTime
  /\ clock' = clock + 1
  /\ UNCHANGED <<zeroTime, call, ledger, writtenOff, window>>

\* An observer starts counting afresh the tokens granted to calls made at s
\* or later, at a moment when no call made before s is still under way.
OpenWindow(s) ==
  /\ s <= clock
  /\ \A t \in InCall : call[t].now >= s
  /\ window' = WindowFrom(s)
  /\ UNCHANGED <<clock, zeroTime, call, ledger, writtenOff>>

\* A borrow of more than the burst size is turned away at once.
Invoke(t, r) ==
  /\ call[t].doing = "nothing"
  /\ r.op = "borrow" => r.cost <= Capacity
  /\ call' = [call EXCEPT ![t] = [doing |-> r.op, now |-> clock, cost |-> r.cost]]
  /\ UNCHANGED <<clock, zeroTime, ledger, writtenOff, window>>

\* A round of the call takes effect on the bucket as it is, which holds what
\* the round takes.
TakeEffect(t) ==
  LET drawn == Drawn(call[t], zeroTime)
  IN  /\ call[t].doing # "nothing"
      /\ ~NothingToTake(call[t], zeroTime)
      /\ zeroTime' = Stored(call[t], zeroTime)
      /\ call' = [call EXCEPT ![t] = Continued(call[t], drawn)]
      /\ ledger' = ledger + drawn
      /\ window' = Observed(window, call[t], drawn)
      /\ UNCHANGED <<clock, writtenOff>>

\* It finds nothing to take: a consume and a drain return, a borrow goes on
\* to run the bucket into debt.
TakeNothing(t) ==
  /\ call[t].doing # "nothing"
  /\ NothingToTake(call[t], zeroTime)
  /\ call' = [call EXCEPT ![t] = Continued(call[t], 0)]
  /\ UNCHANGED <<clock, zeroTime, ledger, writtenOff, window>>

\* Not an atomic call: a drain, or the drain a borrow begins with, finds the
\* balance below zero and brings it up to zero.
WriteOff(t) ==
  LET drawn == Drawn(call[t], zeroTime)
  IN  /\ DrainsRace
      /\ call[t].doing \in {"drain", "borrow"}
      /\ Balance(zeroTime, call[t].now) < 0
      /\ zeroTime' = Stored(call[t], zeroTime)
      /\ call' = [call EXCEPT ![t] = Continued(call[t], drawn)]
      /\ writtenOff' = writtenOff + Erased(call[t], drawn)
      /\ window' = Closed
      /\ UNCHANGED <<clock, ledger>>

Next ==
  \/ Tick
  \/ \E s \in 0..MaxTime : OpenWindow(s)
  \/ \E t \in Threads : \/ \E r \in Requests : Invoke(t, r)
                        \/ TakeEffect(t)
                        \/ TakeNothing(t)
                        \/ WriteOff(t)

Spec == Init /\ [][Next]_bucketVars

-----------------------------------------------------------------------------
\* The values the variables range over.
TypeOK ==
  /\ clock \in Nat
  /\ zeroTime \in Int
  /\ call \in [Threads -> Calls]
  /\ ledger \in Int
  /\ writtenOff \in Nat
  /\ window \in Windows

\* A rate limiter's promise, over every window and not only from the start:
\* the calls made in an interval are granted at most one full bucket plus what
\* the interval refills, although a call may take effect with a time that lies
\* behind the time of a call granted before it.  A write-off ends the promise.
WindowBound ==
  window.granted <= Capacity + Rate * (clock - window.from)

\* The tokens the bucket is in debt for.
Debt == IF zeroTime > Rate * clock THEN zeroTime - Rate * clock ELSE 0

\* Whatever is drained, borrowed, owed and handed back, and in whatever order
\* those calls take effect, what has been drawn in all is at most one full
\* bucket, the refill since the start, the debt on record and what drains have
\* written off: a write-off is the only way in which a debit is lost.
LedgerBound ==
  ledger <= Capacity + Rate * (clock - StartTime) + Debt + writtenOff

\* The strengthening that is inductive.  zeroTime has risen by at least what
\* was drawn since the start and not written off, and by at least what was
\* granted since the window opened, counted from a bucket that was full at
\* that time; and while only grants have moved it, it does not lie in the
\* future of the clock.
WindowInv ==
  /\ TypeOK
  /\ StartTime <= clock
  /\ window.from <= clock
  /\ \A t \in InCall : call[t].now \in window.from .. clock
  /\ zeroTime >= FullStartZeroTime(StartTime) + ledger - writtenOff
  /\ \/ window.granted = 0
     \/ /\ zeroTime <= Rate * clock
        /\ zeroTime >= FullStartZeroTime(window.from) + window.granted
=============================================================================
