------------------------- MODULE SharedTokenBucket -------------------------
(***************************************************************************)
(* folly::TokenBucket as it runs when threads share one bucket: no lock,   *)
(* one atomic zeroTime, and two compare-and-exchange loops.  Every access  *)
(* to the atomic is a step of its own.                                     *)
(*                                                                         *)
(* consume() and consumeOrDrain() read zeroTime twice before the exchange, *)
(* once for the quick refusal and once for the loop; returnTokens() reads  *)
(* it once, and a failed exchange reads it again.  The exchange is the     *)
(* weak one, which may fail although nobody interfered.                    *)
(*                                                                         *)
(* A borrow that ends in debt loads zeroTime once more to say how long to  *)
(* sleep; that load moves nothing and is left out, as is the sleep.        *)
(***************************************************************************)
EXTENDS BucketCalls

CONSTANT MaxCalls  \* bound on the calls each thread makes

ASSUME SharedAssumption == MaxCalls \in Nat

VARIABLES
  clock,        \* the steady clock
  zeroTime,     \* the atomic zeroTime_
  call,         \* call[t]: what thread t is doing
  ledger,       \* history, as in AtomicTokenBucket
  writtenOff,   \* history, as in AtomicTokenBucket
  window,       \* history, as in AtomicTokenBucket
  pc,           \* where each thread stands in its round
  zeroTimeOld,  \* the value each thread expects in the exchange
  calls         \* calls made by each thread

vars ==
  <<clock, zeroTime, call, ledger, writtenOff, window, pc, zeroTimeOld, calls>>

\* The history that the steps of the loop that draw nothing leave alone.
history == <<ledger, writtenOff, window>>

Init ==
  /\ clock = StartTime
  /\ zeroTime = FullStartZeroTime(StartTime)
  /\ call = [t \in Threads |-> NoCall]
  /\ ledger = 0
  /\ writtenOff = 0
  /\ window = WindowFrom(StartTime)
  /\ pc = [t \in Threads |-> "idle"]
  /\ zeroTimeOld = [t \in Threads |-> 0]
  /\ calls = [t \in Threads |-> 0]

InCall == {t \in Threads : call[t].doing # "nothing"}

\* Where a round of call c begins; a value once expected is forgotten.
Entry(c) ==
  IF c.doing = "nothing" THEN "idle" ELSE IF Takes(c) THEN "balance" ELSE "load"

\* Thread t goes on with call c, from the beginning of a round.
GoOn(t, c) ==
  /\ call' = [call EXCEPT ![t] = c]
  /\ pc' = [pc EXCEPT ![t] = Entry(c)]
  /\ zeroTimeOld' = [zeroTimeOld EXCEPT ![t] = 0]

Tick ==
  /\ clock < MaxTime
  /\ clock' = clock + 1
  /\ UNCHANGED <<zeroTime, call, history, pc, zeroTimeOld, calls>>

OpenWindow(s) ==
  /\ s <= clock
  /\ \A t \in InCall : call[t].now >= s
  /\ window' = WindowFrom(s)
  /\ UNCHANGED <<clock, zeroTime, call, ledger, writtenOff, pc, zeroTimeOld, calls>>

\* The call reads the clock; a borrow of more than the burst size returns
\* nullopt here.
Invoke(t, r) ==
  /\ call[t].doing = "nothing"
  /\ calls[t] < MaxCalls
  /\ r.op = "borrow" => r.cost <= Capacity
  /\ GoOn(t, [doing |-> r.op, now |-> clock, cost |-> r.cost])
  /\ calls' = [calls EXCEPT ![t] = @ + 1]
  /\ UNCHANGED <<clock, zeroTime, history>>

\* The first load: a bucket in debt, or empty for a drain, refuses without
\* entering the loop.
CheckBalance(t) ==
  /\ pc[t] = "balance"
  /\ IF RefusedAtOnce(call[t], zeroTime)
     THEN GoOn(t, Continued(call[t], 0))
     ELSE /\ pc' = [pc EXCEPT ![t] = "load"]
          /\ UNCHANGED <<call, zeroTimeOld>>
  /\ UNCHANGED <<clock, zeroTime, history, calls>>

\* Thread t holds the value it will expect in the exchange.
Loaded(t) ==
  /\ pc' = [pc EXCEPT ![t] = "exchange"]
  /\ zeroTimeOld' = [zeroTimeOld EXCEPT ![t] = zeroTime]
  /\ UNCHANGED call

\* A slip: the loop goes on without asking whether there is anything to take.
LoadUnchecked(t) ==
  /\ pc[t] = "load"
  /\ Loaded(t)
  /\ UNCHANGED <<clock, zeroTime, history, calls>>

\* A slip: the loop waits for the tokens instead of refusing.
LoadSpins(t) ==
  /\ pc[t] = "load"
  /\ IF Drawn(call[t], zeroTime) = 0
     THEN UNCHANGED <<call, pc, zeroTimeOld>>
     ELSE Loaded(t)
  /\ UNCHANGED <<clock, zeroTime, history, calls>>

\* The head of the loop: load again and ask the callback, which ends the loop
\* by drawing nothing.
Load(t) ==
  /\ pc[t] = "load"
  /\ IF Drawn(call[t], zeroTime) = 0
     THEN GoOn(t, Continued(call[t], 0))
     ELSE Loaded(t)
  /\ UNCHANGED <<clock, zeroTime, history, calls>>

\* The history of a round that drew so many tokens: a negative count drawn by
\* a drain is written off, and everything else is drawn or given back.
Booked(t, drawn) ==
  /\ ledger' = ledger + drawn + Erased(call[t], drawn)
  /\ writtenOff' = writtenOff + Erased(call[t], drawn)
  /\ window' = Observed(window, call[t], drawn)

\* A slip: a plain store in place of the exchange.
ExchangeBlind(t) ==
  LET drawn == Drawn(call[t], zeroTimeOld[t])
  IN  /\ pc[t] = "exchange"
      /\ zeroTime' = Stored(call[t], zeroTimeOld[t])
      /\ Booked(t, drawn)
      /\ GoOn(t, Continued(call[t], drawn))
      /\ UNCHANGED <<clock, calls>>

\* compare_exchange_weak stores the value computed from zeroTimeOld.
ExchangeSucceeds(t) ==
  LET drawn == Drawn(call[t], zeroTimeOld[t])
  IN  /\ pc[t] = "exchange"
      /\ zeroTime = zeroTimeOld[t]
      /\ zeroTime' = Stored(call[t], zeroTimeOld[t])
      /\ Booked(t, drawn)
      /\ GoOn(t, Continued(call[t], drawn))
      /\ UNCHANGED <<clock, calls>>

\* It fails when zeroTime has moved, and may fail for no reason.  The loop of
\* consume loads again; that of returnTokens takes the value the exchange read.
ExchangeFails(t) ==
  /\ pc[t] = "exchange"
  /\ IF Takes(call[t])
     THEN /\ pc' = [pc EXCEPT ![t] = "load"]
          /\ zeroTimeOld' = [zeroTimeOld EXCEPT ![t] = 0]
          /\ UNCHANGED call
     ELSE Loaded(t)
  /\ UNCHANGED <<clock, zeroTime, history, calls>>

Next ==
  \/ Tick
  \/ \E s \in 0..MaxTime : OpenWindow(s)
  \/ \E t \in Threads : \/ \E r \in Requests : Invoke(t, r)
                        \/ CheckBalance(t)
                        \/ Load(t)
                        \/ ExchangeSucceeds(t)
                        \/ ExchangeFails(t)

Spec == Init /\ [][Next]_vars

\* A running thread keeps running; an exchange that keeps finding the value
\* it expects does not fail for no reason for ever.
Fairness ==
  \A t \in Threads : /\ WF_vars(CheckBalance(t))
                     /\ WF_vars(Load(t))
                     /\ WF_vars(ExchangeFails(t))
                     /\ SF_vars(ExchangeSucceeds(t))

FairSpec == Spec /\ Fairness

-----------------------------------------------------------------------------
\* A thread that is inside a call stands in a round of it, and one between the
\* load and the exchange has something to draw from the value it expects.
RoundsInv ==
  \A t \in Threads :
    /\ pc[t] = "idle" <=> call[t].doing = "nothing"
    /\ pc[t] = "balance" => Takes(call[t])
    /\ pc[t] = "exchange" => Drawn(call[t], zeroTimeOld[t]) # 0

\* The values the variables range over.
TypeOK ==
  /\ clock \in Nat
  /\ zeroTime \in Int
  /\ call \in [Threads -> Calls]
  /\ ledger \in Int
  /\ writtenOff \in Nat
  /\ window \in Windows
  /\ pc \in [Threads -> {"idle", "balance", "load", "exchange"}]
  /\ zeroTimeOld \in [Threads -> Int]
  /\ calls \in [Threads -> 0..MaxCalls]

\* The two together are what the proofs carry from step to step.
SharedInv == TypeOK /\ RoundsInv

\* Each call is seen by the abstract bucket as under way from its invocation
\* to its return; what a thread has loaded and where it stands in the loop is
\* invisible, and the rest of the state is the same.
Atomic == INSTANCE AtomicTokenBucket WITH DrainsRace <- FALSE

\* The same bucket, on which drains may also write off a balance below zero.
Racing == INSTANCE AtomicTokenBucket WITH DrainsRace <- TRUE

\* The lock-free consume and returnTokens implement the atomic ones: what a
\* round draws is decided on the value the exchange replaces, and a refusal on
\* a value the bucket had during the call, whatever the other threads do in
\* between.  True of callers that neither drain nor borrow.
ImplementsAtomic == Atomic!Spec

Undrained == \A r \in Requests : r.op \in {"consume", "give"}

\* With drains and borrows the bucket is not atomic, and strays from the
\* atomic one in one way only: every round is an atomic one, except that a
\* drain, or the drain a borrow begins with, may bring a balance that is below
\* zero for the time of its call up to zero, drawing a negative count.
OnlyDrainsStray == Racing!Spec

\* Until a drain has written something off, nobody gets more than one bucket
\* and the refill of the interval, which a debit lost between two exchanges
\* would allow.
WindowBound == Racing!WindowBound

\* No draw, debt or return is lost between two exchanges, except for what
\* drains have written off.
LedgerBound == Racing!LedgerBound

\* And of callers that neither drain nor borrow: what they are granted, less
\* what they give back, is never more than one bucket and the refill since the
\* start, nothing written off and no debt allowed for.
NeverOverdrawn == ledger <= Capacity + Rate * (clock - StartTime)

\* Every call returns: a thread goes round a loop again only because some
\* other call moved the bucket, and the calls of the others are finitely many;
\* and a borrow has less to take on each of its rounds.
CallsReturn == \A t \in Threads : call[t].doing # "nothing" ~> call[t].doing = "nothing"
=============================================================================
