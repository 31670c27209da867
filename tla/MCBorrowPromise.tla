-------------------------- MODULE MCBorrowPromise --------------------------
(***************************************************************************)
(* What consumeWithBorrowNonBlocking says of the reservation it returns:   *)
(* until the time it names, every consume and consumeOrDrain fails to      *)
(* allocate any tokens.  Nobody gives tokens back here, so a promise once  *)
(* made is never taken back by its holder.                                 *)
(***************************************************************************)
EXTENDS SharedTokenBucket

VARIABLE promised  \* history: the latest instant a borrow was told to wait for

MCRequests ==
  {[op |-> "drain", cost |-> 3], [op |-> "borrow", cost |-> 2]}

promiseVars == <<vars, promised>>

\* The exchange of thread t goes through and moves the bucket.
Exchanges(t) ==
  pc[t] = "exchange" /\ pc'[t] # "exchange" /\ zeroTime' # zeroTime

\* A borrow runs the bucket into debt and is told when the debt is repaid.
Owes(t) == Exchanges(t) /\ call[t].doing = "owe"

\* A round of a consume, a drain or a borrow is granted tokens.
Allocates(t) ==
  Exchanges(t) /\ Takes(call[t]) /\ Drawn(call[t], zeroTimeOld[t]) > 0

PromiseInit == Init /\ promised = 0

PromiseNext ==
  /\ Next
  /\ promised' = IF \E t \in Threads : Owes(t) /\ zeroTime' > promised
                 THEN zeroTime' ELSE promised

PromiseSpec == PromiseInit /\ [][PromiseNext]_promiseVars

\* The promise: whoever is granted tokens has called at or after the instant
\* at which the debts made so far are repaid.
DebtRespected ==
  [][\A t \in Threads :
       Allocates(t) => Rate * call[t].now >= promised]_promiseVars
=============================================================================
