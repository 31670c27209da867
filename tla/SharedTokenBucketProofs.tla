---------------------- MODULE SharedTokenBucketProofs ----------------------
(***************************************************************************)
(* What one round of a call may do, the two bounds, and how close the      *)
(* lock-free bucket comes to the atomic one: it implements it for callers  *)
(* that neither drain nor borrow, and for all others strays from it only   *)
(* by what drains write off.  All for every number of threads, every       *)
(* capacity and rate, every request and every failure of the exchange.     *)
(***************************************************************************)
EXTENDS SharedTokenBucket, TokenBucketProofs

\* A call under way has a time and asks for a positive number of tokens.
LEMMA CallTypes ==
  ASSUME NEW c \in Calls, c.doing # "nothing"
  PROVE  /\ c \in [doing : Operations \cup {"owe"}, now : Nat, cost : Nat \ {0}]
         /\ c.doing \in {"consume", "drain", "borrow", "give", "owe"}
         /\ c.now \in Nat
         /\ c.cost \in Nat \ {0}
<1>1. c # NoCall
  BY DEF NoCall
<1> QED
  BY <1>1 DEF Calls, Operations

\* A round draws at most what the call asks for, and, when it takes from the
\* balance, at most the balance, unless it draws nothing.
LEMMA DrawnBounds ==
  ASSUME NEW c \in Calls, c.doing # "nothing", NEW z \in Int
  PROVE  /\ Drawn(c, z) \in Int
         /\ Drawn(c, z) <= c.cost
         /\ Takes(c) /\ Drawn(c, z) > 0 => Balance(z, c.now) >= Drawn(c, z)
<1>1. /\ c.doing \in {"consume", "drain", "borrow", "give", "owe"}
      /\ c.now \in Nat /\ c.cost \in Nat
  BY CallTypes
<1>2. Balance(z, c.now) \in Int
  BY <1>1, BalanceIsInteger
<1>3. CASE c.doing = "consume"
  BY <1>1, <1>2, <1>3 DEF Drawn, Affordable
<1>4. CASE c.doing \in {"give", "owe"}
  BY <1>1, <1>2, <1>4 DEF Drawn, Takes
<1>5. CASE c.doing \in {"drain", "borrow"}
  BY <1>1, <1>2, <1>5 DEF Drawn
<1> QED
  BY <1>1, <1>3, <1>4, <1>5

\* zeroTime rises by at least what a round draws: tokens drawn are never paid
\* with less than a token, and tokens handed back never buy more than one.
LEMMA StoredBounds ==
  ASSUME NEW c \in Calls, c.doing # "nothing", NEW z \in Int,
         NEW f \in Nat, f <= c.now
  PROVE  /\ Stored(c, z) \in Int
         /\ Stored(c, z) >= z + Drawn(c, z)
         /\ FullStartZeroTime(f) \in Int
         /\ Takes(c) => Stored(c, z) >= FullStartZeroTime(f) + Drawn(c, z)
         /\ Takes(c) /\ Drawn(c, z) > 0 => Stored(c, z) <= Rate * c.now
<1>1. c.now \in Nat /\ Drawn(c, z) \in Int
  BY CallTypes, DrawnBounds
<1>2. FullStartZeroTime(f) \in Int
  BY <1>1, DrawBounds
<1>3. CASE Takes(c)
  <2>1. Stored(c, z) = Debited(z, Drawn(c, z), c.now)
    BY <1>3 DEF Stored
  <2> QED
    BY <1>1, <1>3, <2>1, DrawBounds, DrawnBounds
<1>4. CASE ~Takes(c)
  BY <1>1, <1>2, <1>4 DEF Stored
<1> QED
  BY <1>3, <1>4

\* What is left of a call is a call, made with the same time.
LEMMA ContinuedCall ==
  ASSUME NEW c \in Calls, c.doing # "nothing", NEW d \in Int, d <= c.cost
  PROVE  /\ Continued(c, d) \in Calls
         /\ Continued(c, d).doing # "nothing" => Continued(c, d).now = c.now
<1>1. /\ c \in [doing : Operations \cup {"owe"}, now : Nat, cost : Nat \ {0}]
      /\ c.cost \in Nat \ {0}
  BY CallTypes
<1>2. CASE c.doing # "borrow" \/ d = c.cost
  BY <1>2 DEF Continued, Calls, NoCall
<1>3. CASE c.doing = "borrow" /\ d # c.cost /\ d > 0
  <2>1. c.cost - d \in Nat \ {0}
    BY <1>1, <1>3
  <2>2. Continued(c, d) = [c EXCEPT !.cost = c.cost - d]
    BY <1>3 DEF Continued
  <2> QED
    BY <1>1, <2>1, <2>2 DEF Calls
<1>4. CASE c.doing = "borrow" /\ d # c.cost /\ ~(d > 0)
  <2>1. Continued(c, d) = [c EXCEPT !.doing = "owe"]
    BY <1>4 DEF Continued
  <2> QED
    BY <1>1, <2>1 DEF Calls
<1> QED
  BY <1>2, <1>3, <1>4

\* The quick look refuses nothing that the loop would have taken.
LEMMA RefusalsAgree ==
  ASSUME NEW c \in Calls, c.doing # "nothing", NEW z \in Int
  PROVE  /\ RefusedAtOnce(c, z) => NothingToTake(c, z)
         /\ Drawn(c, z) = 0 => NothingToTake(c, z)
<1>1. /\ c.doing \in {"consume", "drain", "borrow", "give", "owe"}
      /\ c.now \in Nat /\ c.cost \in Nat \ {0}
  BY CallTypes
<1>2. Balance(z, c.now) \in Int
  BY <1>1, BalanceIsInteger
<1>3. CASE c.doing = "consume"
  BY <1>1, <1>2, <1>3 DEF Drawn, RefusedAtOnce, NothingToTake, Affordable
<1>4. CASE c.doing \in {"give", "owe"}
  BY <1>1, <1>4 DEF Drawn, RefusedAtOnce, Takes
<1>5. CASE c.doing \in {"drain", "borrow"}
  BY <1>1, <1>2, <1>5 DEF Drawn, RefusedAtOnce, NothingToTake, Takes
<1> QED
  BY <1>1, <1>3, <1>4, <1>5

-----------------------------------------------------------------------------
\* The abstract bucket speaks of the same rounds: the one on which drains may
\* write off, of which the bounds are proved, and the atomic one.
LEMMA SameRounds ==
  /\ \A c, z : Racing!Drawn(c, z) = Drawn(c, z)
  /\ \A c, z : Racing!Stored(c, z) = Stored(c, z)
  /\ \A c, d : Racing!Continued(c, d) = Continued(c, d)
  /\ \A c, z : Racing!NothingToTake(c, z) = NothingToTake(c, z)
  /\ \A w, c, d : Racing!Observed(w, c, d) = Observed(w, c, d)
  /\ \A c, d : Racing!Erased(c, d) = Erased(c, d)
  /\ \A z, n : Racing!Balance(z, n) = Balance(z, n)
  /\ \A s : Racing!WindowFrom(s) = WindowFrom(s)
  /\ \A s : Racing!FullStartZeroTime(s) = FullStartZeroTime(s)
  /\ Racing!Closed = Closed
  /\ Racing!NoCall = NoCall
  /\ Racing!Calls = Calls
  /\ Racing!Windows = Windows
  /\ Racing!InCall = InCall
<1> USE DEF Racing!Takes, Takes, Racing!Balance, Balance,
            Racing!Affordable, Affordable, Racing!Debited, Debited
<1>1. \A c, z : Racing!Drawn(c, z) = Drawn(c, z)
  BY DEF Racing!Drawn, Drawn
<1>2. \A c, z : Racing!Stored(c, z) = Stored(c, z)
  BY <1>1 DEF Racing!Stored, Stored
<1>3. \A c, d : Racing!Continued(c, d) = Continued(c, d)
  BY DEF Racing!Continued, Continued, Racing!NoCall, NoCall
<1>4. \A c, z : Racing!NothingToTake(c, z) = NothingToTake(c, z)
  BY DEF Racing!NothingToTake, NothingToTake
<1>5. \A w, c, d : Racing!Observed(w, c, d) = Observed(w, c, d)
  BY DEF Racing!Observed, Observed, Racing!Closed, Closed
<1>6. \A c, d : Racing!Erased(c, d) = Erased(c, d)
  BY DEF Racing!Erased, Erased
<1> QED
  BY <1>1, <1>2, <1>3, <1>4, <1>5, <1>6
  DEF Racing!WindowFrom, WindowFrom, Racing!FullStartZeroTime, FullStartZeroTime,
      Racing!NoCall, NoCall, Racing!InCall, InCall, Racing!Closed, Closed,
      Racing!Calls, Calls, Racing!Operations, Operations, Racing!Windows, Windows

\* A round that moves the bucket, whether it draws, owes, hands back or writes
\* off: what it does to the history.
Moves(t) ==
  LET drawn == Drawn(call[t], zeroTime)
  IN  /\ call[t].doing # "nothing"
      /\ drawn # 0
      /\ zeroTime' = Stored(call[t], zeroTime)
      /\ call' = [call EXCEPT ![t] = Continued(call[t], drawn)]
      /\ ledger' = ledger + drawn + Erased(call[t], drawn)
      /\ writtenOff' = writtenOff + Erased(call[t], drawn)
      /\ window' = Observed(window, call[t], drawn)
      /\ clock' = clock

\* A round that draws something takes effect as a round of the atomic bucket,
\* or it is a drain that writes off a balance below zero.
LEMMA MovesSplit ==
  ASSUME NEW c \in Calls, c.doing # "nothing", NEW z \in Int
  PROVE  /\ Erased(c, Drawn(c, z)) \in Nat
         /\ ~NothingToTake(c, z) => /\ Drawn(c, z) # 0
                                    /\ Erased(c, Drawn(c, z)) = 0
         /\ NothingToTake(c, z) /\ Drawn(c, z) # 0
              => /\ c.doing \in {"drain", "borrow"}
                 /\ Balance(z, c.now) < 0
         /\ c.doing \in {"drain", "borrow"} /\ Balance(z, c.now) < 0
              => /\ Drawn(c, z) < 0
                 /\ Erased(c, Drawn(c, z)) = -Drawn(c, z)
                 /\ \A w : Observed(w, c, Drawn(c, z)) = Closed
<1>1. /\ c.doing \in {"consume", "drain", "borrow", "give", "owe"}
      /\ c.now \in Nat /\ c.cost \in Nat \ {0}
  BY CallTypes
<1>2. Balance(z, c.now) \in Int
  BY <1>1, BalanceIsInteger
<1>3. CASE c.doing = "consume"
  <2>1. Takes(c) /\ Drawn(c, z) \in {0, c.cost}
    BY <1>3 DEF Takes, Drawn
  <2> QED
    BY <1>1, <1>2, <1>3, <2>1 DEF Drawn, Erased, NothingToTake, Affordable
<1>4. CASE c.doing \in {"give", "owe"}
  <2>1. ~Takes(c) /\ Drawn(c, z) \in {c.cost, -c.cost}
    BY <1>4 DEF Takes, Drawn
  <2> QED
    BY <1>1, <1>4, <2>1 DEF Erased, NothingToTake
<1>5. CASE c.doing \in {"drain", "borrow"}
  <2>1. /\ Takes(c)
        /\ Drawn(c, z) = IF c.cost <= Balance(z, c.now) THEN c.cost ELSE Balance(z, c.now)
        /\ NothingToTake(c, z) <=> Balance(z, c.now) <= 0
    BY <1>5 DEF Takes, Drawn, NothingToTake
  <2> QED
    BY <1>1, <1>2, <1>5, <2>1 DEF Erased, Observed
<1> QED
  BY <1>1, <1>3, <1>4, <1>5

\* It keeps the books: the case every bound rests on.
LEMMA MovesKeepWindowInv ==
  ASSUME Racing!WindowInv, NEW t \in Threads, Moves(t)
  PROVE  Racing!WindowInv'
<1> DEFINE c == call[t]
           drawn == Drawn(c, zeroTime)
<1>1. /\ Racing!TypeOK
      /\ Rate \in Nat /\ Capacity \in Nat /\ StartTime \in Nat
      /\ c \in Calls /\ c.doing # "nothing"
      /\ zeroTime \in Int /\ clock \in Nat /\ ledger \in Int /\ writtenOff \in Nat
      /\ window \in Windows
  BY BucketAssumption, CallsAssumption, SameRounds DEF Racing!WindowInv, Racing!TypeOK, Moves
<1>2. c.now \in window.from .. clock /\ window.from \in Nat /\ window.granted \in Nat
  BY <1>1, SameRounds DEF Racing!WindowInv, Racing!InCall, Windows
<1>3. /\ zeroTime' = Stored(c, zeroTime)
      /\ call' = [call EXCEPT ![t] = Continued(c, drawn)]
      /\ ledger' = ledger + drawn + Erased(c, drawn)
      /\ writtenOff' = writtenOff + Erased(c, drawn)
      /\ window' = Observed(window, c, drawn)
      /\ clock' = clock
      /\ drawn # 0
  BY DEF Moves
<1>4. /\ drawn \in Int
      /\ drawn <= c.cost
      /\ Erased(c, drawn) \in Nat
  BY <1>1, DrawnBounds, MovesSplit
<1>5. /\ zeroTime' \in Int
      /\ zeroTime' >= zeroTime + drawn
      /\ FullStartZeroTime(window.from) \in Int
      /\ Takes(c) => zeroTime' >= FullStartZeroTime(window.from) + drawn
      /\ Takes(c) /\ drawn > 0 => zeroTime' <= Rate * c.now
  BY <1>1, <1>2, <1>3, StoredBounds
<1>6. /\ Continued(c, drawn) \in Calls
      /\ Continued(c, drawn).doing # "nothing" => Continued(c, drawn).now = c.now
  BY <1>1, <1>4, ContinuedCall
<1>7. Rate * c.now <= Rate * clock /\ Rate * c.now \in Int /\ Rate * clock \in Int
  BY <1>1, <1>2
<1> HIDE DEF c, drawn
<1>8. \/ window' = [window EXCEPT !.granted = window.granted + drawn] /\ Takes(c) /\ drawn > 0
      \/ window' = Closed
  BY <1>3, <1>4 DEF Observed
<1>9. /\ window' \in Windows
      /\ window'.from \in Nat
      /\ window'.from <= window.from
  <2>1. CASE window' = Closed
    BY <1>2, <2>1 DEF Closed, Windows
  <2>2. CASE window' = [window EXCEPT !.granted = window.granted + drawn] /\ drawn > 0
    <3>1. window.granted + drawn \in Nat
      BY <1>2, <1>4, <2>2
    <3> QED
      BY <1>1, <1>2, <2>2, <3>1 DEF Windows
  <2> QED
    BY <1>8, <2>1, <2>2
<1>10. Racing!TypeOK'
  BY <1>1, <1>3, <1>4, <1>5, <1>6, <1>9, SameRounds DEF Racing!TypeOK
<1>11. StartTime <= clock' /\ window'.from <= clock'
  BY <1>1, <1>2, <1>3, <1>9, SameRounds DEF Racing!WindowInv
<1>12. ASSUME NEW u \in Racing!InCall' PROVE call'[u].now \in window'.from .. clock'
  <2>1. u \in Threads /\ call'[u].doing # "nothing"
    BY <1>12, SameRounds DEF Racing!InCall
  <2>2. CASE u = t
    <3>1. call'[u] = Continued(c, drawn)
      BY <1>1, <1>3, <2>1, <2>2, SameRounds DEF Racing!TypeOK
    <3>2. call'[u].now = c.now
      BY <1>6, <2>1, <3>1
    <3> QED
      BY <1>1, <1>2, <1>3, <1>9, <3>2
  <2>3. CASE u # t
    <3>1. call'[u] = call[u] /\ u \in Racing!InCall
      BY <1>1, <1>3, <2>1, <2>3, SameRounds DEF Racing!TypeOK, Racing!InCall
    <3>2. call[u].now \in window.from .. clock
      BY <3>1, SameRounds DEF Racing!WindowInv
    <3> QED
      BY <1>1, <1>2, <1>3, <1>9, <3>1, <3>2
  <2> QED
    BY <2>2, <2>3
<1>13. zeroTime' >= FullStartZeroTime(StartTime) + ledger' - writtenOff'
  <2>1. FullStartZeroTime(StartTime) \in Int
    BY <1>1 DEF FullStartZeroTime
  <2>2. zeroTime >= FullStartZeroTime(StartTime) + ledger - writtenOff
    BY SameRounds DEF Racing!WindowInv
  <2> QED
    BY <1>1, <1>3, <1>4, <1>5, <2>1, <2>2
<1>14. \/ window'.granted = 0
       \/ /\ zeroTime' <= Rate * clock'
          /\ zeroTime' >= FullStartZeroTime(window'.from) + window'.granted
  <2>1. CASE window' = Closed
    BY <2>1 DEF Closed
  <2>2. CASE window' = [window EXCEPT !.granted = window.granted + drawn] /\ Takes(c) /\ drawn > 0
    <3>1. window'.from = window.from /\ window'.granted = window.granted + drawn
      BY <1>1, <2>2 DEF Windows
    <3>2. zeroTime' <= Rate * clock'
      BY <1>1, <1>3, <1>5, <1>7, <2>2
    <3>3. zeroTime' >= FullStartZeroTime(window.from) + (window.granted + drawn)
      <4>1. CASE window.granted = 0
        BY <1>4, <1>5, <2>2, <4>1
      <4>2. CASE zeroTime >= FullStartZeroTime(window.from) + window.granted
        BY <1>1, <1>2, <1>4, <1>5, <4>2
      <4> QED
        BY <4>1, <4>2, SameRounds DEF Racing!WindowInv
    <3> QED
      BY <3>1, <3>2, <3>3
  <2> QED
    BY <1>8, <2>1, <2>2
<1> QED
  BY <1>10, <1>11, <1>12, <1>13, <1>14, SameRounds DEF Racing!WindowInv, FullStartZeroTime

\* The inductive invariant behind both bounds holds in every reachable state.
THEOREM WindowInvariance == Racing!Spec => []Racing!WindowInv
<1>1. Racing!Init => Racing!WindowInv
  <2> SUFFICES ASSUME Racing!Init PROVE Racing!WindowInv
    OBVIOUS
  <2>1. Rate * StartTime \in Int /\ Capacity \in Nat
    BY BucketAssumption, CallsAssumption
  <2>2. Racing!InCall = {}
    BY SameRounds DEF Racing!Init, Racing!InCall, NoCall
  <2>3. /\ clock = StartTime /\ zeroTime = Rate * StartTime - Capacity
        /\ call = [t \in Threads |-> NoCall]
        /\ ledger = 0
        /\ writtenOff = 0
        /\ window = WindowFrom(StartTime)
    BY SameRounds DEF Racing!Init, FullStartZeroTime
  <2>4. Racing!TypeOK
    BY <2>1, <2>3, CallsAssumption, SameRounds DEF Racing!TypeOK, Calls, Windows, WindowFrom
  <2> QED
    BY <2>1, <2>2, <2>3, <2>4, CallsAssumption, SameRounds
    DEF Racing!WindowInv, FullStartZeroTime, WindowFrom
<1>2. Racing!WindowInv /\ [Racing!Next]_(Racing!bucketVars) => Racing!WindowInv'
  <2> SUFFICES ASSUME Racing!WindowInv, [Racing!Next]_(Racing!bucketVars) PROVE Racing!WindowInv'
    OBVIOUS
  <2>0. /\ Racing!TypeOK /\ Rate \in Nat /\ Capacity \in Nat
        /\ MaxTime \in Nat /\ StartTime \in Nat
    BY BucketAssumption, CallsAssumption, SameRounds DEF Racing!WindowInv
  <2>1. CASE Racing!Tick
    <3>1. clock' \in Nat /\ Rate * clock <= Rate * clock'
      BY <2>0, <2>1, SameRounds DEF Racing!Tick, Racing!TypeOK
    <3>2. Rate * clock \in Int /\ Rate * clock' \in Int
      BY <2>0, <3>1, SameRounds DEF Racing!TypeOK
    <3>3. zeroTime <= Rate * clock => zeroTime' <= Rate * clock'
      BY <2>0, <2>1, <3>1, <3>2, SameRounds DEF Racing!Tick, Racing!TypeOK
    <3>4. Racing!InCall' = Racing!InCall
      BY <2>1, SameRounds DEF Racing!Tick, Racing!InCall
    <3> QED
      BY <2>0, <2>1, <3>1, <3>3, <3>4, SameRounds
      DEF Racing!Tick, Racing!WindowInv, Racing!TypeOK, Windows, Calls, Racing!InCall, NoCall
  <2>2. ASSUME NEW s \in 0..MaxTime, Racing!OpenWindow(s) PROVE Racing!WindowInv'
    <3>1. window' = WindowFrom(s) /\ s \in Nat
      BY <2>0, <2>2, SameRounds DEF Racing!OpenWindow
    <3>2. \A t \in Racing!InCall' : call'[t].now \in s .. clock'
      BY <2>0, <2>2, <3>1, SameRounds DEF Racing!OpenWindow, Racing!WindowInv, Racing!TypeOK, Racing!InCall, Windows
    <3> QED
      BY <2>0, <2>2, <3>1, <3>2, SameRounds DEF Racing!OpenWindow, Racing!WindowInv, Racing!TypeOK, WindowFrom, Windows
  <2>3. ASSUME NEW t \in Threads, NEW r \in Requests, Racing!Invoke(t, r)
        PROVE  Racing!WindowInv'
    <3> DEFINE c == [doing |-> r.op, now |-> clock, cost |-> r.cost]
    <3>1. r \in [op : Operations, cost : Nat \ {0}] /\ clock \in Nat
      BY <2>0, CallsAssumption, SameRounds DEF Racing!TypeOK
    <3>2. c \in Calls
      BY <3>1 DEF Calls
    <3>3. call' = [call EXCEPT ![t] = c]
      BY <2>3, SameRounds DEF Racing!Invoke
    <3>4. Racing!TypeOK'
      BY <2>0, <2>3, <3>2, <3>3, SameRounds DEF Racing!Invoke, Racing!TypeOK
    <3>5. window.from \in Nat /\ window.from <= clock
      BY <2>0, SameRounds DEF Racing!WindowInv, Racing!TypeOK, Windows
    <3>6. ASSUME NEW u \in Racing!InCall' PROVE call'[u].now \in window.from .. clock
      <4>1. CASE u = t
        BY <2>0, <3>1, <3>3, <3>5, <4>1, SameRounds DEF Racing!TypeOK
      <4>2. CASE u # t
        BY <2>0, <3>3, <3>6, <4>2, SameRounds DEF Racing!TypeOK, Racing!InCall, Racing!WindowInv
      <4> QED
        BY <4>1, <4>2
    <3> QED
      BY <2>3, <3>4, <3>6, SameRounds DEF Racing!Invoke, Racing!WindowInv
  <2>3a. ASSUME NEW t \in Threads, call[t].doing # "nothing"
         PROVE  call[t] \in Calls /\ zeroTime \in Int /\ ledger \in Int /\ writtenOff \in Nat
    BY <2>0, <2>3a, SameRounds DEF Racing!TypeOK
  <2>4. ASSUME NEW t \in Threads, Racing!TakeEffect(t) PROVE Racing!WindowInv'
    <3> DEFINE drawn == Drawn(call[t], zeroTime)
    <3>1. call[t].doing # "nothing" /\ ~NothingToTake(call[t], zeroTime)
      BY <2>4, SameRounds DEF Racing!TakeEffect
    <3>2. /\ drawn # 0
          /\ Erased(call[t], drawn) = 0
          /\ drawn \in Int
      BY <2>3a, <3>1, MovesSplit, DrawnBounds
    <3>3. /\ zeroTime' = Stored(call[t], zeroTime)
          /\ call' = [call EXCEPT ![t] = Continued(call[t], drawn)]
          /\ ledger' = ledger + drawn /\ writtenOff' = writtenOff
          /\ window' = Observed(window, call[t], drawn)
          /\ clock' = clock
      BY <2>4, SameRounds DEF Racing!TakeEffect
    <3> HIDE DEF drawn
    <3>4. /\ ledger' = ledger + drawn + Erased(call[t], drawn)
          /\ writtenOff' = writtenOff + Erased(call[t], drawn)
      BY <2>3a, <3>1, <3>2, <3>3
    <3>5. Moves(t)
      BY <3>1, <3>2, <3>3, <3>4 DEF Moves, drawn
    <3> QED
      BY <3>5, MovesKeepWindowInv
  <2>4a. ASSUME NEW t \in Threads, Racing!WriteOff(t) PROVE Racing!WindowInv'
    <3> DEFINE drawn == Drawn(call[t], zeroTime)
    <3>1. call[t].doing \in {"drain", "borrow"} /\ Balance(zeroTime, call[t].now) < 0
      BY <2>4a, SameRounds DEF Racing!WriteOff
    <3>2. /\ drawn < 0
          /\ Erased(call[t], drawn) = -drawn
          /\ drawn \in Int
          /\ Observed(window, call[t], drawn) = Closed
      BY <2>3a, <3>1, MovesSplit, DrawnBounds
    <3>3. /\ zeroTime' = Stored(call[t], zeroTime)
          /\ call' = [call EXCEPT ![t] = Continued(call[t], drawn)]
          /\ ledger' = ledger /\ writtenOff' = writtenOff + Erased(call[t], drawn)
          /\ window' = Closed
          /\ clock' = clock
      BY <2>4a, SameRounds DEF Racing!WriteOff
    <3> HIDE DEF drawn
    <3>4. /\ ledger' = ledger + drawn + Erased(call[t], drawn)
          /\ writtenOff' = writtenOff + Erased(call[t], drawn)
      BY <2>3a, <3>1, <3>2, <3>3
    <3>5. Moves(t)
      BY <3>1, <3>2, <3>3, <3>4 DEF Moves, drawn
    <3> QED
      BY <3>5, MovesKeepWindowInv
  <2>5. ASSUME NEW t \in Threads, Racing!TakeNothing(t) PROVE Racing!WindowInv'
    <3>1. call[t] \in Calls /\ call[t].doing # "nothing" /\ 0 <= call[t].cost
      BY <2>0, <2>5, CallTypes, SameRounds DEF Racing!TakeNothing, Racing!TypeOK
    <3>2. /\ Continued(call[t], 0) \in Calls
          /\ Continued(call[t], 0).doing # "nothing" => Continued(call[t], 0).now = call[t].now
      BY <3>1, ContinuedCall
    <3>3. call' = [call EXCEPT ![t] = Continued(call[t], 0)]
      BY <2>5, SameRounds DEF Racing!TakeNothing
    <3>4. Racing!TypeOK'
      BY <2>0, <2>5, <3>2, <3>3, SameRounds DEF Racing!TakeNothing, Racing!TypeOK
    <3>5. ASSUME NEW u \in Racing!InCall' PROVE call'[u].now \in window.from .. clock
      <4>1. u \in Racing!InCall /\ call'[u].now = call[u].now
        BY <2>0, <2>5, <3>2, <3>3, <3>5, SameRounds DEF Racing!TypeOK, Racing!InCall, Racing!TakeNothing
      <4> QED
        BY <4>1, SameRounds DEF Racing!WindowInv
    <3> QED
      BY <2>5, <3>4, <3>5, SameRounds DEF Racing!TakeNothing, Racing!WindowInv
  <2>6. CASE UNCHANGED Racing!bucketVars
    BY <2>6, SameRounds DEF Racing!bucketVars, Racing!WindowInv, Racing!TypeOK, Racing!InCall
  <2> QED
    BY <2>1, <2>2, <2>3, <2>4, <2>4a, <2>5, <2>6, SameRounds DEF Racing!Next
<1> QED
  BY <1>1, <1>2, PTL, SameRounds DEF Racing!Spec

\* Whatever the threads ask for and in whatever order their calls take effect,
\* a window never sees more than one bucket and its refill granted.
THEOREM WindowBounded == Racing!Spec => []Racing!WindowBound
<1>1. Racing!WindowInv => Racing!WindowBound
  <2> SUFFICES ASSUME Racing!WindowInv PROVE Racing!WindowBound
    OBVIOUS
  <2>1. /\ Rate \in Nat /\ Capacity \in Nat
        /\ clock \in Nat /\ zeroTime \in Int
        /\ window.from \in Nat /\ window.granted \in Nat
        /\ window.from <= clock
    BY BucketAssumption, SameRounds DEF Racing!WindowInv, Racing!TypeOK, Windows
  <2>2. Rate * (clock - window.from) = Rate * clock - Rate * window.from
    BY <2>1
  <2>3. /\ Rate * clock \in Int /\ Rate * window.from \in Int
        /\ Rate * window.from <= Rate * clock
    BY <2>1
  <2> QED
    BY <2>1, <2>2, <2>3, SameRounds DEF Racing!WindowInv, Racing!WindowBound, FullStartZeroTime
<1> QED
  BY <1>1, WindowInvariance, PTL

\* Drains, borrows, debts and returned tokens included, no more is drawn in all
\* than one bucket, the refill, the debt on record and what drains wrote off.
THEOREM LedgerBounded == Racing!Spec => []Racing!LedgerBound
<1>1. Racing!WindowInv => Racing!LedgerBound
  <2> SUFFICES ASSUME Racing!WindowInv PROVE Racing!LedgerBound
    OBVIOUS
  <2>1. /\ Rate \in Nat /\ Capacity \in Nat /\ StartTime \in Nat
        /\ clock \in Nat /\ zeroTime \in Int /\ ledger \in Int
        /\ writtenOff \in Nat
    BY BucketAssumption, CallsAssumption, SameRounds DEF Racing!WindowInv, Racing!TypeOK
  <2>2. Rate * (clock - StartTime) = Rate * clock - Rate * StartTime
    BY <2>1
  <2>3. Rate * clock \in Int /\ Rate * StartTime \in Int
    BY <2>1
  <2>4. zeroTime >= Rate * StartTime - Capacity + ledger - writtenOff
    BY SameRounds DEF Racing!WindowInv, FullStartZeroTime
  <2>5. Racing!Debt \in Int /\ Rate * clock + Racing!Debt >= zeroTime
    BY <2>1, <2>3, SameRounds DEF Racing!Debt
  <2> QED
    BY <2>1, <2>2, <2>3, <2>4, <2>5, SameRounds DEF Racing!LedgerBound
<1> QED
  BY <1>1, WindowInvariance, PTL

-----------------------------------------------------------------------------
\* A thread that goes on, with a call or with none, stands at the beginning of
\* a round of it and expects nothing.
LEMMA GoingOnKeepsInv ==
  ASSUME SharedInv, NEW t \in Threads, NEW c \in Calls, GoOn(t, c)
  PROVE  /\ call' \in [Threads -> Calls]
         /\ pc' \in [Threads -> {"idle", "balance", "load", "exchange"}]
         /\ zeroTimeOld' \in [Threads -> Int]
         /\ RoundsInv'
<1>0. TypeOK /\ RoundsInv
  BY DEF SharedInv
<1>1. /\ call' = [call EXCEPT ![t] = c]
      /\ pc' = [pc EXCEPT ![t] = Entry(c)]
      /\ zeroTimeOld' = [zeroTimeOld EXCEPT ![t] = 0]
  BY DEF GoOn
<1>2. /\ Entry(c) \in {"idle", "balance", "load"}
      /\ Entry(c) = "idle" <=> c.doing = "nothing"
      /\ Entry(c) = "balance" => Takes(c)
  BY DEF Entry
<1>3. /\ call' \in [Threads -> Calls]
      /\ pc' \in [Threads -> {"idle", "balance", "load", "exchange"}]
      /\ zeroTimeOld' \in [Threads -> Int]
  BY <1>0, <1>1, <1>2 DEF TypeOK
<1>4. ASSUME NEW u \in Threads
      PROVE  /\ pc'[u] = "idle" <=> call'[u].doing = "nothing"
             /\ pc'[u] = "balance" => Takes(call'[u])
             /\ pc'[u] = "exchange" => Drawn(call'[u], zeroTimeOld'[u]) # 0
  <2>1. CASE u = t
    <3>1. call'[u] = c /\ pc'[u] = Entry(c)
      BY <1>0, <1>1, <2>1 DEF TypeOK
    <3> QED
      BY <1>2, <3>1
  <2>2. CASE u # t
    <3>1. call'[u] = call[u] /\ pc'[u] = pc[u] /\ zeroTimeOld'[u] = zeroTimeOld[u]
      BY <1>0, <1>1, <2>2 DEF TypeOK
    <3> QED
      BY <1>0, <3>1 DEF RoundsInv
  <2> QED
    BY <2>1, <2>2
<1> QED
  BY <1>3, <1>4 DEF RoundsInv

\* A thread that has loaded a value it can draw from stands at the exchange.
LEMMA LoadingKeepsInv ==
  ASSUME SharedInv, NEW t \in Threads, Loaded(t),
         call[t].doing # "nothing", Drawn(call[t], zeroTime) # 0
  PROVE  /\ call' \in [Threads -> Calls]
         /\ pc' \in [Threads -> {"idle", "balance", "load", "exchange"}]
         /\ zeroTimeOld' \in [Threads -> Int]
         /\ RoundsInv'
<1>0. TypeOK /\ RoundsInv
  BY DEF SharedInv
<1>1. /\ pc' = [pc EXCEPT ![t] = "exchange"]
      /\ zeroTimeOld' = [zeroTimeOld EXCEPT ![t] = zeroTime]
      /\ call' = call
  BY DEF Loaded
<1>2. /\ call' \in [Threads -> Calls]
      /\ pc' \in [Threads -> {"idle", "balance", "load", "exchange"}]
      /\ zeroTimeOld' \in [Threads -> Int]
  BY <1>0, <1>1 DEF TypeOK
<1>3. ASSUME NEW u \in Threads
      PROVE  /\ pc'[u] = "idle" <=> call'[u].doing = "nothing"
             /\ pc'[u] = "balance" => Takes(call'[u])
             /\ pc'[u] = "exchange" => Drawn(call'[u], zeroTimeOld'[u]) # 0
  <2>1. CASE u = t
    BY <1>0, <1>1, <2>1 DEF TypeOK
  <2>2. CASE u # t
    <3>1. pc'[u] = pc[u] /\ zeroTimeOld'[u] = zeroTimeOld[u] /\ call'[u] = call[u]
      BY <1>0, <1>1, <2>2 DEF TypeOK
    <3> QED
      BY <1>0, <3>1 DEF RoundsInv
  <2> QED
    BY <2>1, <2>2
<1> QED
  BY <1>2, <1>3 DEF RoundsInv

\* Inside a call: the pc of a thread that is about to act tells that it is.
LEMMA ActsInCall ==
  ASSUME SharedInv, NEW t \in Threads, pc[t] # "idle"
  PROVE  /\ call[t] \in Calls /\ call[t].doing # "nothing"
         /\ zeroTime \in Int /\ zeroTimeOld[t] \in Int
         /\ 0 <= call[t].cost
         /\ Continued(call[t], 0) \in Calls
<1>1. /\ call[t] \in Calls /\ call[t].doing # "nothing"
      /\ zeroTime \in Int /\ zeroTimeOld[t] \in Int
  BY DEF SharedInv, TypeOK, RoundsInv
<1>2. 0 <= call[t].cost
  BY <1>1, CallTypes
<1> QED
  BY <1>1, <1>2, ContinuedCall

\* The variables keep to their types, and a thread about to exchange has
\* something to draw from the value it expects.
THEOREM SharedInvariance == Spec => []SharedInv
<1>1. Init => SharedInv
  <2>1. Rate * StartTime \in Int /\ Capacity \in Nat
    BY BucketAssumption, CallsAssumption, SharedAssumption
  <2> QED
    BY <2>1, CallsAssumption, SharedAssumption
    DEF Init, SharedInv, TypeOK, RoundsInv, FullStartZeroTime, Calls, NoCall,
        Windows, WindowFrom
<1>2. SharedInv /\ [Next]_vars => SharedInv'
  <2> SUFFICES ASSUME SharedInv, [Next]_vars PROVE SharedInv'
    OBVIOUS
  <2> USE DEF history
  <2>0. TypeOK /\ RoundsInv /\ Rate \in Nat /\ Capacity \in Nat
    BY BucketAssumption DEF SharedInv
  <2>1. CASE Tick
    BY <2>0, <2>1 DEF Tick, SharedInv, TypeOK, RoundsInv
  <2>2. ASSUME NEW s \in 0..MaxTime, OpenWindow(s) PROVE SharedInv'
    <3>1. window' \in Windows
      BY <2>2, CallsAssumption DEF OpenWindow, WindowFrom, Windows
    <3> QED
      BY <2>0, <2>2, <3>1 DEF OpenWindow, SharedInv, TypeOK, RoundsInv
  <2>3. ASSUME NEW t \in Threads, NEW r \in Requests, Invoke(t, r)
        PROVE  SharedInv'
    <3> DEFINE c == [doing |-> r.op, now |-> clock, cost |-> r.cost]
    <3>1. c \in Calls
      BY <2>0, CallsAssumption DEF TypeOK, Calls
    <3>2. GoOn(t, c)
      BY <2>3 DEF Invoke
    <3>3. calls' \in [Threads -> 0..MaxCalls]
      BY <2>0, <2>3, SharedAssumption DEF Invoke, TypeOK
    <3> HIDE DEF c
    <3>4. /\ call' \in [Threads -> Calls]
          /\ pc' \in [Threads -> {"idle", "balance", "load", "exchange"}]
          /\ zeroTimeOld' \in [Threads -> Int]
          /\ RoundsInv'
      BY <3>1, <3>2, GoingOnKeepsInv
    <3> QED
      BY <2>0, <2>3, <3>3, <3>4 DEF Invoke, SharedInv, TypeOK
  <2>4. ASSUME NEW t \in Threads, CheckBalance(t) PROVE SharedInv'
    <3>1. CASE RefusedAtOnce(call[t], zeroTime)
      <4>1. GoOn(t, Continued(call[t], 0))
        BY <2>4, <3>1 DEF CheckBalance
      <4>2. Continued(call[t], 0) \in Calls
        BY <2>4, ActsInCall DEF CheckBalance
      <4>3. /\ call' \in [Threads -> Calls]
            /\ pc' \in [Threads -> {"idle", "balance", "load", "exchange"}]
            /\ zeroTimeOld' \in [Threads -> Int]
            /\ RoundsInv'
        BY <4>1, <4>2, GoingOnKeepsInv
      <4> QED
        BY <2>0, <2>4, <4>3 DEF CheckBalance, SharedInv, TypeOK
    <3>2. CASE ~RefusedAtOnce(call[t], zeroTime)
      BY <2>0, <2>4, <3>2 DEF CheckBalance, SharedInv, TypeOK, RoundsInv
    <3> QED
      BY <3>1, <3>2
  <2>5. ASSUME NEW t \in Threads, Load(t) PROVE SharedInv'
    <3>0. /\ call[t].doing # "nothing"
          /\ Continued(call[t], 0) \in Calls
      BY <2>5, ActsInCall DEF Load
    <3>1. /\ call' \in [Threads -> Calls]
          /\ pc' \in [Threads -> {"idle", "balance", "load", "exchange"}]
          /\ zeroTimeOld' \in [Threads -> Int]
          /\ RoundsInv'
      <4>1. CASE Drawn(call[t], zeroTime) = 0
        BY <2>5, <3>0, <4>1, GoingOnKeepsInv DEF Load
      <4>2. CASE Drawn(call[t], zeroTime) # 0
        BY <2>5, <3>0, <4>2, LoadingKeepsInv DEF Load
      <4> QED
        BY <4>1, <4>2
    <3> QED
      BY <2>0, <2>5, <3>1 DEF Load, SharedInv, TypeOK
  <2>6. ASSUME NEW t \in Threads, ExchangeSucceeds(t) PROVE SharedInv'
    <3> DEFINE drawn == Drawn(call[t], zeroTimeOld[t])
    <3>1. /\ call[t] \in Calls /\ call[t].doing # "nothing"
          /\ zeroTimeOld[t] \in Int
      BY <2>6, ActsInCall DEF ExchangeSucceeds
    <3>2. drawn \in Int /\ drawn <= call[t].cost
      BY <3>1, DrawnBounds
    <3>3. Continued(call[t], drawn) \in Calls
      BY <3>1, <3>2, ContinuedCall
    <3>4. Stored(call[t], zeroTimeOld[t]) \in Int
      <4>1. call[t].now \in Nat /\ call[t].now <= call[t].now
        BY <3>1, CallTypes
      <4> QED
        BY <3>1, <4>1, StoredBounds
    <3>5. Observed(window, call[t], drawn) \in Windows
      <4>1. CASE window.open /\ Takes(call[t]) /\ drawn >= 0
        <5>1. window.granted + drawn \in Nat
          BY <2>0, <3>2, <4>1 DEF TypeOK, Windows
        <5> QED
          BY <2>0, <4>1, <5>1 DEF TypeOK, Observed, Windows
      <4>2. CASE ~(window.open /\ Takes(call[t]) /\ drawn >= 0)
        BY <4>2 DEF Observed, Closed, Windows
      <4> QED
        BY <4>1, <4>2
    <3>5a. Erased(call[t], drawn) \in Nat
      BY <3>1, MovesSplit
    <3>6. /\ zeroTime' = Stored(call[t], zeroTimeOld[t])
          /\ ledger' = ledger + drawn + Erased(call[t], drawn)
          /\ writtenOff' = writtenOff + Erased(call[t], drawn)
          /\ window' = Observed(window, call[t], drawn)
          /\ GoOn(t, Continued(call[t], drawn))
          /\ clock' = clock /\ calls' = calls
      BY <2>6 DEF ExchangeSucceeds, Booked
    <3> HIDE DEF drawn
    <3>7. /\ call' \in [Threads -> Calls]
          /\ pc' \in [Threads -> {"idle", "balance", "load", "exchange"}]
          /\ zeroTimeOld' \in [Threads -> Int]
          /\ RoundsInv'
      BY <3>3, <3>6, GoingOnKeepsInv
    <3> QED
      BY <2>0, <3>2, <3>4, <3>5, <3>5a, <3>6, <3>7 DEF SharedInv, TypeOK
  <2>7. ASSUME NEW t \in Threads, ExchangeFails(t) PROVE SharedInv'
    <3>1. CASE Takes(call[t])
      BY <2>0, <2>7, <3>1 DEF ExchangeFails, SharedInv, TypeOK, RoundsInv
    <3>2. CASE ~Takes(call[t])
      <4>1. Loaded(t)
        BY <2>7, <3>2 DEF ExchangeFails
      <4>2. /\ call[t] \in Calls /\ call[t].doing # "nothing"
        BY <2>7, ActsInCall DEF ExchangeFails
      <4>3. Drawn(call[t], zeroTime) # 0
        BY <3>2, <4>2, CallTypes DEF Drawn, Takes
      <4>4. /\ call' \in [Threads -> Calls]
            /\ pc' \in [Threads -> {"idle", "balance", "load", "exchange"}]
            /\ zeroTimeOld' \in [Threads -> Int]
            /\ RoundsInv'
        BY <4>1, <4>2, <4>3, LoadingKeepsInv
      <4> QED
        BY <2>0, <2>7, <4>4 DEF ExchangeFails, SharedInv, TypeOK
    <3> QED
      BY <3>1, <3>2
  <2>8. CASE UNCHANGED vars
    BY <2>0, <2>8 DEF vars, SharedInv, TypeOK, RoundsInv
  <2> QED
    BY <2>1, <2>2, <2>3, <2>4, <2>5, <2>6, <2>7, <2>8 DEF Next
<1> QED
  BY <1>1, <1>2, PTL DEF Spec

\* An exchange that goes through moves the bucket by what a round draws from
\* the value it has at that moment.
LEMMA ExchangeMoves ==
  ASSUME SharedInv, NEW t \in Threads, ExchangeSucceeds(t)
  PROVE  /\ Moves(t)
         /\ call[t] \in Calls /\ zeroTime \in Int
         /\ ledger \in Int /\ writtenOff \in Nat
<1>1. /\ call[t] \in Calls /\ call[t].doing # "nothing"
      /\ zeroTimeOld[t] = zeroTime
      /\ Drawn(call[t], zeroTime) # 0
      /\ zeroTime \in Int /\ ledger \in Int /\ writtenOff \in Nat
  BY ActsInCall DEF ExchangeSucceeds, SharedInv, RoundsInv, TypeOK
<1>2. /\ zeroTime' = Stored(call[t], zeroTime)
      /\ Booked(t, Drawn(call[t], zeroTime))
      /\ call' = [call EXCEPT ![t] = Continued(call[t], Drawn(call[t], zeroTime))]
      /\ clock' = clock
  BY <1>1 DEF ExchangeSucceeds, GoOn
<1> QED
  BY <1>1, <1>2 DEF Moves, Booked

\* Each step of the loops is a round of the atomic bucket, a write-off by a
\* drain, or leaves the bucket and its callers alone.
LEMMA StepSimulation ==
  ASSUME SharedInv, [Next]_vars
  PROVE  [Racing!Next]_(Racing!bucketVars)
<1> USE DEF Racing!bucketVars, history
<1>1. CASE Tick
  BY <1>1 DEF Tick, Racing!Tick, Racing!Next
<1>2. ASSUME NEW s \in 0..MaxTime, OpenWindow(s) PROVE Racing!Next
  <2>1. Racing!OpenWindow(s)
    BY <1>2, SameRounds DEF OpenWindow, Racing!OpenWindow
  <2> QED
    BY <2>1 DEF Racing!Next
<1>3. ASSUME NEW t \in Threads, NEW r \in Requests, Invoke(t, r)
      PROVE  Racing!Next
  <2>1. Racing!Invoke(t, r)
    BY <1>3 DEF Invoke, Racing!Invoke, GoOn
  <2> QED
    BY <2>1 DEF Racing!Next
<1>4. ASSUME NEW t \in Threads, pc[t] # "idle", GoOn(t, Continued(call[t], 0)),
             NothingToTake(call[t], zeroTime),
             UNCHANGED <<clock, zeroTime, history>>
      PROVE  Racing!Next
  <2>1. Racing!TakeNothing(t)
    BY <1>4, ActsInCall, SameRounds DEF Racing!TakeNothing, GoOn
  <2> QED
    BY <2>1 DEF Racing!Next
<1>5. ASSUME NEW t \in Threads, CheckBalance(t)
      PROVE  Racing!Next \/ UNCHANGED Racing!bucketVars
  <2>1. CASE RefusedAtOnce(call[t], zeroTime)
    <3>1. NothingToTake(call[t], zeroTime)
      BY <1>5, <2>1, ActsInCall, RefusalsAgree DEF CheckBalance
    <3> QED
      BY <1>4, <1>5, <2>1, <3>1 DEF CheckBalance
  <2>2. CASE ~RefusedAtOnce(call[t], zeroTime)
    BY <1>5, <2>2 DEF CheckBalance
  <2> QED
    BY <2>1, <2>2
<1>6. ASSUME NEW t \in Threads, Load(t)
      PROVE  Racing!Next \/ UNCHANGED Racing!bucketVars
  <2>1. CASE Drawn(call[t], zeroTime) = 0
    <3>1. NothingToTake(call[t], zeroTime)
      BY <1>6, <2>1, ActsInCall, RefusalsAgree DEF Load
    <3> QED
      BY <1>4, <1>6, <2>1, <3>1 DEF Load
  <2>2. CASE Drawn(call[t], zeroTime) # 0
    BY <1>6, <2>2 DEF Load, Loaded
  <2> QED
    BY <2>1, <2>2
<1>7. ASSUME NEW t \in Threads, ExchangeSucceeds(t) PROVE Racing!Next
  <2> DEFINE drawn == Drawn(call[t], zeroTime)
  <2>1. /\ Moves(t)
        /\ call[t] \in Calls /\ zeroTime \in Int
        /\ ledger \in Int /\ writtenOff \in Nat
    BY <1>7, ExchangeMoves
  <2>2. /\ call[t].doing # "nothing" /\ drawn # 0
        /\ zeroTime' = Stored(call[t], zeroTime)
        /\ call' = [call EXCEPT ![t] = Continued(call[t], drawn)]
        /\ ledger' = ledger + drawn + Erased(call[t], drawn)
        /\ writtenOff' = writtenOff + Erased(call[t], drawn)
        /\ window' = Observed(window, call[t], drawn)
        /\ clock' = clock
    BY <2>1 DEF Moves
  <2>3. drawn \in Int
    BY <2>1, <2>2, DrawnBounds
  <2>4. CASE ~NothingToTake(call[t], zeroTime)
    <3>1. Erased(call[t], drawn) = 0
      BY <2>1, <2>2, <2>4, MovesSplit
    <3>2. ledger' = ledger + drawn /\ writtenOff' = writtenOff
      BY <2>1, <2>2, <2>3, <3>1
    <3>3. Racing!TakeEffect(t)
      BY <2>2, <2>4, <3>2, SameRounds DEF Racing!TakeEffect
    <3> QED
      BY <3>3 DEF Racing!Next
  <2>5. CASE NothingToTake(call[t], zeroTime)
    <3>1. call[t].doing \in {"drain", "borrow"} /\ Balance(zeroTime, call[t].now) < 0
      BY <2>1, <2>2, <2>5, MovesSplit
    <3>2. /\ Erased(call[t], drawn) = -drawn
          /\ Observed(window, call[t], drawn) = Closed
      BY <2>1, <2>2, <3>1, MovesSplit
    <3>3. ledger' = ledger /\ window' = Closed
      BY <2>1, <2>2, <2>3, <3>2
    <3>4. Racing!WriteOff(t)
      BY <2>2, <3>1, <3>3, SameRounds DEF Racing!WriteOff
    <3> QED
      BY <3>4 DEF Racing!Next
  <2> QED
    BY <2>4, <2>5
<1>8. ASSUME NEW t \in Threads, ExchangeFails(t)
      PROVE  UNCHANGED Racing!bucketVars
  BY <1>8 DEF ExchangeFails, Loaded
<1>9. CASE UNCHANGED vars
  BY <1>9 DEF vars
<1> QED
  BY <1>1, <1>2, <1>3, <1>5, <1>6, <1>7, <1>8, <1>9 DEF Next

\* Every call on a shared bucket takes effect one atomic round at a time, a
\* drain's write-off of a balance below zero excepted.
THEOREM SharedStraysByDrains == Spec => OnlyDrainsStray
<1>1. Init => Racing!Init
  BY SameRounds DEF Init, Racing!Init
<1>2. SharedInv /\ [Next]_vars => [Racing!Next]_(Racing!bucketVars)
  BY StepSimulation
<1> QED
  BY <1>1, <1>2, SharedInvariance, PTL DEF Spec, OnlyDrainsStray, Racing!Spec

\* Hence the lock-free bucket keeps the window bound too: no interleaving of
\* loads and exchanges loses a debit, as long as no drain writes anything off.
THEOREM SharedWindowBounded == Spec => []WindowBound
<1>1. Racing!WindowBound => WindowBound
  BY DEF WindowBound
<1> QED
  BY <1>1, WindowBounded, SharedStraysByDrains, PTL DEF OnlyDrainsStray

\* And a drain's write-off is the only way in which a draw or a debt is lost.
THEOREM SharedLedgerBounded == Spec => []LedgerBound
<1>1. Racing!LedgerBound => LedgerBound
  BY DEF LedgerBound
<1> QED
  BY <1>1, LedgerBounded, SharedStraysByDrains, PTL DEF OnlyDrainsStray

-----------------------------------------------------------------------------
\* The atomic bucket speaks of the same rounds as the one that drains stray on.
LEMMA AtomicRounds ==
  /\ \A c, z : Atomic!Drawn(c, z) = Drawn(c, z)
  /\ \A c, z : Atomic!Stored(c, z) = Stored(c, z)
  /\ \A c, d : Atomic!Continued(c, d) = Continued(c, d)
  /\ \A c, z : Atomic!NothingToTake(c, z) = NothingToTake(c, z)
  /\ \A w, c, d : Atomic!Observed(w, c, d) = Observed(w, c, d)
  /\ \A s : Atomic!WindowFrom(s) = WindowFrom(s)
  /\ \A s : Atomic!FullStartZeroTime(s) = FullStartZeroTime(s)
  /\ Atomic!NoCall = NoCall
  /\ Atomic!InCall = InCall
<1> USE DEF Atomic!Takes, Takes, Atomic!Balance, Balance,
            Atomic!Affordable, Affordable, Atomic!Debited, Debited
<1>1. \A c, z : Atomic!Drawn(c, z) = Drawn(c, z)
  BY DEF Atomic!Drawn, Drawn
<1>2. \A c, z : Atomic!Stored(c, z) = Stored(c, z)
  BY <1>1 DEF Atomic!Stored, Stored
<1>3. \A c, d : Atomic!Continued(c, d) = Continued(c, d)
  BY DEF Atomic!Continued, Continued, Atomic!NoCall, NoCall
<1>4. \A c, z : Atomic!NothingToTake(c, z) = NothingToTake(c, z)
  BY DEF Atomic!NothingToTake, NothingToTake
<1>5. \A w, c, d : Atomic!Observed(w, c, d) = Observed(w, c, d)
  BY DEF Atomic!Observed, Observed, Atomic!Closed, Closed
<1> QED
  BY <1>1, <1>2, <1>3, <1>4, <1>5
  DEF Atomic!WindowFrom, WindowFrom, Atomic!FullStartZeroTime, FullStartZeroTime,
      Atomic!NoCall, NoCall, Atomic!InCall, InCall

\* No thread is ever inside a drain or a borrow.
ConsumesOnly == \A t \in Threads : call[t].doing \in {"nothing", "consume", "give"}

\* Callers that neither drain nor borrow are never found inside either.
LEMMA ConsumesOnlyInvariance == ASSUME Undrained PROVE Spec => []ConsumesOnly
<1>1. Init => ConsumesOnly
  BY DEF Init, ConsumesOnly, NoCall
<1>2. SharedInv /\ ConsumesOnly /\ [Next]_vars => ConsumesOnly'
  <2> SUFFICES ASSUME SharedInv, ConsumesOnly, [Next]_vars PROVE ConsumesOnly'
    OBVIOUS
  <2>0. call \in [Threads -> Calls]
    BY DEF SharedInv, TypeOK
  <2>1. ASSUME NEW t \in Threads, NEW c, GoOn(t, c), c.doing \in {"nothing", "consume", "give"}
        PROVE  ConsumesOnly'
    BY <2>0, <2>1 DEF GoOn, ConsumesOnly
  <2>2. ASSUME NEW t \in Threads, NEW d, GoOn(t, Continued(call[t], d))
        PROVE  ConsumesOnly'
    <3>1. Continued(call[t], d) = NoCall
      BY DEF ConsumesOnly, Continued
    <3> QED
      BY <2>1, <2>2, <3>1 DEF NoCall
  <2>3. ASSUME NEW t \in Threads, NEW r \in Requests, Invoke(t, r) PROVE ConsumesOnly'
    <3>1. r.op \in {"consume", "give"}
      BY DEF Undrained
    <3> QED
      BY <2>1, <2>3, <3>1 DEF Invoke
  <2>4. ASSUME call' = call PROVE ConsumesOnly'
    BY <2>4 DEF ConsumesOnly
  <2>5. ASSUME NEW t \in Threads, CheckBalance(t) \/ Load(t) \/ ExchangeFails(t)
        PROVE  ConsumesOnly'
    BY <2>2, <2>4, <2>5 DEF CheckBalance, Load, ExchangeFails, Loaded
  <2>6. ASSUME NEW t \in Threads, ExchangeSucceeds(t) PROVE ConsumesOnly'
    BY <2>2, <2>6 DEF ExchangeSucceeds
  <2> QED
    BY <2>3, <2>4, <2>5, <2>6 DEF Next, Tick, OpenWindow, vars
<1> QED
  BY <1>1, <1>2, SharedInvariance, PTL DEF Spec

\* Without drains and borrows the compare-and-exchange loops implement the
\* atomic bucket: consume and returnTokens take effect at one instant.
THEOREM SharedImplementsAtomic == ASSUME Undrained PROVE Spec => ImplementsAtomic
<1>1. Init => Atomic!Init
  BY AtomicRounds DEF Init, Atomic!Init
<1>2. ASSUME SharedInv, ConsumesOnly, [Next]_vars
      PROVE  [Atomic!Next]_(Atomic!bucketVars)
  <2>1. [Racing!Next]_(Racing!bucketVars)
    BY <1>2, StepSimulation
  <2>2. CASE UNCHANGED Racing!bucketVars
    BY <2>2 DEF Racing!bucketVars, Atomic!bucketVars
  <2>3. CASE Racing!Tick
    BY <2>3 DEF Racing!Tick, Atomic!Tick, Atomic!Next
  <2>4. ASSUME NEW s \in 0..MaxTime, Racing!OpenWindow(s) PROVE Atomic!Next
    <3>1. Atomic!OpenWindow(s)
      BY <2>4, SameRounds, AtomicRounds DEF Racing!OpenWindow, Atomic!OpenWindow
    <3> QED
      BY <3>1 DEF Atomic!Next
  <2>5. ASSUME NEW t \in Threads, NEW r \in Requests, Racing!Invoke(t, r)
        PROVE  Atomic!Next
    <3>1. Atomic!Invoke(t, r)
      BY <2>5 DEF Racing!Invoke, Atomic!Invoke
    <3> QED
      BY <3>1 DEF Atomic!Next
  <2>6. ASSUME NEW t \in Threads, Racing!TakeEffect(t) PROVE Atomic!Next
    <3>1. Atomic!TakeEffect(t)
      BY <2>6, SameRounds, AtomicRounds DEF Racing!TakeEffect, Atomic!TakeEffect
    <3> QED
      BY <3>1 DEF Atomic!Next
  <2>7. ASSUME NEW t \in Threads, Racing!TakeNothing(t) PROVE Atomic!Next
    <3>1. Atomic!TakeNothing(t)
      BY <2>7, SameRounds, AtomicRounds DEF Racing!TakeNothing, Atomic!TakeNothing
    <3> QED
      BY <3>1 DEF Atomic!Next
  <2>8. ASSUME NEW t \in Threads, Racing!WriteOff(t) PROVE FALSE
    BY <1>2, <2>8 DEF Racing!WriteOff, ConsumesOnly
  <2> QED
    BY <2>1, <2>2, <2>3, <2>4, <2>5, <2>6, <2>7, <2>8 DEF Racing!Next
<1> QED
  BY <1>1, <1>2, SharedInvariance, ConsumesOnlyInvariance, PTL
  DEF Spec, ImplementsAtomic, Atomic!Spec

\* Nothing is written off then, and the bucket is never in debt.
NoDebt == writtenOff = 0 /\ zeroTime <= Rate * clock

LEMMA NoDebtInvariance == ASSUME Undrained PROVE Spec => []NoDebt
<1>1. Init => NoDebt
  <2>1. Rate * StartTime \in Int /\ Capacity \in Nat
    BY BucketAssumption, CallsAssumption
  <2> QED
    BY <2>1 DEF Init, NoDebt, FullStartZeroTime
<1>2. ASSUME SharedInv, ConsumesOnly, Racing!WindowInv, NoDebt, [Next]_vars
      PROVE  NoDebt'
  <2> USE DEF history
  <2>0. /\ zeroTime \in Int /\ clock \in Nat /\ Rate \in Nat
        /\ Rate * clock \in Int
        /\ writtenOff = 0 /\ zeroTime <= Rate * clock
    BY <1>2, BucketAssumption DEF SharedInv, TypeOK, NoDebt
  <2>1. CASE Tick
    <3>1. clock' \in Nat /\ Rate * clock <= Rate * clock' /\ Rate * clock' \in Int
      BY <2>0, <2>1 DEF Tick
    <3> QED
      BY <2>0, <2>1, <3>1 DEF Tick, NoDebt
  <2>2. CASE zeroTime' = zeroTime /\ clock' = clock /\ writtenOff' = writtenOff
    BY <2>0, <2>2 DEF NoDebt
  <2>3. ASSUME NEW t \in Threads, ExchangeSucceeds(t) PROVE NoDebt'
    <3> DEFINE c == call[t]
               drawn == Drawn(c, zeroTime)
    <3>1. /\ drawn # 0
          /\ zeroTime' = Stored(c, zeroTime)
          /\ writtenOff' = writtenOff + Erased(c, drawn)
          /\ clock' = clock
          /\ c \in Calls /\ c.doing \in {"consume", "give"}
      BY <1>2, <2>3, ExchangeMoves DEF Moves, ConsumesOnly
    <3>2. c.now \in Nat /\ c.cost \in Nat \ {0}
      BY <3>1, CallTypes
    <3>3. Rate * c.now \in Int /\ Rate * c.now <= Rate * clock
      <4>1. t \in Racing!InCall
        BY <3>1, SameRounds DEF InCall
      <4>2. c.now <= clock
        BY <1>2, <2>0, <3>2, <4>1, SameRounds DEF Racing!WindowInv, Racing!TypeOK, Windows
      <4> QED
        BY <2>0, <3>2, <4>2
    <3>4. CASE c.doing = "consume"
      <4>1. Takes(c) /\ drawn = c.cost /\ drawn > 0
        BY <3>1, <3>2, <3>4 DEF Takes, Drawn
      <4>2. Stored(c, zeroTime) \in Int /\ Stored(c, zeroTime) <= Rate * c.now
        <5>1. c.now <= c.now
          BY <3>2
        <5> QED
          BY <2>0, <3>1, <3>2, <4>1, <5>1, StoredBounds
      <4>3. Erased(c, drawn) = 0
        BY <3>2, <4>1 DEF Erased
      <4> QED
        BY <2>0, <3>1, <3>3, <4>2, <4>3 DEF NoDebt
    <3>5. CASE c.doing = "give"
      <4>1. ~Takes(c) /\ drawn = -c.cost
        BY <3>5 DEF Takes, Drawn
      <4>2. Stored(c, zeroTime) = zeroTime - c.cost /\ Erased(c, drawn) = 0
        BY <2>0, <3>2, <4>1 DEF Stored, Erased
      <4> QED
        BY <2>0, <3>1, <3>2, <4>2 DEF NoDebt
    <3> QED
      BY <3>1, <3>4, <3>5
  <2> QED
    BY <1>2, <2>1, <2>2, <2>3
    DEF Next, OpenWindow, Invoke, CheckBalance, Load, ExchangeFails, vars
<1> QED
  BY <1>1, <1>2, SharedInvariance, ConsumesOnlyInvariance, WindowInvariance,
     SharedStraysByDrains, PTL DEF Spec, OnlyDrainsStray

\* And what is granted in all, less what is given back, is at most one bucket
\* and the refill since the start: no debit is lost at all.
THEOREM NeverOverdrawnHolds == ASSUME Undrained PROVE Spec => []NeverOverdrawn
<1>1. NoDebt /\ Racing!WindowInv => NeverOverdrawn
  <2> SUFFICES ASSUME NoDebt, Racing!WindowInv PROVE NeverOverdrawn
    OBVIOUS
  <2>1. /\ Rate \in Nat /\ Capacity \in Nat /\ StartTime \in Nat
        /\ clock \in Nat /\ zeroTime \in Int /\ ledger \in Int
    BY BucketAssumption, CallsAssumption, SameRounds DEF Racing!WindowInv, Racing!TypeOK
  <2>2. /\ Rate * (clock - StartTime) = Rate * clock - Rate * StartTime
        /\ Rate * clock \in Int /\ Rate * StartTime \in Int
    BY <2>1
  <2>3. zeroTime >= Rate * StartTime - Capacity + ledger /\ zeroTime <= Rate * clock
    BY <2>1, <2>2, SameRounds DEF Racing!WindowInv, FullStartZeroTime, NoDebt
  <2> QED
    BY <2>1, <2>2, <2>3 DEF NeverOverdrawn
<1> QED
  BY <1>1, NoDebtInvariance, WindowInvariance, SharedStraysByDrains, PTL DEF OnlyDrainsStray
=============================================================================
