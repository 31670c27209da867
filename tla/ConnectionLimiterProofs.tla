---------------------- MODULE ConnectionLimiterProofs ----------------------
(***************************************************************************)
(* The budget of a tracked connection and the bound on the map, for every  *)
(* set of connections and threads, every cap, capacity and rate, and every *)
(* order in which the critical sections run; then what holds only while    *)
(* one thread runs them in the order of their times.                       *)
(***************************************************************************)
EXTENDS ConnectionLimiter, TokenBucketProofs, FiniteSetTheorems

\* One entry's part of BudgetInv, at time k of the clock.
EntryBudget(entry, k) ==
  /\ entry.since <= entry.latest
  /\ entry.lastSeen <= entry.latest
  /\ entry.latest <= k
  /\ entry.zeroTime <= Rate * entry.latest
  /\ entry.zeroTime >= FullStartZeroTime(entry.since) + entry.spent

\* What touchBucket returns: a map with c in it, stamped with n or later, the
\* other entries as they were.
LEMMA TouchedEntries ==
  ASSUME BudgetInv, NEW c \in Conns, NEW n \in Nat, n <= clock,
         NEW touched \in Touched(c, n)
  PROVE  /\ touched \in [DOMAIN touched -> Entries]
         /\ DOMAIN touched \subseteq Conns
         /\ c \in DOMAIN touched
         /\ n <= touched[c].latest
         /\ \A d \in DOMAIN touched : EntryBudget(touched[d], clock)
<1>0. /\ TypeOK
      /\ \A d \in Tracked : EntryBudget(buckets[d], clock)
  BY DEF BudgetInv, EntryBudget
<1>1. CASE c \in Tracked
  <2>1. touched = [buckets EXCEPT ![c].lastSeen = n,
                                  ![c].latest = IF @ < n THEN n ELSE @]
    BY <1>1 DEF Touched
  <2>2. buckets[c] \in Entries /\ Rate \in Nat
    BY <1>0, <1>1, BucketAssumption DEF TypeOK
  <2> DEFINE later == IF buckets[c].latest < n THEN n ELSE buckets[c].latest
  <2>3. /\ DOMAIN touched = Tracked
        /\ touched[c] = [buckets[c] EXCEPT !.lastSeen = n, !.latest = later]
        /\ \A d \in Tracked \ {c} : touched[d] = buckets[d]
    BY <1>0, <1>1, <2>1 DEF TypeOK, Tracked
  <2>4. /\ later \in Nat
        /\ n <= later
        /\ buckets[c].latest <= later
        /\ later <= clock
    BY <1>0, <1>1, <2>2 DEF Entries, EntryBudget
  <2>5. Rate * buckets[c].latest <= Rate * later
    BY <2>2, <2>4 DEF Entries
  <2>6. /\ touched[c] \in Entries
        /\ touched[c].latest = later
        /\ touched[c].lastSeen = n
        /\ touched[c].since = buckets[c].since
        /\ touched[c].spent = buckets[c].spent
        /\ touched[c].zeroTime = buckets[c].zeroTime
    BY <2>2, <2>3, <2>4 DEF Entries
  <2>7. Rate * buckets[c].latest \in Int /\ Rate * later \in Int
    BY <2>2, <2>4 DEF Entries
  <2>8. EntryBudget(touched[c], clock)
    BY <1>0, <1>1, <2>2, <2>4, <2>5, <2>6, <2>7 DEF Entries, EntryBudget
  <2>9. touched \in [Tracked -> Entries]
    BY <1>0, <1>1, <2>1, <2>3, <2>6 DEF TypeOK
  <2> QED
    BY <1>0, <1>1, <2>3, <2>4, <2>6, <2>8, <2>9 DEF TypeOK
<1>2. CASE c \notin Tracked
  <2>1. PICK kept \in MadeRoom :
          touched = [d \in kept \cup {c} |->
                       IF d = c THEN NewEntry(n) ELSE buckets[d]]
    BY <1>2 DEF Touched
  <2>2. kept \subseteq Tracked
    BY <2>1 DEF MadeRoom
  <2>3. /\ FullStartZeroTime(n) \in Int
        /\ Rate * n \in Int
        /\ FullStartZeroTime(n) <= Rate * n
    BY BucketAssumption DEF FullStartZeroTime
  <2>4. NewEntry(n) \in Entries /\ EntryBudget(NewEntry(n), clock)
    BY <2>3 DEF NewEntry, Entries, EntryBudget
  <2> QED
    BY <1>0, <1>2, <2>1, <2>2, <2>4 DEF TypeOK, NewEntry
<1> QED
  BY <1>1, <1>2

\* The critical section of charge and penalize keeps every entry within its
\* budget.
LEMMA DebitKeepsBudget ==
  ASSUME BudgetInv, NEW c \in Conns, NEW cost \in Nat, NEW n \in Nat,
         n <= clock, NEW granted \in BOOLEAN, Debit(c, cost, n, granted)
  PROVE  /\ buckets' \in [Tracked' -> Entries]
         /\ Tracked' \subseteq Conns
         /\ \A d \in Tracked' : EntryBudget(buckets'[d], clock)
         /\ owed' \in [Conns -> Int]
<1> DEFINE paid == IF granted THEN cost ELSE 0
<1>1. PICK touched \in Touched(c, n) :
        /\ granted = Consumes(touched[c].zeroTime, cost, n)
        /\ buckets' = [touched EXCEPT
                         ![c].zeroTime = AfterConsume(@, cost, n),
                         ![c].spent = @ + paid]
        /\ owed' = [owed EXCEPT ![c] = IF paid = 0 THEN @
                                        ELSE OnAccount(@, paid, n)]
  BY DEF Debit
<1>2. /\ touched \in [DOMAIN touched -> Entries]
      /\ DOMAIN touched \subseteq Conns
      /\ c \in DOMAIN touched
      /\ n <= touched[c].latest
      /\ \A d \in DOMAIN touched : EntryBudget(touched[d], clock)
  BY TouchedEntries
<1> DEFINE e == touched[c]
           z == AfterConsume(e.zeroTime, cost, n)
<1>3. /\ e \in Entries
      /\ EntryBudget(e, clock)
      /\ paid \in Nat
      /\ Rate \in Nat /\ Capacity \in Nat
      /\ TypeOK
  BY <1>2, BucketAssumption DEF BudgetInv
<1>4. /\ Tracked' = DOMAIN touched
      /\ buckets'[c] = [e EXCEPT !.zeroTime = z, !.spent = e.spent + paid]
      /\ \A d \in DOMAIN touched \ {c} : buckets'[d] = touched[d]
  BY <1>1, <1>2 DEF Tracked
<1>5. z \in Int
  BY <1>3, ConsumeKeepsDebt DEF Entries
<1>6. z <= Rate * e.latest /\ z >= e.zeroTime + paid
  <2>1. CASE cost > 0 /\ Affordable(e.zeroTime, cost, n)
    <3>1. /\ z <= Rate * n
          /\ z >= e.zeroTime + cost
      BY <1>3, <2>1, DebitBounds DEF AfterConsume, Entries
    <3>2. /\ Rate * n <= Rate * e.latest
          /\ Rate * n \in Int /\ Rate * e.latest \in Int
      BY <1>2, <1>3 DEF Entries
    <3> QED
      BY <1>3, <1>5, <3>1, <3>2 DEF Entries
  <2>2. CASE ~(cost > 0 /\ Affordable(e.zeroTime, cost, n))
    <3>1. z = e.zeroTime
      BY <2>2 DEF AfterConsume
    <3>2. paid = 0
      <4>1. CASE cost = 0
        BY <4>1
      <4>2. CASE cost > 0
        <5>1. ~Consumes(e.zeroTime, cost, n)
          BY <2>2, <4>2 DEF Consumes
        <5> QED
          BY <1>1, <5>1, Zenon
      <4> QED
        BY <4>1, <4>2
    <3> QED
      BY <1>3, <3>1, <3>2 DEF EntryBudget, Entries
  <2> QED
    BY <2>1, <2>2
<1>7. FullStartZeroTime(e.since) \in Int
  BY <1>3, ConsumeKeepsDebt DEF Entries
<1> HIDE DEF z, paid, e
<1> DEFINE s == e.spent + paid
<1>8. s \in Nat /\ buckets'[c] = [e EXCEPT !.zeroTime = z, !.spent = s]
  BY <1>3, <1>4 DEF Entries
<1> HIDE DEF s
<1>9. /\ buckets'[c] \in Entries
       /\ buckets'[c].zeroTime = z
       /\ buckets'[c].spent = s
       /\ buckets'[c].since = e.since
       /\ buckets'[c].latest = e.latest
       /\ buckets'[c].lastSeen = e.lastSeen
  BY <1>3, <1>5, <1>8 DEF Entries
<1>10. EntryBudget(buckets'[c], clock)
  BY <1>3, <1>5, <1>6, <1>7, <1>9 DEF Entries, EntryBudget, s
<1>11. buckets' \in [Tracked' -> Entries]
  BY <1>1, <1>2, <1>4, <1>9 DEF Tracked
<1>12. owed' \in [Conns -> Int]
  <2>1. OnAccount(owed[c], paid, n) \in Int
    <3>1. owed[c] \in Int /\ Rate * n \in Int /\ MaxDebt \in Nat
      BY <1>3, LimiterAssumption DEF TypeOK
    <3>2. Balance(owed[c], n) \in Int
      BY <1>3, <3>1 DEF Balance
    <3> QED
      BY <1>3, <3>1, <3>2 DEF OnAccount, Debited
  <2> QED
    BY <1>1, <1>3, <2>1 DEF TypeOK, paid
<1> QED
  BY <1>2, <1>4, <1>10, <1>11, <1>12

\* A step that leaves the map, the accounts and the clock alone and gives t a
\* task stamped no later than the clock keeps the invariant.
LEMMA TaskStep ==
  ASSUME BudgetInv, NEW t \in Threads,
         NEW next \in {NoTask} \cup FrameTasks \cup SweepTasks,
         next # NoTask => next.now <= clock,
         task' = [task EXCEPT ![t] = next],
         UNCHANGED <<clock, buckets, owed>>
  PROVE  BudgetInv'
<1>1. TypeOK'
  BY DEF BudgetInv, TypeOK, Tracked
<1>2. \A u \in Threads : task'[u] # NoTask => task'[u].now <= clock'
  BY DEF BudgetInv, TypeOK
<1> QED
  BY <1>1, <1>2 DEF BudgetInv, Tracked

\* A step that debits one connection and moves t on to a task no later than
\* the clock keeps the invariant.
LEMMA DebitStep ==
  ASSUME BudgetInv, NEW t \in Threads, NEW c \in Conns, NEW cost \in Nat,
         NEW n \in Nat, n <= clock,
         \E granted \in BOOLEAN : Debit(c, cost, n, granted),
         NEW next \in {NoTask} \cup FrameTasks \cup SweepTasks,
         next # NoTask => next.now <= clock,
         task' = [task EXCEPT ![t] = next],
         clock' = clock
  PROVE  BudgetInv'
<1>1. /\ buckets' \in [Tracked' -> Entries]
      /\ Tracked' \subseteq Conns
      /\ \A d \in Tracked' : EntryBudget(buckets'[d], clock)
      /\ owed' \in [Conns -> Int]
  BY DebitKeepsBudget
<1>2. TypeOK'
  BY <1>1 DEF BudgetInv, TypeOK
<1>3. \A u \in Threads : task'[u] # NoTask => task'[u].now <= clock'
  BY DEF BudgetInv, TypeOK
<1> QED
  BY <1>1, <1>2, <1>3 DEF BudgetInv, EntryBudget

\* A step that only forgets connections keeps the invariant.
LEMMA ForgetStep ==
  ASSUME BudgetInv, NEW kept \in SUBSET Tracked,
         buckets' = Restrict(buckets, kept),
         owed' \in [Conns -> Int],
         task' \in [Threads -> {NoTask} \cup FrameTasks \cup SweepTasks],
         \A u \in Threads : task'[u] = NoTask \/ task'[u] = task[u],
         clock' = clock
  PROVE  BudgetInv'
<1>1. /\ Tracked' = kept
      /\ \A d \in kept : buckets'[d] = buckets[d]
      /\ buckets' \in [Tracked' -> Entries]
  BY DEF Tracked, Restrict, BudgetInv, TypeOK
<1>2. TypeOK'
  BY <1>1 DEF BudgetInv, TypeOK
<1> QED
  BY <1>1, <1>2 DEF BudgetInv

\* Both stages end alike (Settle): a penalty or a charge, and the next task.
LEMMA SettleStep ==
  ASSUME BudgetInv, NEW t \in Threads, task[t] \in FrameTasks,
         NEW decision, decision.tokenCost \in Nat,
         NEW next \in {NoTask} \cup FrameTasks \cup SweepTasks,
         next # NoTask => next.now <= clock,
         Settle(t, decision, next), clock' = clock
  PROVE  BudgetInv'
<1>1. /\ task[t].conn \in Conns
      /\ task[t].now \in Nat
      /\ task[t] # NoTask
  BY DEF FrameTasks, NoTask
<1>2. task[t].now <= clock
  BY <1>1 DEF BudgetInv
<1>3. CASE Dropped(decision)
  <2>1. Penalize(t, decision)
    BY <1>3 DEF Settle
  <2>2. task' = [task EXCEPT ![t] = NoTask]
    BY <2>1 DEF Penalize
  <2>3. CASE decision.tokenCost > 0
    <3>1. \E granted \in BOOLEAN :
            Debit(task[t].conn, decision.tokenCost, task[t].now, granted)
      BY <2>1, <2>3 DEF Penalize
    <3> QED
      BY <1>1, <1>2, <2>2, <3>1, DebitStep
  <2>4. CASE ~(decision.tokenCost > 0)
    BY <2>1, <2>2, <2>4, TaskStep DEF Penalize
  <2> QED
    BY <2>3, <2>4
<1>4. CASE ~Dropped(decision)
  <2>1. PICK granted \in BOOLEAN :
          /\ Debit(task[t].conn, decision.tokenCost, task[t].now, granted)
          /\ task' = [task EXCEPT ![t] = IF granted THEN next ELSE NoTask]
    BY <1>4 DEF Settle, Charge
  <2>2. \E passed \in {NoTask} \cup FrameTasks \cup SweepTasks :
          /\ passed # NoTask => passed.now <= clock
          /\ task' = [task EXCEPT ![t] = passed]
    <3>1. CASE granted
      BY <2>1, <3>1, Zenon
    <3>2. CASE ~granted
      BY <2>1, <3>2, Zenon
    <3> QED
      BY <3>1, <3>2
  <2>3. \E answer \in BOOLEAN :
          Debit(task[t].conn, decision.tokenCost, task[t].now, answer)
    BY <2>1, Zenon
  <2> QED
    BY <1>1, <1>2, <2>2, <2>3, DebitStep
<1> QED
  BY <1>3, <1>4

\* The inductive invariant behind WithinBudget holds in every reachable state.
THEOREM BudgetInvariance == Spec => []BudgetInv
<1>1. Init => BudgetInv
  <2> SUFFICES ASSUME Init PROVE BudgetInv
    OBVIOUS
  <2>1. FullStartZeroTime(0) \in Int
    BY ConsumeKeepsDebt
  <2>2. Tracked = {}
    BY DEF Init, Tracked
  <2> QED
    BY <2>1, <2>2 DEF Init, BudgetInv, TypeOK
<1>2. BudgetInv /\ [Next]_vars => BudgetInv'
  <2> SUFFICES ASSUME BudgetInv, [Next]_vars PROVE BudgetInv'
    OBVIOUS
  <2>0. TypeOK
    BY DEF BudgetInv
  <2>1. CASE Tick
    <3>1. clock' = clock + 1 /\ UNCHANGED <<buckets, task, owed>>
      BY <2>1 DEF Tick
    <3>2. TypeOK'
      BY <2>0, <3>1 DEF TypeOK, Tracked
    <3>3. \A t \in Threads : task'[t] # NoTask => task'[t].now <= clock'
      BY <2>0, <3>1 DEF BudgetInv, TypeOK, FrameTasks, SweepTasks
    <3>4. \A d \in Tracked : buckets[d].latest <= clock'
      BY <2>0, <3>1 DEF BudgetInv, TypeOK, Entries
    <3> QED
      BY <3>1, <3>2, <3>3, <3>4 DEF BudgetInv, Tracked
  <2>2. ASSUME NEW c \in Conns, OnDisconnect(c) PROVE BudgetInv'
    <3>1. owed' \in [Conns -> Int]
      BY <2>0, <2>2, ConsumeKeepsDebt DEF OnDisconnect, TypeOK
    <3> QED
      BY <2>0, <2>2, <3>1, ForgetStep DEF OnDisconnect, TypeOK
  <2>3. ASSUME NEW t \in Threads, NEW c \in Conns, ReceiveFrame(t, c)
        PROVE  BudgetInv'
    <3> DEFINE next == [stage |-> "admitPre", conn |-> c, now |-> clock]
    <3>1. next \in FrameTasks /\ next.now <= clock
      BY <2>0 DEF FrameTasks, TypeOK
    <3> QED
      BY <2>3, <3>1, TaskStep DEF ReceiveFrame
  <2>4. ASSUME NEW t \in Threads, NEW bytes \in Payloads, AdmitPre(t, bytes)
        PROVE  BudgetInv'
    <3> DEFINE next == [task[t] EXCEPT !.stage = "admit"]
               decision == PreAdmitFor(MessageSpec, bytes)
    <3>1. task[t] \in FrameTasks
      BY <2>0, <2>4 DEF AdmitPre, TypeOK, FrameTasks, SweepTasks, NoTask
    <3>2. next \in FrameTasks /\ next.now = task[t].now
      BY <3>1 DEF FrameTasks
    <3>3. task[t].now <= clock
      BY <3>1 DEF BudgetInv, FrameTasks, NoTask
    <3>4. decision.tokenCost \in Nat
      BY LimiterAssumption
    <3>5. Settle(t, decision, next) /\ clock' = clock
      BY <2>4 DEF AdmitPre
    <3> HIDE DEF next, decision
    <3> QED
      BY <3>1, <3>2, <3>3, <3>4, <3>5, SettleStep
  <2>5. ASSUME NEW t \in Threads, NEW decision \in CheckDecisions,
               AdmitStage(t, decision)
        PROVE  BudgetInv'
    <3>1. task[t] \in FrameTasks
      BY <2>0, <2>5 DEF AdmitStage, TypeOK, FrameTasks, SweepTasks, NoTask
    <3>2. decision.tokenCost \in Nat
      BY LimiterAssumption
    <3> QED
      BY <2>5, <3>1, <3>2, SettleStep DEF AdmitStage
  <2>6. ASSUME NEW t \in Threads, BeginSweep(t) PROVE BudgetInv'
    <3> DEFINE next == [stage |-> "sweep", now |-> clock]
    <3>1. next \in SweepTasks /\ next.now <= clock
      BY <2>0 DEF SweepTasks, TypeOK
    <3> QED
      BY <2>6, <3>1, TaskStep DEF BeginSweep
  <2>7. ASSUME NEW t \in Threads, SweepIdle(t) PROVE BudgetInv'
    BY <2>0, <2>7, ForgetStep DEF SweepIdle, TypeOK
  <2>8. CASE UNCHANGED vars
    BY <2>0, <2>8 DEF vars, BudgetInv, TypeOK, Tracked
  <2> QED
    BY <2>1, <2>2, <2>3, <2>4, <2>5, <2>6, <2>7, <2>8 DEF Next
<1> QED
  BY <1>1, <1>2, PTL DEF Spec

\* From the moment a connection is tracked until it is forgotten it spends at
\* most a full bucket and the refill of the times its frames carried.
THEOREM WithinBudgetHolds == Spec => []WithinBudget
<1>1. BudgetInv => WithinBudget
  <2> SUFFICES ASSUME BudgetInv, NEW c \in Tracked
               PROVE  buckets[c].spent <=
                        Capacity + Rate * (buckets[c].latest - buckets[c].since)
    BY DEF WithinBudget
  <2> DEFINE e == buckets[c]
  <2>1. /\ e.spent \in Nat /\ e.latest \in Nat /\ e.since \in Nat
        /\ e.zeroTime \in Int
        /\ e.zeroTime <= Rate * e.latest
        /\ e.zeroTime >= FullStartZeroTime(e.since) + e.spent
    BY DEF BudgetInv, TypeOK, Entries
  <2>2. Rate \in Nat /\ Capacity \in Nat
    BY BucketAssumption
  <2> HIDE DEF e
  <2>3. /\ Rate * (e.latest - e.since) = Rate * e.latest - Rate * e.since
        /\ Rate * e.latest \in Int /\ Rate * e.since \in Int
    BY <2>1, <2>2
  <2>4. e.spent <= Capacity + Rate * (e.latest - e.since)
    BY <2>1, <2>2, <2>3 DEF FullStartZeroTime
  <2> QED
    BY <2>4 DEF e
<1> QED
  BY <1>1, BudgetInvariance, PTL

\* Every variable keeps its type.
THEOREM TypeCorrect == Spec => []TypeOK
<1>1. BudgetInv => TypeOK
  BY DEF BudgetInv
<1> QED
  BY <1>1, BudgetInvariance, PTL

-----------------------------------------------------------------------------
\* SizeBounded is inductive once the map is known to be finite.
SizeInv == IsFiniteSet(Tracked) /\ SizeBounded

\* Whatever room is made leaves the map finite and one entry below its bound.
LEMMA RoomForOne ==
  ASSUME SizeInv, NEW kept \in MadeRoom, NEW c, c \notin Tracked
  PROVE  /\ IsFiniteSet(kept \cup {c})
         /\ Cardinality(kept \cup {c}) <=
              IF MaxConnections = 0 THEN 1 ELSE MaxConnections
<1>1. /\ IsFiniteSet(Tracked)
      /\ Cardinality(Tracked) \in Nat
      /\ Cardinality(Tracked) <= IF MaxConnections = 0 THEN 1 ELSE MaxConnections
      /\ MaxConnections \in Nat
  BY FS_CardinalityType, LimiterAssumption DEF SizeInv, SizeBounded
<1>2. CASE Cardinality(Tracked) >= MaxConnections /\ Tracked # {}
  <2>1. PICK d \in Tracked : kept = Tracked \ {d}
    BY <1>2 DEF MadeRoom, Oldest
  <2>2. IsFiniteSet(kept) /\ Cardinality(kept) = Cardinality(Tracked) - 1
    BY <1>1, <2>1, FS_RemoveElement
  <2>3. c \notin kept
    BY <2>1
  <2>4. /\ IsFiniteSet(kept \cup {c})
        /\ Cardinality(kept \cup {c}) = Cardinality(kept) + 1
    BY <2>2, <2>3, FS_AddElement
  <2> QED
    BY <1>1, <2>2, <2>4
<1>3. CASE ~(Cardinality(Tracked) >= MaxConnections /\ Tracked # {})
  <2>1. kept = Tracked
    BY <1>3 DEF MadeRoom
  <2>2. /\ IsFiniteSet(kept \cup {c})
        /\ Cardinality(kept \cup {c}) = Cardinality(Tracked) + 1
    BY <1>1, <2>1, FS_AddElement
  <2>3. Tracked = {} => Cardinality(Tracked) = 0
    BY FS_EmptySet
  <2> QED
    BY <1>1, <1>3, <2>2, <2>3
<1> QED
  BY <1>2, <1>3

\* The critical section of charge and penalize keeps the map within its bound.
LEMMA DebitKeepsSize ==
  ASSUME SizeInv, NEW c, NEW cost, NEW n, NEW granted, Debit(c, cost, n, granted)
  PROVE  SizeInv'
<1>1. PICK touched \in Touched(c, n) : Tracked' = DOMAIN touched
  BY DEF Debit, Tracked
<1>2. CASE c \in Tracked
  <2>1. DOMAIN touched = Tracked
    BY <1>2 DEF Touched, Tracked
  <2> QED
    BY <1>1, <2>1 DEF SizeInv, SizeBounded
<1>3. CASE c \notin Tracked
  <2>1. PICK kept \in MadeRoom : DOMAIN touched = kept \cup {c}
    BY <1>3 DEF Touched
  <2> QED
    BY <1>1, <1>3, <2>1, RoomForOne DEF SizeInv, SizeBounded
<1> QED
  BY <1>2, <1>3

\* A step that only forgets connections, or leaves the map alone, keeps the
\* map within its bound.
LEMMA ForgetKeepsSize ==
  ASSUME SizeInv, Tracked' \subseteq Tracked
  PROVE  SizeInv'
<1>1. /\ IsFiniteSet(Tracked')
      /\ Cardinality(Tracked') <= Cardinality(Tracked)
  BY FS_Subset DEF SizeInv
<1>2. Cardinality(Tracked) \in Nat /\ Cardinality(Tracked') \in Nat
  BY <1>1, FS_CardinalityType DEF SizeInv
<1>3. MaxConnections \in Nat
  BY LimiterAssumption
<1> QED
  BY <1>1, <1>2, <1>3 DEF SizeInv, SizeBounded

\* Both ends of a stage keep the map within its bound.
LEMMA SettleKeepsSize ==
  ASSUME SizeInv, NEW t, NEW decision, NEW next, Settle(t, decision, next)
  PROVE  SizeInv'
<1>1. CASE \E granted \in BOOLEAN :
             Debit(task[t].conn, decision.tokenCost, task[t].now, granted)
  BY <1>1, DebitKeepsSize
<1>2. CASE UNCHANGED buckets
  BY <1>2, ForgetKeepsSize DEF Tracked
<1> QED
  BY <1>1, <1>2 DEF Settle, Penalize, Charge

\* The map never outgrows its cap, whatever the number of connections and of
\* threads.
THEOREM SizeBoundedHolds == Spec => []SizeBounded
<1>1. Init => SizeInv
  <2> SUFFICES ASSUME Init PROVE SizeInv
    OBVIOUS
  <2>1. Tracked = {}
    BY DEF Init, Tracked
  <2> QED
    BY <2>1, FS_EmptySet, LimiterAssumption DEF SizeInv, SizeBounded
<1>2. SizeInv /\ [Next]_vars => SizeInv'
  <2> SUFFICES ASSUME SizeInv, [Next]_vars PROVE SizeInv'
    OBVIOUS
  <2>1. CASE UNCHANGED buckets
    BY <2>1, ForgetKeepsSize DEF Tracked
  <2>2. ASSUME NEW c \in Conns, OnDisconnect(c) PROVE SizeInv'
    BY <2>2, ForgetKeepsSize DEF OnDisconnect, Restrict, Tracked
  <2>3. ASSUME NEW t \in Threads, NEW bytes \in Payloads, AdmitPre(t, bytes)
        PROVE  SizeInv'
    BY <2>3, SettleKeepsSize DEF AdmitPre
  <2>4. ASSUME NEW t \in Threads, NEW decision \in CheckDecisions,
               AdmitStage(t, decision)
        PROVE  SizeInv'
    BY <2>4, SettleKeepsSize DEF AdmitStage
  <2>5. ASSUME NEW t \in Threads, SweepIdle(t) PROVE SizeInv'
    <3>1. Tracked' \subseteq Tracked
      BY <2>5 DEF SweepIdle, Restrict, Tracked
    <3> QED
      BY <3>1, ForgetKeepsSize
  <2> QED
    BY <2>1, <2>2, <2>3, <2>4, <2>5
    DEF Next, Tick, ReceiveFrame, BeginSweep, vars
<1>3. SizeInv => SizeBounded
  BY DEF SizeInv
<1> QED
  BY <1>1, <1>2, <1>3, PTL DEF Spec

-----------------------------------------------------------------------------
\* What the critical section of charge and penalize does to the entries there
\* were: the one of the frame keeps its debt, the others are left as they are,
\* and at most one of them goes, for want of room.
LEMMA DebitEffect ==
  ASSUME BudgetInv, NEW c \in Conns, NEW cost \in Nat, NEW n \in Nat,
         NEW granted \in BOOLEAN, Debit(c, cost, n, granted)
  PROVE  /\ \A d \in (Tracked \cap Tracked') \ {c} : buckets'[d] = buckets[d]
         /\ c \in Tracked => buckets'[c].zeroTime >= buckets[c].zeroTime
         /\ \E d : Tracked \ Tracked' \subseteq {d}
         /\ Tracked \subseteq Tracked' \/ Cardinality(Tracked) >= MaxConnections
<1> DEFINE paid == IF granted THEN cost ELSE 0
<1>0. TypeOK
  BY DEF BudgetInv
<1>1. PICK touched \in Touched(c, n) :
        buckets' = [touched EXCEPT
                      ![c].zeroTime = AfterConsume(@, cost, n),
                      ![c].spent = @ + paid]
  BY DEF Debit
<1>2. CASE c \in Tracked
  <2>1. touched = [buckets EXCEPT ![c].lastSeen = n,
                                  ![c].latest = IF @ < n THEN n ELSE @]
    BY <1>1, <1>2 DEF Touched
  <2>2. /\ DOMAIN touched = Tracked
        /\ touched[c].zeroTime = buckets[c].zeroTime
        /\ \A d \in Tracked \ {c} : touched[d] = buckets[d]
    BY <1>0, <1>2, <2>1 DEF TypeOK, Tracked, Entries
  <2>3. /\ Tracked' = Tracked
        /\ \A d \in Tracked \ {c} : buckets'[d] = touched[d]
        /\ buckets'[c] = [touched[c] EXCEPT
                            !.zeroTime = AfterConsume(touched[c].zeroTime, cost, n),
                            !.spent = touched[c].spent + paid]
    BY <1>1, <1>2, <2>2 DEF Tracked
  <2>4. touched[c] = [buckets[c] EXCEPT
                        !.lastSeen = n,
                        !.latest = IF buckets[c].latest < n THEN n ELSE buckets[c].latest]
    BY <1>0, <1>2, <2>1 DEF TypeOK, Tracked
  <2>5. buckets'[c].zeroTime = AfterConsume(buckets[c].zeroTime, cost, n)
    <3>1. buckets[c] \in Entries
      BY <1>0, <1>2 DEF TypeOK
    <3> QED
      BY <2>2, <2>3, <2>4, <3>1 DEF Entries
  <2>6. buckets[c].zeroTime \in Int
    BY <1>0, <1>2 DEF TypeOK, Entries
  <2>7. buckets'[c].zeroTime >= buckets[c].zeroTime
    BY <2>5, <2>6, ConsumeKeepsDebt
  <2>8. Tracked \ Tracked' \subseteq {c}
    BY <2>3
  <2> QED
    BY <2>2, <2>3, <2>7, <2>8
<1>3. CASE c \notin Tracked
  <2>1. PICK kept \in MadeRoom :
          touched = [d \in kept \cup {c} |->
                       IF d = c THEN NewEntry(n) ELSE buckets[d]]
    BY <1>1, <1>3 DEF Touched
  <2>2. /\ Tracked' = kept \cup {c}
        /\ \A d \in kept \ {c} : buckets'[d] = buckets[d]
    BY <1>1, <2>1 DEF Tracked
  <2>3. CASE Cardinality(Tracked) >= MaxConnections /\ Tracked # {}
    <3>1. PICK d \in Tracked : kept = Tracked \ {d}
      BY <2>1, <2>3 DEF MadeRoom, Oldest
    <3>2. Tracked \ Tracked' \subseteq {d}
      BY <2>2, <3>1
    <3> QED
      BY <1>3, <2>2, <2>3, <3>1, <3>2
  <2>4. CASE ~(Cardinality(Tracked) >= MaxConnections /\ Tracked # {})
    <3>1. kept = Tracked
      BY <2>1, <2>4 DEF MadeRoom
    <3> QED
      BY <1>3, <2>2, <3>1
  <2> QED
    BY <2>3, <2>4
<1> QED
  BY <1>2, <1>3

\* What one thread's stage does to the others' entries: as its critical
\* section, or nothing at all when a drop carries no penalty.
LEMMA StageEffect ==
  ASSUME BudgetInv, NEW t \in Threads, task[t] \in FrameTasks,
         NEW decision, decision.tokenCost \in Nat, NEW next,
         Settle(t, decision, next)
  PROVE  LET c == task[t].conn IN
         /\ \A d \in (Tracked \cap Tracked') \ {c} : buckets'[d] = buckets[d]
         /\ c \in Tracked \cap Tracked' => buckets'[c].zeroTime >= buckets[c].zeroTime
         /\ \E d : Tracked \ Tracked' \subseteq {d}
         /\ Tracked \subseteq Tracked' \/ Cardinality(Tracked) >= MaxConnections
         /\ task' \in {[task EXCEPT ![t] = next], [task EXCEPT ![t] = NoTask]}
<1> DEFINE c == task[t].conn
           n == task[t].now
<1>1. c \in Conns /\ n \in Nat
  BY DEF FrameTasks
<1>2. task' \in {[task EXCEPT ![t] = next], [task EXCEPT ![t] = NoTask]}
  <2>1. CASE Dropped(decision)
    BY <2>1 DEF Settle, Penalize
  <2>2. CASE ~Dropped(decision)
    <3>1. PICK granted \in BOOLEAN :
            task' = [task EXCEPT ![t] = IF granted THEN next ELSE NoTask]
      BY <2>2 DEF Settle, Charge
    <3>2. CASE granted
      BY <3>1, <3>2, Zenon
    <3>3. CASE ~granted
      BY <3>1, <3>3, Zenon
    <3> QED
      BY <3>2, <3>3
  <2> QED
    BY <2>1, <2>2
<1>3. CASE \E granted \in BOOLEAN : Debit(c, decision.tokenCost, n, granted)
  <2> HIDE DEF c, n
  <2> QED
    BY <1>1, <1>2, <1>3, DebitEffect DEF c
<1>4. CASE UNCHANGED buckets
  <2>1. Tracked' = Tracked
    BY <1>4 DEF Tracked
  <2>2. c \in Tracked => buckets[c].zeroTime \in Int
    BY DEF BudgetInv, TypeOK, Entries
  <2>3. Tracked \ Tracked' \subseteq {c}
    BY <2>1
  <2> QED
    BY <1>2, <1>4, <2>1, <2>2, <2>3
<1> QED
  BY <1>3, <1>4 DEF Settle, Penalize, Charge

\* The stages of a frame, as the steps that settle a decision.
LEMMA StagesSettle ==
  ASSUME BudgetInv, NEW t \in Threads,
         \/ \E bytes \in Payloads : AdmitPre(t, bytes)
         \/ \E decision \in CheckDecisions : AdmitStage(t, decision)
  PROVE  /\ task[t] \in FrameTasks
         /\ clock' = clock
         /\ \E decision, next :
              /\ decision.tokenCost \in Nat
              /\ next # NoTask => next.now = task[t].now
              /\ Settle(t, decision, next)
<1>0. TypeOK
  BY DEF BudgetInv
<1>1. ASSUME NEW bytes \in Payloads, AdmitPre(t, bytes)
      PROVE  /\ task[t] \in FrameTasks /\ clock' = clock
             /\ \E decision, next :
                  /\ decision.tokenCost \in Nat
                  /\ next # NoTask => next.now = task[t].now
                  /\ Settle(t, decision, next)
  <2>1. task[t] \in FrameTasks
    BY <1>0, <1>1 DEF AdmitPre, TypeOK, FrameTasks, SweepTasks, NoTask
  <2>2. PreAdmitFor(MessageSpec, bytes).tokenCost \in Nat
    BY LimiterAssumption
  <2>3. [task[t] EXCEPT !.stage = "admit"].now = task[t].now
    BY <2>1 DEF FrameTasks
  <2> QED
    BY <1>1, <2>1, <2>2, <2>3, Zenon DEF AdmitPre
<1>2. ASSUME NEW decision \in CheckDecisions, AdmitStage(t, decision)
      PROVE  /\ task[t] \in FrameTasks /\ clock' = clock
             /\ \E d, next :
                  /\ d.tokenCost \in Nat
                  /\ next # NoTask => next.now = task[t].now
                  /\ Settle(t, d, next)
  <2>1. task[t] \in FrameTasks
    BY <1>0, <1>2 DEF AdmitStage, TypeOK, FrameTasks, SweepTasks, NoTask
  <2>2. decision.tokenCost \in Nat
    BY LimiterAssumption
  <2> QED
    BY <1>2, <2>1, <2>2, Zenon DEF AdmitStage
<1> QED
  BY <1>1, <1>2

\* A bucket that stays in the map is debited or left alone: its debt is never
\* forgiven, whatever charges, penalties, evictions and sweeps interleave.
THEOREM DebtKeptHolds == Spec => DebtKept
<1> DEFINE Kept == \A c \in Tracked \cap Tracked' :
                     buckets'[c].zeroTime >= buckets[c].zeroTime
<1>1. BudgetInv /\ [Next]_vars => [Kept]_vars
  <2> SUFFICES ASSUME BudgetInv, Next PROVE Kept
    OBVIOUS
  <2>1. \A c \in Tracked : buckets[c].zeroTime \in Int
    BY DEF BudgetInv, TypeOK, Entries
  <2>2. CASE UNCHANGED buckets
    BY <2>1, <2>2 DEF Tracked
  <2>3. ASSUME NEW t \in Threads,
               \/ \E bytes \in Payloads : AdmitPre(t, bytes)
               \/ \E decision \in CheckDecisions : AdmitStage(t, decision)
        PROVE  Kept
    <3>1. /\ task[t] \in FrameTasks
          /\ \E decision, next : decision.tokenCost \in Nat /\ Settle(t, decision, next)
      BY <2>3, StagesSettle
    <3> QED
      BY <2>1, <3>1, StageEffect
  <2>4. ASSUME NEW kept, buckets' = Restrict(buckets, kept) PROVE Kept
    BY <2>1, <2>4 DEF Restrict, Tracked
  <2> QED
    BY <2>2, <2>3, <2>4
    DEF Next, Tick, OnDisconnect, ReceiveFrame, BeginSweep, SweepIdle
<1> QED
  BY <1>1, BudgetInvariance, PTL DEF Spec, DebtKept

\* A frame moves the tokens of its own connection only, and pushes out at most
\* one other, when the map is full.
THEOREM OthersUntouchedHolds == Spec => OthersUntouched
<1> DEFINE Spared(t) ==
             task[t].stage \in {"admitPre", "admit"} /\ task'[t] # task[t] =>
               /\ \A c \in (Tracked \cap Tracked') \ {task[t].conn} :
                    buckets'[c] = buckets[c]
               /\ Cardinality(Tracked \ Tracked') <= 1
               /\ Tracked \subseteq Tracked' \/ Cardinality(Tracked) >= MaxConnections
<1>1. BudgetInv /\ [Next]_vars => [\A t \in Threads : Spared(t)]_vars
  <2> SUFFICES ASSUME BudgetInv, Next, NEW t \in Threads,
                      task[t].stage \in {"admitPre", "admit"}, task'[t] # task[t]
               PROVE  Spared(t)
    OBVIOUS
  <2>0. TypeOK /\ task[t] # NoTask
    BY DEF BudgetInv, NoTask
  <2>1. ASSUME NEW u \in Threads, NEW next, task' = [task EXCEPT ![u] = next]
        PROVE  u = t
    BY <2>0, <2>1 DEF TypeOK
  <2>2. ASSUME NEW u \in Threads,
               \/ \E bytes \in Payloads : AdmitPre(u, bytes)
               \/ \E decision \in CheckDecisions : AdmitStage(u, decision)
        PROVE  Spared(t)
    <3>1. PICK decision, next : /\ task[u] \in FrameTasks
                                /\ decision.tokenCost \in Nat
                                /\ Settle(u, decision, next)
      BY <2>2, StagesSettle
    <3>2. /\ \A d \in (Tracked \cap Tracked') \ {task[u].conn} : buckets'[d] = buckets[d]
          /\ \E d : Tracked \ Tracked' \subseteq {d}
          /\ Tracked \subseteq Tracked' \/ Cardinality(Tracked) >= MaxConnections
          /\ task' \in {[task EXCEPT ![u] = next], [task EXCEPT ![u] = NoTask]}
      BY <3>1, StageEffect
    <3>3. u = t
      BY <2>1, <3>2
    <3>4. Cardinality(Tracked \ Tracked') <= 1
      <4>1. PICK d : Tracked \ Tracked' \subseteq {d}
        BY <3>2
      <4>2. IsFiniteSet({d}) /\ Cardinality({d}) = 1
        BY FS_Singleton
      <4> QED
        BY <4>1, <4>2, FS_Subset
    <3> QED
      BY <3>2, <3>3, <3>4
  <2>3. ASSUME NEW u \in Threads, NEW c \in Conns, ReceiveFrame(u, c) PROVE FALSE
    BY <2>0, <2>1, <2>3 DEF ReceiveFrame
  <2>4. ASSUME NEW u \in Threads, BeginSweep(u) PROVE FALSE
    BY <2>0, <2>1, <2>4 DEF BeginSweep
  <2>5. ASSUME NEW u \in Threads, SweepIdle(u) PROVE FALSE
    BY <2>0, <2>1, <2>5 DEF SweepIdle
  <2> QED
    BY <2>2, <2>3, <2>4, <2>5 DEF Next, Tick, OnDisconnect
<1> QED
  BY <1>1, BudgetInvariance, PTL DEF Spec, OthersUntouched

-----------------------------------------------------------------------------
(***************************************************************************)
(* What the limiter promises while one thread at a time serves frames and  *)
(* sweeps: the critical sections are then entered in the order of the      *)
(* times they carry.  With a second thread these properties fail (run      *)
(* sweep_of_seen shows how), so OneThread is a hypothesis here and not a   *)
(* convenience.                                                            *)
(***************************************************************************)

\* At most one thread.
OneThread == \A t, u \in Threads : t = u

\* The stamp of an entry is the latest time a frame of it carried, and the
\* bucket owes no more than the account that paid for all the connection was
\* granted, or was full when that frame was served.
Serial(entry, account) ==
  /\ entry.lastSeen = entry.latest
  /\ \/ entry.zeroTime <= account
     \/ entry.zeroTime <= FullStartZeroTime(entry.latest)

\* Nobody has seen a time later than n.
SeenBy(n) == \A c \in Tracked : buckets[c].latest <= n

\* The inductive invariant of a limiter served by one thread.
SerialInv ==
  /\ \A c \in Tracked : Serial(buckets[c], owed[c])
  /\ \A t \in Threads : task[t] # NoTask => SeenBy(task[t].now)

-----------------------------------------------------------------------------
\* A bucket that is full later is empty later.
LEMMA FullLater ==
  ASSUME NEW m \in Nat, NEW n \in Nat, m <= n
  PROVE  /\ FullStartZeroTime(m) \in Int
         /\ FullStartZeroTime(n) \in Int
         /\ FullStartZeroTime(m) <= FullStartZeroTime(n)
<1>1. Rate \in Nat /\ Capacity \in Nat
  BY BucketAssumption
<1>2. Rate * m \in Int /\ Rate * n \in Int /\ Rate * m <= Rate * n
  BY <1>1
<1> QED
  BY <1>1, <1>2 DEF FullStartZeroTime

\* A bucket that owes no more than its account, or is full, still owes no more
\* after both have paid what the bucket could afford.
LEMMA PaidAlike ==
  ASSUME NEW z \in Int, NEW o \in Int, NEW cost \in Nat, NEW n \in Nat,
         Affordable(z, cost, n), z <= o \/ z <= FullStartZeroTime(n)
  PROVE  Debited(z, cost, n) <= OnAccount(o, cost, n)
<1> DEFINE top == Rate * n
<1>1. top \in Int /\ Capacity \in Nat /\ MaxDebt \in Nat
  BY BucketAssumption, LimiterAssumption
<1>2. /\ Debited(z, cost, n) = top - (Balance(z, n) - cost)
      /\ Debited(o, cost, n) = top - (Balance(o, n) - cost)
      /\ Balance(z, n) = IF top - z < Capacity THEN top - z ELSE Capacity
      /\ Balance(o, n) = IF top - o < Capacity THEN top - o ELSE Capacity
      /\ FullStartZeroTime(n) = top - Capacity
      /\ Balance(z, n) >= cost
      /\ OnAccount(o, cost, n) = IF Debited(o, cost, n) > top + MaxDebt THEN top + MaxDebt
                                 ELSE Debited(o, cost, n)
  BY DEF Debited, Balance, FullStartZeroTime, Affordable, OnAccount
<1> HIDE DEF top
<1>3. /\ Balance(z, n) \in Int
      /\ Balance(o, n) \in Int
      /\ Balance(o, n) <= Balance(z, n)
  BY <1>1, <1>2
<1> QED
  BY <1>1, <1>2, <1>3

-----------------------------------------------------------------------------
\* touchBucket at a time nobody has seen a later one than: every entry it
\* leaves is serial, the one of the frame is stamped with that time, and only
\* one that has been quiet longest is pushed out.
LEMMA TouchedSerial ==
  ASSUME BudgetInv, NEW c \in Conns, NEW n \in Nat, SeenBy(n),
         \A d \in Tracked : Serial(buckets[d], owed[d]),
         NEW touched \in Touched(c, n)
  PROVE  /\ \A d \in DOMAIN touched :
              Serial(touched[d], owed[d]) /\ touched[d].latest <= n
         /\ touched[c].latest = n
         /\ Tracked \ DOMAIN touched \subseteq Oldest
<1>0. TypeOK
  BY DEF BudgetInv
<1>1. CASE c \in Tracked
  <2>1. touched = [buckets EXCEPT ![c].lastSeen = n,
                                  ![c].latest = IF @ < n THEN n ELSE @]
    BY <1>1 DEF Touched
  <2>2. buckets[c] \in Entries /\ buckets[c].latest <= n
    BY <1>0, <1>1 DEF TypeOK, SeenBy
  <2> DEFINE later == IF buckets[c].latest < n THEN n ELSE buckets[c].latest
  <2>3. later = n
    BY <2>2 DEF Entries
  <2>4. /\ DOMAIN touched = Tracked
        /\ touched[c] = [buckets[c] EXCEPT !.lastSeen = n, !.latest = later]
        /\ \A d \in Tracked \ {c} : touched[d] = buckets[d]
    BY <1>0, <1>1, <2>1 DEF TypeOK, Tracked
  <2>5. /\ touched[c].latest = n
        /\ touched[c].lastSeen = n
        /\ touched[c].zeroTime = buckets[c].zeroTime
    BY <2>2, <2>3, <2>4 DEF Entries
  <2>6. FullStartZeroTime(buckets[c].latest) <= FullStartZeroTime(n)
        /\ FullStartZeroTime(buckets[c].latest) \in Int
        /\ FullStartZeroTime(n) \in Int
    BY <2>2, FullLater DEF Entries
  <2>7. Serial(touched[c], owed[c])
    BY <1>0, <1>1, <2>2, <2>5, <2>6 DEF Serial, Entries, TypeOK
  <2>8. \A d \in Tracked : Serial(touched[d], owed[d]) /\ touched[d].latest <= n
    <3> SUFFICES ASSUME NEW d \in Tracked
                 PROVE  Serial(touched[d], owed[d]) /\ touched[d].latest <= n
      OBVIOUS
    <3>1. CASE d = c
      BY <2>5, <2>7, <3>1
    <3>2. CASE d # c
      BY <2>4, <3>2 DEF SeenBy
    <3> QED
      BY <3>1, <3>2
  <2>9. Tracked \ DOMAIN touched \subseteq Oldest
    BY <2>4
  <2> QED
    BY <2>4, <2>5, <2>8, <2>9
<1>2. CASE c \notin Tracked
  <2>1. PICK kept \in MadeRoom :
          touched = [d \in kept \cup {c} |->
                       IF d = c THEN NewEntry(n) ELSE buckets[d]]
    BY <1>2 DEF Touched
  <2>2. kept \subseteq Tracked /\ Tracked \ kept \subseteq Oldest
    BY <2>1 DEF MadeRoom, Oldest
  <2>3. Serial(NewEntry(n), owed[c]) /\ NewEntry(n).latest = n
    BY FullLater DEF Serial, NewEntry
  <2> QED
    BY <1>2, <2>1, <2>2, <2>3 DEF SeenBy
<1> QED
  BY <1>1, <1>2

\* The critical section of charge and penalize, at a time nobody has seen a
\* later one than, keeps every entry serial.
LEMMA DebitSerial ==
  ASSUME BudgetInv, NEW c \in Conns, NEW cost \in Nat, NEW n \in Nat,
         n <= clock, SeenBy(n),
         \A d \in Tracked : Serial(buckets[d], owed[d]),
         NEW granted \in BOOLEAN, Debit(c, cost, n, granted)
  PROVE  /\ \A d \in Tracked' : Serial(buckets'[d], owed'[d])
         /\ \A d \in Tracked' : buckets'[d].latest <= n
         /\ Tracked \ Tracked' \subseteq Oldest
<1> DEFINE paid == IF granted THEN cost ELSE 0
<1>0. TypeOK
  BY DEF BudgetInv
<1>1. PICK touched \in Touched(c, n) :
        /\ granted = Consumes(touched[c].zeroTime, cost, n)
        /\ buckets' = [touched EXCEPT
                         ![c].zeroTime = AfterConsume(@, cost, n),
                         ![c].spent = @ + paid]
        /\ owed' = [owed EXCEPT ![c] = IF paid = 0 THEN @
                                        ELSE OnAccount(@, paid, n)]
  BY DEF Debit
<1>2. /\ touched \in [DOMAIN touched -> Entries]
      /\ c \in DOMAIN touched
  BY TouchedEntries
<1>3. /\ \A d \in DOMAIN touched :
           Serial(touched[d], owed[d]) /\ touched[d].latest <= n
      /\ touched[c].latest = n
      /\ Tracked \ DOMAIN touched \subseteq Oldest
  BY TouchedSerial
<1> DEFINE e == touched[c]
           z == AfterConsume(e.zeroTime, cost, n)
           s == e.spent + paid
<1>4. /\ Tracked' = DOMAIN touched
      /\ buckets'[c] = [e EXCEPT !.zeroTime = z, !.spent = s]
      /\ \A d \in DOMAIN touched \ {c} : buckets'[d] = touched[d]
      /\ \A d \in Conns \ {c} : owed'[d] = owed[d]
  BY <1>0, <1>1, <1>2 DEF Tracked, TypeOK
<1>5. e \in Entries /\ Serial(e, owed[c]) /\ e.latest = n /\ owed[c] \in Int
  BY <1>0, <1>2, <1>3 DEF TypeOK
<1>6. z <= owed'[c] \/ z <= FullStartZeroTime(n)
  <2>1. CASE granted /\ cost > 0
    <3>1. Affordable(e.zeroTime, cost, n)
      <4>1. Consumes(e.zeroTime, cost, n)
        BY <1>1, <2>1, Zenon DEF e
      <4> QED
        BY <2>1, <4>1 DEF Consumes
    <3>2. z = Debited(e.zeroTime, cost, n)
      BY <2>1, <3>1 DEF AfterConsume
    <3>3. owed'[c] = OnAccount(owed[c], cost, n)
      BY <1>0, <1>1, <2>1 DEF TypeOK
    <3>4. e.zeroTime \in Int
          /\ (e.zeroTime <= owed[c] \/ e.zeroTime <= FullStartZeroTime(n))
      BY <1>5 DEF Entries, Serial
    <3> HIDE DEF e, z
    <3> QED
      BY <1>5, <3>1, <3>2, <3>3, <3>4, PaidAlike
  <2>2. CASE ~(granted /\ cost > 0)
    <3>1. paid = 0
      BY <2>2
    <3>2. owed'[c] = owed[c]
      BY <1>0, <1>1, <3>1 DEF TypeOK
    <3>3. z = e.zeroTime
      <4>1. CASE cost = 0
        BY <4>1 DEF AfterConsume
      <4>2. CASE cost > 0
        <5>1. ~granted
          BY <2>2, <4>2
        <5>2. ~Consumes(e.zeroTime, cost, n)
          BY <1>1, <5>1, Zenon DEF e
        <5> QED
          BY <5>2 DEF AfterConsume, Consumes
      <4> QED
        BY <4>1, <4>2
    <3> QED
      BY <1>5, <3>2, <3>3 DEF Serial
  <2> QED
    BY <2>1, <2>2
<1> HIDE DEF z, e, s
<1>7. /\ buckets'[c].zeroTime = z
      /\ buckets'[c].latest = n
      /\ buckets'[c].lastSeen = n
  BY <1>4, <1>5 DEF Entries, Serial
<1>8. Serial(buckets'[c], owed'[c])
  BY <1>6, <1>7 DEF Serial
<1>9. Tracked' \subseteq Conns
  BY DebitKeepsBudget
<1>10. \A d \in Tracked' : Serial(buckets'[d], owed'[d])
  BY <1>3, <1>4, <1>8, <1>9
<1>11. \A d \in Tracked' : buckets'[d].latest <= n
  BY <1>3, <1>4, <1>7 DEF SeenBy
<1> QED
  BY <1>3, <1>4, <1>10, <1>11

\* A stage served by the only thread keeps the invariant, and pushes out only
\* one that has been quiet longest.
LEMMA ServedSerial ==
  ASSUME OneThread, BudgetInv, SerialInv, NEW t \in Threads,
         \/ \E bytes \in Payloads : AdmitPre(t, bytes)
         \/ \E decision \in CheckDecisions : AdmitStage(t, decision)
  PROVE  SerialInv' /\ Tracked \ Tracked' \subseteq Oldest
<1> DEFINE c == task[t].conn
           n == task[t].now
<1>1. PICK decision, next : /\ decision.tokenCost \in Nat
                            /\ next # NoTask => next.now = n
                            /\ Settle(t, decision, next)
  BY StagesSettle
<1>2. task[t] \in FrameTasks /\ clock' = clock
  BY StagesSettle
<1>3. /\ c \in Conns /\ n \in Nat
      /\ task[t] # NoTask
  BY <1>2 DEF FrameTasks, NoTask
<1>4. n <= clock /\ SeenBy(n) /\ \A d \in Tracked : Serial(buckets[d], owed[d])
  BY <1>3 DEF BudgetInv, SerialInv
<1>5. task' \in {[task EXCEPT ![t] = next], [task EXCEPT ![t] = NoTask]}
  BY <1>1, <1>2, StageEffect
<1>6. \/ \E granted \in BOOLEAN : Debit(c, decision.tokenCost, n, granted)
      \/ UNCHANGED <<buckets, owed>>
  BY <1>1 DEF Settle, Penalize, Charge
<1> HIDE DEF c, n
<1>7. /\ \A d \in Tracked' : Serial(buckets'[d], owed'[d])
      /\ \A d \in Tracked' : buckets'[d].latest <= n
      /\ Tracked \ Tracked' \subseteq Oldest
  <2>1. CASE UNCHANGED <<buckets, owed>>
    BY <1>4, <2>1 DEF Tracked, SeenBy
  <2>2. ASSUME NEW granted \in BOOLEAN, Debit(c, decision.tokenCost, n, granted)
        PROVE  /\ \A d \in Tracked' : Serial(buckets'[d], owed'[d])
               /\ \A d \in Tracked' : buckets'[d].latest <= n
               /\ Tracked \ Tracked' \subseteq Oldest
    BY <1>1, <1>3, <1>4, <2>2, DebitSerial
  <2> QED
    BY <1>6, <2>1, <2>2
<1>8. ASSUME NEW u \in Threads, task'[u] # NoTask PROVE \A d \in Tracked' : buckets'[d].latest <= task'[u].now
  <2>1. u = t /\ task \in [Threads -> {NoTask} \cup FrameTasks \cup SweepTasks]
    BY DEF OneThread, BudgetInv, TypeOK
  <2>2. task'[u] = next \/ task'[u] = NoTask
    BY <1>5, <2>1
  <2>3. task'[u].now = n
    BY <1>1, <1>8, <2>2
  <2> QED
    BY <1>7, <2>3
<1> QED
  BY <1>7, <1>8 DEF SerialInv, SeenBy

\* A step that only forgets connections keeps the invariant, whatever becomes
\* of the accounts of those it forgets.
LEMMA ForgottenSerial ==
  ASSUME SerialInv, NEW kept \in SUBSET Tracked,
         buckets' = Restrict(buckets, kept),
         \A d \in kept : owed'[d] = owed[d],
         \A u \in Threads : task'[u] = NoTask \/ task'[u] = task[u]
  PROVE  SerialInv'
<1>1. Tracked' = kept /\ \A d \in kept : buckets'[d] = buckets[d]
  BY DEF Tracked, Restrict
<1> QED
  BY <1>1 DEF SerialInv, SeenBy

\* Served by one thread, every bucket stays at least as full as the account
\* that paid for all its connection was granted, or was full when last seen; and
\* no entry carries a stamp later than the time the thread has read.
THEOREM SerialInvariance ==
  ASSUME OneThread
  PROVE  Spec => []SerialInv
<1>1. Init => SerialInv
  BY DEF Init, SerialInv, Tracked
<1>2. BudgetInv /\ SerialInv /\ [Next]_vars => SerialInv'
  <2> SUFFICES ASSUME BudgetInv, SerialInv, [Next]_vars PROVE SerialInv'
    OBVIOUS
  <2>0. TypeOK
    BY DEF BudgetInv
  <2>1. CASE Tick
    BY <2>1 DEF Tick, SerialInv, SeenBy, Tracked
  <2>2. ASSUME NEW c \in Conns, OnDisconnect(c) PROVE SerialInv'
    <3>1. \A d \in Tracked \ {c} : owed'[d] = owed[d]
      BY <2>0, <2>2 DEF OnDisconnect, TypeOK
    <3> QED
      BY <2>2, <3>1, ForgottenSerial DEF OnDisconnect
  <2>3. ASSUME NEW t \in Threads, NEW next, next.now = clock,
               task' = [task EXCEPT ![t] = next], UNCHANGED <<buckets, owed>>
        PROVE  SerialInv'
    <3>1. SeenBy(clock)
      BY DEF BudgetInv, SeenBy
    <3>2. \A u \in Threads : task'[u] = next \/ task'[u] = task[u]
      BY <2>0, <2>3 DEF TypeOK
    <3> QED
      BY <2>3, <3>1, <3>2 DEF SerialInv, SeenBy, Tracked
  <2>4. ASSUME NEW t \in Threads, NEW c \in Conns, ReceiveFrame(t, c)
        PROVE  SerialInv'
    <3> DEFINE next == [stage |-> "admitPre", conn |-> c, now |-> clock]
    <3>1. next.now = clock
      OBVIOUS
    <3> HIDE DEF next
    <3> QED
      BY <2>3, <2>4, <3>1 DEF ReceiveFrame, next
  <2>5. ASSUME NEW t \in Threads,
               \/ \E bytes \in Payloads : AdmitPre(t, bytes)
               \/ \E decision \in CheckDecisions : AdmitStage(t, decision)
        PROVE  SerialInv'
    BY <2>5, ServedSerial
  <2>6. ASSUME NEW t \in Threads, BeginSweep(t) PROVE SerialInv'
    BY <2>3, <2>6 DEF BeginSweep
  <2>7. ASSUME NEW t \in Threads, SweepIdle(t) PROVE SerialInv'
    <3>1. \A u \in Threads : task'[u] = NoTask \/ task'[u] = task[u]
      BY <2>0, <2>7 DEF SweepIdle, TypeOK
    <3> QED
      BY <2>7, <3>1, ForgottenSerial DEF SweepIdle
  <2>8. CASE UNCHANGED vars
    BY <2>8 DEF vars, SerialInv, SeenBy, Tracked
  <2> QED
    BY <2>1, <2>2, <2>4, <2>5, <2>6, <2>7, <2>8 DEF Next
<1> QED
  BY <1>1, <1>2, BudgetInvariance, PTL DEF Spec

-----------------------------------------------------------------------------
\* Refusals are earned: when a frame is charged, the bucket of its connection
\* holds no less than the account that paid for all the connection was granted.
THEOREM RefusalsEarnedHolds ==
  ASSUME OneThread
  PROVE  Spec => []RefusalsEarned
<1>1. BudgetInv /\ SerialInv => RefusalsEarned
  <2> SUFFICES ASSUME BudgetInv, SerialInv, NEW t \in Threads,
                      task[t].stage \in {"admitPre", "admit"},
                      task[t].conn \in Tracked
               PROVE  Balance(buckets[task[t].conn].zeroTime, task[t].now)
                        >= Balance(owed[task[t].conn], task[t].now)
    BY DEF RefusalsEarned
  <2> DEFINE c == task[t].conn
             n == task[t].now
             z == buckets[c].zeroTime
             o == owed[c]
             top == Rate * n
             seen == buckets[c].latest
  <2>0. /\ task[t] \in FrameTasks /\ task[t] # NoTask /\ n \in Nat
        /\ c \in Tracked /\ c \in Conns
    BY DEF BudgetInv, TypeOK, FrameTasks, SweepTasks, NoTask
  <2> HIDE DEF c, n
  <2>1. /\ z \in Int /\ o \in Int
        /\ seen \in Nat /\ seen <= n
    <3>1. SeenBy(n)
      BY <2>0 DEF SerialInv, n
    <3> QED
      BY <2>0, <3>1 DEF BudgetInv, TypeOK, Entries, SeenBy
  <2>2. z <= o \/ z <= FullStartZeroTime(seen)
    BY <2>0 DEF SerialInv, Serial
  <2>3. top \in Int /\ Capacity \in Nat
    BY <2>0, BucketAssumption
  <2>4. z <= o \/ z <= top - Capacity
    <3>1. /\ FullStartZeroTime(seen) \in Int
          /\ FullStartZeroTime(seen) <= FullStartZeroTime(n)
      BY <2>0, <2>1, FullLater
    <3>2. FullStartZeroTime(n) = top - Capacity
      BY DEF FullStartZeroTime
    <3> HIDE DEF z, o, top, seen
    <3> QED
      BY <2>1, <2>2, <2>3, <3>1, <3>2
  <2>5. /\ Balance(z, n) = IF top - z < Capacity THEN top - z ELSE Capacity
        /\ Balance(o, n) = IF top - o < Capacity THEN top - o ELSE Capacity
    BY DEF Balance
  <2> HIDE DEF z, o, top
  <2>6. Balance(z, n) >= Balance(o, n)
    BY <2>1, <2>3, <2>4, <2>5
  <2> QED
    BY <2>6 DEF z, o, c, n
<1> QED
  BY <1>1, BudgetInvariance, SerialInvariance, PTL

\* What the only thread's sweep removes: connections whose stamp, which is the
\* latest time any of their frames carried, lies idleFor before the sweep.
LEMMA SweepRemovesIdle ==
  ASSUME OneThread, BudgetInv, SerialInv, Next,
         NEW t \in Threads, NEW c \in Tracked \ Tracked',
         task[t].stage = "sweep", task'[t] = NoTask
  PROVE  /\ task[t].now \in Nat
         /\ task[t].now - buckets[c].latest >= IdleFor
<1>0. /\ task \in [Threads -> {NoTask} \cup FrameTasks \cup SweepTasks]
      /\ \A u \in Threads : u = t
  BY DEF BudgetInv, TypeOK, OneThread
<1>1. task[t] \in SweepTasks /\ task'[t] # task[t]
  BY <1>0 DEF FrameTasks, SweepTasks, NoTask
<1>2. SweepIdle(t)
  BY <1>0, <1>1 DEF Next, Tick, OnDisconnect, ReceiveFrame, AdmitPre, AdmitStage,
                    BeginSweep, SweepTasks, NoTask
<1>3. Idle(c, task[t].now)
  BY <1>2 DEF SweepIdle, Restrict, Tracked
<1>4. buckets[c].lastSeen = buckets[c].latest
  BY DEF SerialInv, Serial
<1> QED
  BY <1>1, <1>3, <1>4 DEF Idle, SweepTasks

\* A sweep removes only connections none of whose frames carried a time within
\* idleFor of it.
THEOREM SweepSparesSeenHolds ==
  ASSUME OneThread
  PROVE  Spec => SweepSparesSeen
<1> DEFINE Spares == \A t \in Threads, c \in Tracked \ Tracked' :
                       task[t].stage = "sweep" /\ task'[t] = NoTask =>
                         task[t].now - buckets[c].latest >= IdleFor
<1>1. BudgetInv /\ SerialInv /\ [Next]_vars => [Spares]_vars
  BY SweepRemovesIdle
<1> QED
  BY <1>1, BudgetInvariance, SerialInvariance, PTL DEF Spec, SweepSparesSeen

\* A bucket untouched for as long as it takes to refill it is full.
LEMMA RefilledIsFull ==
  ASSUME NEW z \in Int, NEW seen \in Nat, NEW n \in Nat, NEW idle \in Nat,
         z <= Rate * seen, n - seen >= idle, idle * Rate >= Capacity
  PROVE  Available(z, n) = Capacity
<1> DEFINE filled == Rate * n - z
<1>1. Rate \in Nat /\ Capacity \in Nat
  BY BucketAssumption
<1>2. /\ Rate * n \in Int /\ Rate * seen \in Int /\ idle * Rate \in Int
      /\ Rate * n - Rate * seen = Rate * (n - seen)
      /\ Rate * (n - seen) >= Rate * idle
      /\ Rate * idle = idle * Rate
  <2>1. n - seen \in Nat
    OBVIOUS
  <2> DEFINE d == n - seen
  <2>2. Rate * (seen + d) = Rate * seen + Rate * d
    BY <1>1, <2>1
  <2>3. n = seen + d
    OBVIOUS
  <2>4. Rate * d \in Int /\ Rate * idle \in Int /\ Rate * seen \in Int
    BY <1>1, <2>1
  <2>5. Rate * d >= Rate * idle
    BY <1>1, <2>1
  <2> QED
    BY <1>1, <2>2, <2>3, <2>4, <2>5
<1>3. filled >= Capacity
  BY <1>1, <1>2
<1>4. Balance(z, n) = Capacity
  BY <1>1, <1>2, <1>3 DEF Balance
<1> QED
  BY <1>1, <1>4 DEF Available

\* A sweep whose idle time refills a bucket removes none but full ones.
THEOREM SweepForgivesNothingHolds ==
  ASSUME OneThread
  PROVE  Spec => SweepForgivesNothing
<1> DEFINE Forgives == \A t \in Threads, c \in Tracked \ Tracked' :
             task[t].stage = "sweep" /\ task'[t] = NoTask /\ IdleFor * Rate >= Capacity =>
               Available(buckets[c].zeroTime, task[t].now) = Capacity
<1>1. BudgetInv /\ SerialInv /\ [Next]_vars => [Forgives]_vars
  <2> SUFFICES ASSUME BudgetInv, SerialInv, Next,
                      NEW t \in Threads, NEW c \in Tracked \ Tracked',
                      task[t].stage = "sweep", task'[t] = NoTask,
                      IdleFor * Rate >= Capacity
               PROVE  Available(buckets[c].zeroTime, task[t].now) = Capacity
    OBVIOUS
  <2>1. /\ task[t].now \in Nat
        /\ task[t].now - buckets[c].latest >= IdleFor
    BY SweepRemovesIdle
  <2>2. /\ buckets[c].zeroTime \in Int
        /\ buckets[c].latest \in Nat
        /\ buckets[c].zeroTime <= Rate * buckets[c].latest
    BY DEF BudgetInv, TypeOK, Entries
  <2> QED
    BY <2>1, <2>2, RefilledIsFull, LimiterAssumption
<1> QED
  BY <1>1, BudgetInvariance, SerialInvariance, PTL DEF Spec, SweepForgivesNothing

\* Whoever is pushed out for a newcomer has been quiet longest.
THEOREM EvictsQuietestHolds ==
  ASSUME OneThread
  PROVE  Spec => EvictsQuietest
<1> DEFINE Evicts == \A c \in Tracked \ Tracked' :
             Tracked' \ Tracked # {} =>
               \A d \in Tracked : buckets[c].latest <= buckets[d].latest
<1>1. BudgetInv /\ SerialInv /\ [Next]_vars => [Evicts]_vars
  <2> SUFFICES ASSUME BudgetInv, SerialInv, Next PROVE Evicts
    OBVIOUS
  <2>1. CASE Tracked' \subseteq Tracked
    BY <2>1
  <2>2. ASSUME NEW t \in Threads,
               \/ \E bytes \in Payloads : AdmitPre(t, bytes)
               \/ \E decision \in CheckDecisions : AdmitStage(t, decision)
        PROVE  Evicts
    <3>1. Tracked \ Tracked' \subseteq Oldest
      BY <2>2, ServedSerial
    <3>2. \A d \in Tracked : buckets[d].lastSeen = buckets[d].latest
      BY DEF SerialInv, Serial
    <3> QED
      BY <3>1, <3>2 DEF Oldest
  <2>3. CASE UNCHANGED buckets
    BY <2>1, <2>3 DEF Tracked
  <2>4. ASSUME NEW c \in Conns, OnDisconnect(c) PROVE Evicts
    BY <2>1, <2>4 DEF OnDisconnect, Restrict, Tracked
  <2>5. ASSUME NEW t \in Threads, SweepIdle(t) PROVE Evicts
    BY <2>1, <2>5 DEF SweepIdle, Restrict, Tracked
  <2> QED
    BY <2>2, <2>3, <2>4, <2>5 DEF Next, Tick, ReceiveFrame, BeginSweep
<1> QED
  BY <1>1, BudgetInvariance, SerialInvariance, PTL DEF Spec, EvictsQuietest
=============================================================================
