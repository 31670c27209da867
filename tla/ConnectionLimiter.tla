------------------------- MODULE ConnectionLimiter -------------------------
(***************************************************************************)
(* ConnectionLimiter.hpp: one token bucket per connection in a map of      *)
(* bounded size behind a mutex, and the two admission stages of a frame.   *)
(*                                                                         *)
(* Threads serve frames as AdmissionSpec.hpp prescribes: read the clock    *)
(* once, admitPre, and when that admits, admit.  What a stage decides is   *)
(* computed outside the mutex; what it does to the map is one critical     *)
(* section and one step here.  Between the reading of the clock and each   *)
(* critical section the other threads run, so sections are entered in any  *)
(* order of the times they carry.                                          *)
(*                                                                         *)
(* Each entry carries three history fields the code does not have (since,  *)
(* spent, latest), and owed is a history variable: for each connection an  *)
(* account that pays for every token the limiter grants it, out of the     *)
(* same burst and refill, and goes into debt when it must.                 *)
(***************************************************************************)
EXTENDS TokenBucket, AdmissionSpec, FiniteSets, Functions

CONSTANTS
  Conns,           \* connection ids
  Threads,         \* threads that serve frames or sweep
  MaxConnections,  \* the cap given to the constructor
  MessageSpec,     \* the AdmissionSpec of the message type
  Payloads,        \* payload sizes of the frames
  CheckDecisions,  \* what a visitor driving the type's check can return
  IdleFor,         \* the argument of sweepIdle
  MaxTime,         \* bound on the clock
  MaxDebt          \* bound on the debt of an account, in tokens

ASSUME LimiterAssumption ==
  /\ MaxConnections \in Nat
  /\ IdleFor \in Nat
  /\ MaxTime \in Nat
  /\ MaxDebt \in Nat
  /\ \A d \in CheckDecisions : d.tokenCost \in Nat
  /\ \A bytes \in Payloads : PreAdmitFor(MessageSpec, bytes).tokenCost \in Nat

VARIABLES
  clock,    \* the steady clock
  buckets,  \* the map, from the tracked connections to their entries
  task,     \* what each thread is about to do, with the time it has read
  owed      \* history: zeroTime of the account of each connection

vars == <<clock, buckets, task, owed>>

Tracked == DOMAIN buckets

\* A thread is idle, on its way to one of the two stages of a frame, or on its
\* way to a sweep.
NoTask == [stage |-> "idle"]
FrameTasks == [stage : {"admitPre", "admit"}, conn : Conns, now : Nat]
SweepTasks == [stage : {"sweep"}, now : Nat]

Init ==
  /\ clock = 0
  /\ buckets = [c \in {} |-> c]
  /\ task = [t \in Threads |-> NoTask]
  /\ owed = [c \in Conns |-> FullStartZeroTime(0)]

-----------------------------------------------------------------------------
\* A slip: a bucket that starts empty.
NewEntryEmpty(n) ==
  [zeroTime |-> Rate * n, lastSeen |-> n, since |-> n, spent |-> 0, latest |-> n]

\* The entry of a connection seen for the first time at n.
NewEntry(n) ==
  [zeroTime |-> FullStartZeroTime(n), lastSeen |-> n,
   since |-> n, spent |-> 0, latest |-> n]

\* A slip: whichever entry the iteration meets first.
AnyTracked == Tracked

\* The connections evictOldest may choose: the map is unordered, so any of
\* those with the least stamp.
Oldest ==
  {c \in Tracked : \A d \in Tracked : buckets[c].lastSeen <= buckets[d].lastSeen}

\* A slip: room is made one entry too late.
MadeRoomLate ==
  IF Cardinality(Tracked) > MaxConnections /\ Tracked # {}
  THEN {Tracked \ {c} : c \in Oldest}
  ELSE {Tracked}

\* A slip: room is made by forgetting everybody.
MadeRoomForAll ==
  IF Cardinality(Tracked) >= MaxConnections THEN {{}} ELSE {Tracked}

\* The tracked connections once there is room for one more.  An empty map has
\* nobody to evict, even when no connection at all may be tracked.
MadeRoom ==
  IF Cardinality(Tracked) >= MaxConnections /\ Tracked # {}
  THEN {Tracked \ {c} : c \in Oldest}
  ELSE {Tracked}

\* A slip: a connection that is found is not stamped.
TouchedUnstamped(c, n) ==
  IF c \in Tracked
  THEN {[buckets EXCEPT ![c].latest = IF @ < n THEN n ELSE @]}
  ELSE {[d \in kept \cup {c} |-> IF d = c THEN NewEntry(n) ELSE buckets[d]] :
          kept \in MadeRoom}

\* A slip: a connection that is found gets a new bucket all the same.
TouchedAnew(c, n) ==
  {[d \in Tracked \cup {c} |-> IF d = c THEN NewEntry(n) ELSE buckets[d]]}

\* touchBucket: the maps it may leave behind, with c in it and stamped n.
Touched(c, n) ==
  IF c \in Tracked
  THEN {[buckets EXCEPT ![c].lastSeen = n,
                        ![c].latest = IF @ < n THEN n ELSE @]}
  ELSE {[d \in kept \cup {c} |-> IF d = c THEN NewEntry(n) ELSE buckets[d]] :
          kept \in MadeRoom}

\* A debit of an account, whatever its balance.  What exceeds MaxDebt is let
\* go, which leaves the account richer than it should be.
OnAccount(zeroTime, paid, n) ==
  LET debited == Debited(zeroTime, paid, n)
      deepest == Rate * n + MaxDebt
  IN  IF debited > deepest THEN deepest ELSE debited

\* The critical section of charge and of penalize: touch, then tryConsume.
\* granted is what tryConsume returned.
Debit(c, cost, n, granted) ==
  \E touched \in Touched(c, n) :
    LET paid == IF granted THEN cost ELSE 0 IN
    /\ granted = Consumes(touched[c].zeroTime, cost, n)
    /\ buckets' = [touched EXCEPT
                     ![c].zeroTime = AfterConsume(@, cost, n),
                     ![c].spent = @ + paid]
    /\ owed' = [owed EXCEPT ![c] = IF paid = 0 THEN @ ELSE OnAccount(@, paid, n)]

\* charge: the stage is passed exactly when the tokens were there.
Charge(t, decision, next) ==
  \E granted \in BOOLEAN :
    /\ Debit(task[t].conn, decision.tokenCost, task[t].now, granted)
    /\ task' = [task EXCEPT ![t] = IF granted THEN next ELSE NoTask]

\* penalize: best effort, and a drop without a penalty does not even touch
\* the map.
Penalize(t, decision) ==
  /\ IF decision.tokenCost > 0
     THEN \E granted \in BOOLEAN :
            Debit(task[t].conn, decision.tokenCost, task[t].now, granted)
     ELSE UNCHANGED <<buckets, owed>>
  /\ task' = [task EXCEPT ![t] = NoTask]

\* The end both stages share; next is the task of the thread when the frame
\* passes.
Settle(t, decision, next) ==
  IF Dropped(decision) THEN Penalize(t, decision) ELSE Charge(t, decision, next)

-----------------------------------------------------------------------------
Tick ==
  /\ clock < MaxTime
  /\ clock' = clock + 1
  /\ UNCHANGED <<buckets, task, owed>>

\* A frame arrives on c: the thread reads the clock, once for both stages.
ReceiveFrame(t, c) ==
  /\ task[t] = NoTask
  /\ task' = [task EXCEPT
                ![t] = [stage |-> "admitPre", conn |-> c, now |-> clock]]
  /\ UNCHANGED <<clock, buckets, owed>>

AdmitPre(t, bytes) ==
  /\ task[t].stage = "admitPre"
  /\ Settle(t, PreAdmitFor(MessageSpec, bytes),
            [task[t] EXCEPT !.stage = "admit"])
  /\ UNCHANGED clock

\* decision is what the visitor, fed with a fresh checker, came back with.
AdmitStage(t, decision) ==
  /\ task[t].stage = "admit"
  /\ Settle(t, decision, NoTask)
  /\ UNCHANGED clock

\* Whoever sees a connection close reports it, while frames of it may still
\* be on their way through the stages.
OnDisconnect(c) ==
  /\ buckets' = Restrict(buckets, Tracked \ {c})
  /\ owed' = [owed EXCEPT ![c] = FullStartZeroTime(0)]
  /\ UNCHANGED <<clock, task>>

BeginSweep(t) ==
  /\ task[t] = NoTask
  /\ task' = [task EXCEPT ![t] = [stage |-> "sweep", now |-> clock]]
  /\ UNCHANGED <<clock, buckets, owed>>

\* A slip: the two times are swapped.
IdleSwapped(c, n) == buckets[c].lastSeen - n >= IdleFor

\* A slip: idle one tick too early.
IdleEarly(c, n) == n - buckets[c].lastSeen >= IdleFor - 1

Idle(c, n) == n - buckets[c].lastSeen >= IdleFor

SweepIdle(t) ==
  /\ task[t].stage = "sweep"
  /\ buckets' = Restrict(buckets, {c \in Tracked : ~Idle(c, task[t].now)})
  /\ task' = [task EXCEPT ![t] = NoTask]
  /\ UNCHANGED <<clock, owed>>

Next ==
  \/ Tick
  \/ \E c \in Conns : OnDisconnect(c)
  \/ \E t \in Threads :
       \/ \E c \in Conns : ReceiveFrame(t, c)
       \/ \E bytes \in Payloads : AdmitPre(t, bytes)
       \/ \E decision \in CheckDecisions : AdmitStage(t, decision)
       \/ BeginSweep(t)
       \/ SweepIdle(t)

Spec == Init /\ [][Next]_vars

\* Time passes, a thread that serves a frame or sweeps goes on, and the server
\* sweeps again and again whatever frames its threads find to serve.
Fairness ==
  /\ WF_vars(Tick)
  /\ SF_vars(\E t \in Threads : BeginSweep(t))
  /\ \A t \in Threads :
       /\ WF_vars(SweepIdle(t))
       /\ WF_vars(\E bytes \in Payloads : AdmitPre(t, bytes))
       /\ WF_vars(\E decision \in CheckDecisions : AdmitStage(t, decision))

FairSpec == Spec /\ Fairness

-----------------------------------------------------------------------------
\* An entry, with its history fields.
Entries ==
  [zeroTime : Int, lastSeen : Nat, since : Nat, spent : Nat, latest : Nat]

\* The values the variables range over.
TypeOK ==
  /\ clock \in Nat
  /\ Tracked \subseteq Conns
  /\ buckets \in [Tracked -> Entries]
  /\ task \in [Threads -> {NoTask} \cup FrameTasks \cup SweepTasks]
  /\ owed \in [Conns -> Int]

\* The map never outgrows its cap, however many connections speak and
\* whichever sections interleave; a cap of zero still lets one entry in,
\* because the newcomer is inserted after making room (touchBucket).
SizeBounded ==
  Cardinality(Tracked) <= IF MaxConnections = 0 THEN 1 ELSE MaxConnections

\* From the moment a connection is tracked until it is forgotten, it is never
\* debited more than a full bucket and the refill between the first and the
\* latest time its frames carried, in whatever order they were charged.
WithinBudget ==
  \A c \in Tracked :
    buckets[c].spent <=
      Capacity + Rate * (buckets[c].latest - buckets[c].since)

\* A bucket never lies in the future of the clock, and has risen by what was
\* spent from it: the inductive form of WithinBudget.
BudgetInv ==
  /\ TypeOK
  /\ \A t \in Threads : task[t] # NoTask => task[t].now <= clock
  /\ \A c \in Tracked :
       LET entry == buckets[c] IN
       /\ entry.since <= entry.latest
       /\ entry.lastSeen <= entry.latest
       /\ entry.latest <= clock
       /\ entry.zeroTime <= Rate * entry.latest
       /\ entry.zeroTime >= FullStartZeroTime(entry.since) + entry.spent

\* While one thread at a time serves frames, a refusal is earned by what the
\* connection has been granted: when a frame is charged, the bucket of its
\* connection holds no less than the account that has paid for all of it,
\* across evictions and sweeps.  (An eviction hands out a full bucket, so the
\* account may well be in debt while the bucket pays.)
RefusalsEarned ==
  \A t \in Threads :
    task[t].stage \in {"admitPre", "admit"} /\ task[t].conn \in Tracked =>
      Balance(buckets[task[t].conn].zeroTime, task[t].now)
        >= Balance(owed[task[t].conn], task[t].now)

\* A tracked bucket is debited or left alone, never credited: whatever a step
\* does to a connection that stays tracked, its debt remains.
DebtKept ==
  [][\A c \in Tracked \cap Tracked' :
       buckets'[c].zeroTime >= buckets[c].zeroTime]_vars

\* A frame of one connection leaves the tokens of every other as they were,
\* and pushes out another only when the map is full, and then only one.
OthersUntouched ==
  [][\A t \in Threads :
       task[t].stage \in {"admitPre", "admit"} /\ task'[t] # task[t] =>
         /\ \A c \in (Tracked \cap Tracked') \ {task[t].conn} :
              buckets'[c] = buckets[c]
         /\ Cardinality(Tracked \ Tracked') <= 1
         /\ Tracked \subseteq Tracked' \/ Cardinality(Tracked) >= MaxConnections
     ]_vars

\* A sweep removes a connection only if none of its frames carried a time
\* within idleFor of the sweep ("Evict connections not seen since now -
\* idleFor").
SweepSparesSeen ==
  [][\A t \in Threads, c \in Tracked \ Tracked' :
       task[t].stage = "sweep" /\ task'[t] = NoTask =>
         task[t].now - buckets[c].latest >= IdleFor]_vars

\* When the idle time is long enough to refill a bucket, a sweep forgives no
\* debt: whoever it removes would have a full bucket anyway.
SweepForgivesNothing ==
  [][\A t \in Threads, c \in Tracked \ Tracked' :
       task[t].stage = "sweep" /\ task'[t] = NoTask /\ IdleFor * Rate >= Capacity =>
         Available(buckets[c].zeroTime, task[t].now) = Capacity]_vars

\* The connection pushed out for a newcomer is one that has been quiet
\* longest ("evicting the oldest if at capacity").
EvictsQuietest ==
  [][\A c \in Tracked \ Tracked' :
       Tracked' \ Tracked # {} =>
         \A d \in Tracked : buckets[c].latest <= buckets[d].latest]_vars

ServesFrameOf(c) ==
  \E t \in Threads : task[t].stage \in {"admitPre", "admit"} /\ task[t].conn = c

\* A connection that falls silent for good is forgotten once its idle time is
\* over, although a frame of it may have been under way when it was reported
\* closed and have put it back in the map.
SilentIsForgotten ==
  \A c \in Conns :
    <>[]~ServesFrameOf(c) =>
      <>[](c \in Tracked => buckets[c].lastSeen + IdleFor > MaxTime)
=============================================================================
