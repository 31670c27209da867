---------------------------- MODULE WrapperProofs ----------------------------
(***************************************************************************)
(* What the shapes of ItemShapes say of a run of a list of items, one      *)
(* level of nesting over the level below (Wrappers): that a list leaves a  *)
(* field as it was, that its tests have all passed, that a section has     *)
(* looked at every part of an object, and that no code is an exception.    *)
(***************************************************************************)
EXTENDS Wrappers, ItemShapes, WellFoundedInduction, TLAPS

\* What holds before the first step and is kept by every step holds all along.
LEMMA AllStages ==
  ASSUME NEW N \in Nat, NEW S, 0 \in S, \A n \in 1..N : n - 1 \in S => n \in S
  PROVE  0..N \subseteq S
<1> DEFINE missed == {n \in 0..N : n \notin S}
           below  == {pair \in Nat \X Nat : pair[1] < pair[2]}
<1>1. SUFFICES ASSUME missed # {} PROVE FALSE
  OBVIOUS
<1>2. PICK least \in missed : \A n \in missed : <<n, least>> \notin below
  <2>1. IsWellFoundedOn(below, Nat)
    BY NatLessThanWellFounded DEF OpToRel
  <2>2. missed \in SUBSET Nat
    OBVIOUS
  <2> HIDE DEF missed, below
  <2> QED
    BY <1>1, <2>1, <2>2, WFMin
<1>3. least # 0 /\ least \in 1..N
  BY <1>2
<1>4. least - 1 \in 0..N /\ least - 1 \notin missed
  <2>1. least - 1 \in 0..N /\ <<least - 1, least>> \in below
    BY <1>3
  <2> QED
    BY <1>2, <2>1
<1> QED
  BY <1>2, <1>3, <1>4

-----------------------------------------------------------------------------
\* One step of a walk over items, or over the fields of a section.
StepOf(walk, on, list, n, v) == IF walk = "fields" THEN NestedField(on, list[n], v) ELSE Process(on, list[n], v)

\* The results before and after every step of a walk.
ResultsOf(walk, on, list, v, results) ==
  results = [n \in 0..Len(list) |->
               IF n = 0 THEN Passed(v)
               ELSE IF results[n - 1].error # Fine THEN results[n - 1]
               ELSE StepOf(walk, on, list, n, results[n - 1].value)]

\* A walk has a result after every step.
LEMMA ResultsExist ==
  ASSUME NEW walk, NEW on, NEW list, Len(list) \in Nat, NEW v
  PROVE  \E results : ResultsOf(walk, on, list, v, results)
<1> DEFINE step(n, before) == IF before.error # Fine THEN before ELSE StepOf(walk, on, list, n, before.value)
           upTo(N, f) == f = [n \in 0..N |-> IF n = 0 THEN Passed(v) ELSE step(n, f[n - 1])]
           reached == {N \in Nat : \E f : upTo(N, f)}
<1>1. 0 \in reached
  <2> DEFINE f == [n \in 0..0 |-> Passed(v)]
  <2>1. \A n \in 0..0 : n = 0
    OBVIOUS
  <2>2. upTo(0, f)
    BY <2>1
  <2> QED
    BY <2>2
<1>2. ASSUME NEW N \in 1..Len(list), N - 1 \in reached PROVE N \in reached
  <2>1. PICK f : upTo(N - 1, f)
    BY <1>2
  <2> DEFINE g == [n \in 0..N |-> IF n < N THEN f[n] ELSE step(N, f[N - 1])]
  <2>2. \A n \in 0..N : g[n] = IF n = 0 THEN Passed(v) ELSE step(n, g[n - 1])
    <3> TAKE n \in 0..N
    <3>1. \A m \in 0..N : g[m] = IF m < N THEN f[m] ELSE step(N, f[N - 1])
      OBVIOUS
    <3>2. \A m \in 0..(N - 1) : f[m] = IF m = 0 THEN Passed(v) ELSE step(m, f[m - 1])
      BY <2>1
    <3> HIDE DEF g, step
    <3>3. CASE n = 0
      <4>1. n \in 0..(N - 1) /\ n < N
        BY <3>3
      <4> QED
        BY <3>1, <3>2, <3>3, <4>1
    <3>4. CASE n \in 1..(N - 1)
      <4>1. n - 1 \in 0..N /\ n - 1 < N /\ n < N /\ n \in 0..(N - 1) /\ n # 0
        BY <3>4
      <4>2. g[n] = f[n] /\ g[n - 1] = f[n - 1]
        BY <3>1, <4>1
      <4> QED
        BY <3>2, <4>1, <4>2
    <3>5. CASE n = N
      <4>1. n # 0 /\ ~(n < N) /\ n - 1 \in 0..N /\ n - 1 < N
        BY <3>5
      <4>2. g[n] = step(n, f[n - 1]) /\ g[n - 1] = f[n - 1]
        BY <3>1, <3>5, <4>1
      <4> QED
        BY <4>1, <4>2
    <3> QED
      BY <3>3, <3>4, <3>5
  <2>3. upTo(N, g)
    <3> HIDE DEF step
    <3>1. g = [n \in 0..N |-> g[n]]
      OBVIOUS
    <3> HIDE DEF g
    <3>2. [n \in 0..N |-> g[n]]
            = [n \in 0..N |-> IF n = 0 THEN Passed(v) ELSE step(n, g[n - 1])]
      BY <2>2
    <3> QED
      BY <3>1, <3>2
  <2> HIDE DEF upTo, g
  <2> QED
    BY <2>3
<1>3. Len(list) \in reached
  <2> HIDE DEF reached
  <2>1. 0..Len(list) \subseteq reached
    BY <1>1, <1>2, AllStages
  <2> QED
    BY <2>1
<1> QED
  BY <1>3 DEF ResultsOf

\* A passing walk has a value before and after every step, which that step passes on.
Walked(walk, on, list, v, values) ==
  /\ values[0] = v
  /\ \A n \in 1..Len(list) :
       LET after == StepOf(walk, on, list, n, values[n - 1])
       IN after.error = Fine /\ values[n] = after.value

\* The results of a walk that passes are the values of one.
LEMMA ResultsWalk ==
  ASSUME NEW walk, NEW on, NEW list, Len(list) \in Nat, NEW v, NEW results,
         ResultsOf(walk, on, list, v, results), results[Len(list)].error = Fine
  PROVE  \E values : Walked(walk, on, list, v, values) /\ results[Len(list)].value = values[Len(list)]
<1> DEFINE N == Len(list)
           values == [n \in 0..N |-> results[n].value]
<1>1. results[0] = Passed(v)
  BY DEF ResultsOf
<1>2. \A n \in 1..N : IF results[n - 1].error # Fine THEN results[n] = results[n - 1]
                      ELSE results[n] = StepOf(walk, on, list, n, results[n - 1].value)
  <2> SUFFICES ASSUME NEW n \in 1..N
               PROVE IF results[n - 1].error # Fine THEN results[n] = results[n - 1]
                      ELSE results[n] = StepOf(walk, on, list, n, results[n - 1].value)
    OBVIOUS
  <2>1. n \in 0..N /\ n # 0
    OBVIOUS
  <2> QED
    BY <2>1 DEF ResultsOf
<1>3. \A n \in 0..N : results[n].error = Fine
  <2> DEFINE S == {n \in 0..N : results[N - n].error = Fine}
  <2>1. 0 \in S
    OBVIOUS
  <2>2. \A n \in 1..N : n - 1 \in S => n \in S
    <3> SUFFICES ASSUME NEW n \in 1..N, n - 1 \in S PROVE n \in S
      OBVIOUS
    <3>1. N - n + 1 \in 1..N /\ (N - n + 1) - 1 = N - n /\ N - (n - 1) = N - n + 1
      OBVIOUS
    <3>2. results[N - n + 1].error = Fine
      BY <3>1
    <3>3. results[N - n].error # Fine => results[N - n + 1] = results[N - n]
      BY <1>2, <3>1
    <3> QED
      BY <3>2, <3>3
  <2>3. 0..N \subseteq S
    <3> HIDE DEF S
    <3> QED
      BY <2>1, <2>2, AllStages
  <2> TAKE n \in 0..N
  <2>4. N - n \in 0..N /\ N - (N - n) = n
    OBVIOUS
  <2> QED
    BY <2>3, <2>4
<1>4. values[0] = v
  BY <1>1 DEF Passed
<1>5. \A n \in 1..N : LET after == StepOf(walk, on, list, n, values[n - 1])
                      IN after.error = Fine /\ values[n] = after.value
  <2> TAKE n \in 1..N
  <2>1. n - 1 \in 0..N /\ n \in 0..N
    OBVIOUS
  <2> QED
    BY <1>2, <1>3, <2>1
<1>6. Walked(walk, on, list, v, values) /\ results[N].value = values[N]
  <2> HIDE DEF values
  <2>1. Walked(walk, on, list, v, values)
    BY <1>4, <1>5 DEF Walked
  <2> QED
    BY <2>1 DEF values
<1> QED
  BY <1>6

\* A run of a list of items ends in the last of the results of its walk.
LEMMA RunResults ==
  ASSUME NEW on, NEW items, Len(items) \in Nat, NEW v
  PROVE  \E results : ResultsOf("items", on, items, v, results) /\ RunProcessors(on, items, v) = results[Len(items)]
<1> DEFINE is(f) == f = [n \in 0..Len(items) |->
                           IF n = 0 THEN Passed(v)
                           ELSE IF f[n - 1].error # Fine THEN f[n - 1]
                           ELSE Process(on, items[n], f[n - 1].value)]
           chosen == CHOOSE f : is(f)
<1>1. \A f : ResultsOf("items", on, items, v, f) <=> is(f)
  BY DEF ResultsOf, StepOf
<1>2. \E f : is(f)
  BY <1>1, ResultsExist
<1>3. RunProcessors(on, items, v) = chosen[Len(items)]
  BY DEF RunProcessors, Through
<1>4. is(chosen)
  <2> HIDE DEF is
  <2> QED
    BY <1>2
<1> QED
  BY <1>1, <1>3, <1>4

\* And so does that of a section, over its fields.
LEMMA SectionResults ==
  ASSUME NEW on, NEW item, Len(item.fields) \in Nat, NEW v, Is("object", v)
  PROVE  \E results : ResultsOf("fields", on, item.fields, v, results) /\ Section(on, item, v) = results[Len(item.fields)]
<1> DEFINE is(f) == f = [n \in 0..Len(item.fields) |->
                           IF n = 0 THEN Passed(v)
                           ELSE IF f[n - 1].error # Fine THEN f[n - 1]
                           ELSE NestedField(on, item.fields[n], f[n - 1].value)]
           chosen == CHOOSE f : is(f)
<1>1. \A f : ResultsOf("fields", on, item.fields, v, f) <=> is(f)
  BY DEF ResultsOf, StepOf
<1>2. \E f : is(f)
  BY <1>1, ResultsExist
<1>3. Section(on, item, v) = chosen[Len(item.fields)]
  BY DEF Section, Through
<1>4. is(chosen)
  <2> HIDE DEF is
  <2> QED
    BY <1>2
<1> QED
  BY <1>1, <1>3, <1>4

\* A passing run of a list, and of a section on an object, is a walk.
LEMMA RunWalks ==
  ASSUME NEW on, NEW items, Len(items) \in Nat, NEW v, RunProcessors(on, items, v).error = Fine
  PROVE  \E values : Walked("items", on, items, v, values) /\ RunProcessors(on, items, v).value = values[Len(items)]
<1>1. PICK results : /\ ResultsOf("items", on, items, v, results)
                     /\ RunProcessors(on, items, v) = results[Len(items)]
  BY RunResults
<1>2. results[Len(items)].error = Fine
  BY <1>1
<1>3. \E values : /\ Walked("items", on, items, v, values)
                  /\ results[Len(items)].value = values[Len(items)]
  BY <1>1, <1>2, ResultsWalk
<1> QED
  BY <1>1, <1>3

\* The same of the fields of a section.
LEMMA SectionWalks ==
  ASSUME NEW on, NEW item, Len(item.fields) \in Nat, NEW v, Is("object", v), Section(on, item, v).error = Fine
  PROVE  \E values : /\ Walked("fields", on, item.fields, v, values)
                     /\ Section(on, item, v).value = values[Len(item.fields)]
<1>1. PICK results : /\ ResultsOf("fields", on, item.fields, v, results)
                     /\ Section(on, item, v) = results[Len(item.fields)]
  BY SectionResults
<1>2. results[Len(item.fields)].error = Fine
  BY <1>1
<1>3. \E values : /\ Walked("fields", on, item.fields, v, values)
                  /\ results[Len(item.fields)].value = values[Len(item.fields)]
  BY <1>1, <1>2, ResultsWalk
<1> QED
  BY <1>1, <1>3

-----------------------------------------------------------------------------
InKind(kind, v) == kind = AnyKind \/ Is(kind, v)

AllPass(on, T, v) == \A x \in T : Leaf(on, x, v).error = Fine

\* What is known of the leaves and of the lists one level down, and what it makes of the
\* lists of this level: those that keep a field do, and run their tests on it.
LeafKept == \A on, x, v : LeafKeeps(x) /\ Leaf(on, x, v).error = Fine => Leaf(on, x, v).value = v

InnerKept ==
  \A on, kind, items, v :
    InnerKeeps(items) /\ Inner(on, items, v).error = Fine =>
      /\ Inner(on, items, v).value = v
      /\ InKind(kind, v) => AllPass(on, InnerTests(on, kind, items), v)

ListKept ==
  \A on, kind, items, v :
    KeepsAll(items) /\ RunProcessors(on, items, v).error = Fine =>
      /\ RunProcessors(on, items, v).value = v
      /\ InKind(kind, v) => AllPass(on, TestsOf(on, kind, items), v)

\* What an item makes of what it holds.
LEMMA HolderRuns ==
  ASSUME NEW on, NEW kind, NEW item, NEW v, IsHolder(item), Process(on, item, v).error = Fine
  PROVE  LET held == Inner(on, HeldBy(item), v)
         IN /\ \/ held.error = Fine /\ Process(on, item, v) = held
               \/ /\ Process(on, item, v).value = v
                  /\ \/ item.item = "ifServer" /\ item.server # on
                     \/ item.item = "ifType" /\ ~Is(item.kind, v)
            /\ InKind(kind, v) /\ Runs(on, kind, item) => held.error = Fine /\ Process(on, item, v) = held
<1>1. CASE item.item = "ifServer"
  <2>1. Process(on, item, v) = IfServer(on, item, v)
    BY <1>1, Zenon DEF Process
  <2> QED
    BY <1>1, <2>1 DEF IfServer, HeldBy, Runs, Passed
<1>2. CASE item.item = "ifType"
  <2>1. Process(on, item, v) = IfType(on, item, v)
    BY <1>2, Zenon DEF Process
  <2>2. InKind(kind, v) /\ Runs(on, kind, item) => Is(item.kind, v)
    BY <1>2 DEF InKind, Runs
  <2> QED
    BY <1>2, <2>1, <2>2 DEF IfType, HeldBy, Passed
<1>3. CASE item.item = "withCustomError"
  <2>1. Process(on, item, v) = WithCustomError(on, item, v)
    BY <1>3, Zenon DEF Process
  <2>2. Failed(item.code).error = Fine => FALSE
    BY <1>3 DEF Failed, IsHolder, Fine
  <2> QED
    BY <1>3, <2>1, <2>2 DEF WithCustomError, HeldBy, Runs
<1> QED
  BY <1>1, <1>2, <1>3 DEF IsHolder, Holders

\* An item that holds no others is a leaf.
LEMMA LeafRuns ==
  ASSUME NEW on, NEW item, NEW v, IsLeaf(item)
  PROVE  Process(on, item, v) = Leaf(on, item, v)
<1>1. /\ item.item # "ifServer" /\ item.item # "ifType" /\ item.item # "section"
      /\ item.item # "withCustomError"
  BY DEF IsLeaf, Holders
<1> QED
  BY <1>1, Zenon DEF Process

\* A section runs the fields it lists.
LEMMA SectionRuns ==
  ASSUME NEW on, NEW item, NEW v, item.item = "section"
  PROVE  Process(on, item, v) = Section(on, item, v)
  BY Zenon DEF Process

\* A list is a sequence.
LEMMA ListIs ==
  ASSUME NEW s, IsList(s)
  PROVE  Len(s) \in Nat /\ DOMAIN s = 1..Len(s)
  BY DEF IsList

\* An item that keeps a field passes it on, and its tests hold of it.
LEMMA ItemKept ==
  ASSUME LeafKept, InnerKept, NEW on, NEW kind, NEW item, NEW v, Keeps(item), Process(on, item, v).error = Fine
  PROVE  /\ Process(on, item, v).value = v
         /\ InKind(kind, v) => AllPass(on, Tests(on, kind, item), v)
<1>1. CASE IsHolder(item) /\ InnerKeeps(HeldBy(item))
  <2> DEFINE held == Inner(on, HeldBy(item), v)
  <2>1. held.error = Fine =>
          /\ held.value = v
          /\ InKind(kind, v) => AllPass(on, InnerTests(on, kind, HeldBy(item)), v)
    BY <1>1 DEF InnerKept
  <2>2. /\ \/ held.error = Fine /\ Process(on, item, v) = held
           \/ Process(on, item, v).value = v
        /\ InKind(kind, v) /\ Runs(on, kind, item) => held.error = Fine
    BY <1>1, HolderRuns
  <2>3. ~IsLeaf(item)
    BY <1>1 DEF IsLeaf, IsHolder
  <2>4. InKind(kind, v) => AllPass(on, Tests(on, kind, item), v)
    BY <1>1, <2>1, <2>2, <2>3 DEF Tests, AllPass
  <2> QED
    BY <2>1, <2>2, <2>4
<1>2. CASE IsLeaf(item) /\ LeafKeeps(item)
  BY <1>2, LeafRuns DEF LeafKept, Tests, AllPass
<1> QED
  BY <1>1, <1>2 DEF Keeps

\* A list whose last items pass on what they get returns what the item before them made.
LEMMA LastWord ==
  ASSUME NEW on, NEW items, IsList(items), NEW v, RunProcessors(on, items, v).error = Fine,
         NEW i \in DOMAIN items,
         \A j \in DOMAIN items : j > i =>
           \A x : Process(on, items[j], x).error = Fine => Process(on, items[j], x).value = x
  PROVE  \E u : /\ Process(on, items[i], u).error = Fine
                /\ RunProcessors(on, items, v).value = Process(on, items[i], u).value
<1> DEFINE N == Len(items)
<1>1. N \in Nat /\ DOMAIN items = 1..N
  BY ListIs
<1>2. PICK values : Walked("items", on, items, v, values) /\ RunProcessors(on, items, v).value = values[N]
  BY <1>1, RunWalks
<1>3. \A n \in 1..N : /\ Process(on, items[n], values[n - 1]).error = Fine
                      /\ values[n] = Process(on, items[n], values[n - 1]).value
  BY <1>2 DEF Walked, StepOf
<1> DEFINE S == {n \in 0..(N - i) : values[i + n] = values[i]}
<1>4. 0 \in S /\ N - i \in Nat
  BY <1>1
<1>5. \A n \in 1..(N - i) : n - 1 \in S => n \in S
  <2> SUFFICES ASSUME NEW n \in 1..(N - i), n - 1 \in S PROVE n \in S
    OBVIOUS
  <2>1. i + n \in 1..N /\ i + n > i /\ (i + n) - 1 = i + (n - 1) /\ n \in 0..(N - i)
    BY <1>1
  <2>2. values[i + (n - 1)] = values[i]
    OBVIOUS
  <2>3. Process(on, items[i + n], values[(i + n) - 1]).error = Fine
        /\ values[i + n] = Process(on, items[i + n], values[(i + n) - 1]).value
    BY <1>3, <2>1
  <2>4. values[i + n] = values[(i + n) - 1]
    BY <1>1, <2>1, <2>3
  <2>5. values[i + n] = values[i]
    BY <2>1, <2>2, <2>4
  <2> QED
    BY <2>1, <2>5
<1>6. 0..(N - i) \subseteq S
  <2> HIDE DEF S, N
  <2> QED
    BY <1>4, <1>5, AllStages
<1>7. values[N] = values[i]
  <2>1. N - i \in S /\ i + (N - i) = N
    BY <1>1, <1>4, <1>6
  <2> QED
    BY <2>1
<1> QED
  BY <1>1, <1>2, <1>3, <1>7

KeepsUpTo(items, m) == \A i \in 1..m : Keeps(items[i])

\* As long as the items of a list keep the field, its value is the one it came with.
LEMMA WalkKept ==
  ASSUME LeafKept, InnerKept, NEW on, NEW items, IsList(items), NEW v, NEW values,
         Walked("items", on, items, v, values),
         NEW m \in 0..Len(items), KeepsUpTo(items, m)
  PROVE  values[m] = v
<1> DEFINE S == {n \in 0..m : values[n] = v}
<1>1. Len(items) \in Nat /\ m \in Nat
  BY ListIs
<1>2. 0 \in S
  BY <1>1 DEF Walked
<1>3. \A n \in 1..m : /\ Process(on, items[n], values[n - 1]).error = Fine
                      /\ values[n] = Process(on, items[n], values[n - 1]).value
  BY <1>1 DEF Walked, StepOf
<1>4. \A n \in 1..m : n - 1 \in S => n \in S
  <2> SUFFICES ASSUME NEW n \in 1..m, n - 1 \in S PROVE n \in S
    OBVIOUS
  <2>1. Process(on, items[n], v).error = Fine /\ values[n] = Process(on, items[n], v).value
    BY <1>3
  <2>2. Process(on, items[n], v).value = v
    BY <2>1, ItemKept DEF KeepsUpTo
  <2> QED
    BY <2>1, <2>2
<1>5. 0..m \subseteq S
  <2> HIDE DEF S
  <2> QED
    BY <1>1, <1>2, <1>4, AllStages
<1> QED
  BY <1>1, <1>5

\* And each of these items passes on that value.
LEMMA WalkPasses ==
  ASSUME LeafKept, InnerKept, NEW on, NEW items, IsList(items), NEW v, NEW values,
         Walked("items", on, items, v, values),
         NEW m \in 1..Len(items), KeepsUpTo(items, m - 1)
  PROVE  Process(on, items[m], v).error = Fine /\ values[m] = Process(on, items[m], v).value
<1>1. Len(items) \in Nat /\ m - 1 \in 0..Len(items)
  BY ListIs
<1>2. values[m - 1] = v
  BY <1>1, WalkKept
<1> QED
  BY <1>1, <1>2 DEF Walked, StepOf

\* So the tests of such an item are made on that value.
LEMMA WalkTests ==
  ASSUME LeafKept, InnerKept, NEW on, NEW items, IsList(items), NEW v, NEW values,
         Walked("items", on, items, v, values), NEW kind, InKind(kind, v),
         NEW m \in 1..Len(items), KeepsUpTo(items, m - 1), Keeps(items[m])
  PROVE  AllPass(on, Tests(on, kind, items[m]), v)
<1>1. Process(on, items[m], v).error = Fine
  BY WalkPasses
<1> QED
  BY <1>1, ItemKept

\* One level up: a list of items that keep the field keeps it, and all its tests hold.
LEMMA KeptOneUp ==
  ASSUME LeafKept, InnerKept
  PROVE  ListKept
<1> SUFFICES ASSUME NEW on, NEW kind, NEW items, NEW v, KeepsAll(items), RunProcessors(on, items, v).error = Fine
             PROVE  /\ RunProcessors(on, items, v).value = v
                    /\ InKind(kind, v) => AllPass(on, TestsOf(on, kind, items), v)
  BY DEF ListKept
<1>1. IsList(items) /\ Len(items) \in Nat /\ DOMAIN items = 1..Len(items)
  BY ListIs DEF KeepsAll
<1>2. PICK values : Walked("items", on, items, v, values) /\ RunProcessors(on, items, v).value = values[Len(items)]
  BY <1>1, RunWalks
<1>3. KeepsUpTo(items, Len(items))
  BY <1>1 DEF KeepsAll, KeepsUpTo
<1>4. RunProcessors(on, items, v).value = v
  <2>1. Len(items) \in 0..Len(items)
    BY <1>1
  <2> QED
    BY <1>1, <1>2, <1>3, <2>1, WalkKept
<1>5. ASSUME NEW i \in 1..Len(items), InKind(kind, v) PROVE AllPass(on, Tests(on, kind, items[i]), v)
  <2>1. KeepsUpTo(items, i - 1) /\ Keeps(items[i])
    BY <1>1, <1>3 DEF KeepsUpTo
  <2> QED
    BY <1>1, <1>2, <1>5, <2>1, WalkTests
<1>6. InKind(kind, v) => AllPass(on, TestsOf(on, kind, items), v)
  BY <1>1, <1>5 DEF TestsOf, AllPass
<1> QED
  BY <1>4, <1>6

-----------------------------------------------------------------------------
\* The places before another in a list, none of which is the last.
LEMMA PlacesBefore ==
  ASSUME NEW N \in Nat, NEW i \in 1..N
  PROVE  \A j \in 1..(i - 1) : j \in 1..N /\ j # N
  OBVIOUS

\* The tests of a list that keeps a field keep it, one level down and on this one.
InnerTestsKeep ==
  \A on, kind, items : InnerKeeps(items) => \A x \in InnerTests(on, kind, items) : LeafKeeps(x)

ListTestsKeep ==
  \A on, kind, items : KeepsAll(items) => \A x \in TestsOf(on, kind, items) : LeafKeeps(x)

\* The tests of an item that keeps a field keep it.
LEMMA ItemTestsKeep ==
  ASSUME InnerTestsKeep, NEW on, NEW kind, NEW item, Keeps(item), NEW x \in Tests(on, kind, item)
  PROVE  LeafKeeps(x)
<1>1. CASE IsLeaf(item)
  BY <1>1 DEF Keeps, Tests, IsLeaf, IsHolder
<1>2. CASE ~IsLeaf(item)
  <2>1. InnerKeeps(HeldBy(item)) /\ x \in InnerTests(on, kind, HeldBy(item))
    BY <1>2 DEF Keeps, Tests
  <2> QED
    BY <2>1 DEF InnerTestsKeep
<1> QED
  BY <1>1, <1>2

\* One level up: and so do those of a list of such items.
LEMMA TestsKeepOneUp ==
  ASSUME InnerTestsKeep
  PROVE  ListTestsKeep
<1> SUFFICES ASSUME NEW on, NEW kind, NEW items, KeepsAll(items), NEW x \in TestsOf(on, kind, items)
             PROVE  LeafKeeps(x)
  BY DEF ListTestsKeep
<1>1. PICK i \in DOMAIN items : x \in Tests(on, kind, items[i])
  BY DEF TestsOf
<1>2. Keeps(items[i])
  BY DEF KeepsAll
<1> QED
  BY <1>1, <1>2, ItemTestsKeep

\* What a list leaves of a field: the field, or what the one of its leaves that rewrites
\* makes of it.
LeftBy(on, T, v, w) ==
  \/ w = v /\ \A x \in T : LeafKeeps(x)
  \/ \E x \in T : ~LeafKeeps(x) /\ w = Leaf(on, x, v).value

InnerSettles ==
  \A on, items, v :
    InnerSimple(items) /\ Inner(on, items, v).error = Fine =>
      /\ AllPass(on, InnerTests(on, AnyKind, items), v)
      /\ LeftBy(on, InnerTests(on, AnyKind, items), v, Inner(on, items, v).value)

ListSettles ==
  \A on, items, v :
    Simple(items) /\ RunProcessors(on, items, v).error = Fine =>
      /\ AllPass(on, TestsOf(on, AnyKind, items), v)
      /\ LeftBy(on, TestsOf(on, AnyKind, items), v, RunProcessors(on, items, v).value)

\* The last item of a simple list.
EndsSimple(item) ==
  \/ Keeps(item) \/ IsLeaf(item)
  \/ IsHolder(item) /\ item.item # "ifType" /\ InnerSimple(HeldBy(item))

\* The item a list ends with tests the field as it was sent, and what it leaves is what one of
\* these tests makes of it.
LEMMA ItemSettles ==
  ASSUME LeafKept, InnerKept, InnerTestsKeep, InnerSettles, NEW on, NEW item, NEW v,
         EndsSimple(item), Process(on, item, v).error = Fine
  PROVE  /\ AllPass(on, Tests(on, AnyKind, item), v)
         /\ LeftBy(on, Tests(on, AnyKind, item), v, Process(on, item, v).value)
<1>1. CASE Keeps(item)
  <2>1. Process(on, item, v).value = v /\ AllPass(on, Tests(on, AnyKind, item), v)
    BY <1>1, ItemKept DEF InKind
  <2>2. \A x \in Tests(on, AnyKind, item) : LeafKeeps(x)
    BY <1>1, ItemTestsKeep
  <2> QED
    BY <2>1, <2>2 DEF LeftBy
<1>2. CASE IsLeaf(item)
  <2>1. Process(on, item, v) = Leaf(on, item, v) /\ Tests(on, AnyKind, item) = {item}
    BY <1>2, LeafRuns DEF Tests
  <2>2. LeafKeeps(item) => Leaf(on, item, v).value = v
    BY <2>1 DEF LeafKept
  <2> QED
    BY <2>1, <2>2 DEF AllPass, LeftBy
<1>3. CASE IsHolder(item) /\ item.item # "ifType" /\ InnerSimple(HeldBy(item))
  <2> DEFINE held == Inner(on, HeldBy(item), v)
  <2>1. ~IsLeaf(item) /\ item.item \in Holders
    BY <1>3 DEF IsLeaf, IsHolder
  <2>2. /\ \/ held.error = Fine /\ Process(on, item, v) = held
           \/ /\ Process(on, item, v).value = v
              /\ \/ item.item = "ifServer" /\ item.server # on
                 \/ item.item = "ifType"
        /\ InKind(AnyKind, v) /\ Runs(on, AnyKind, item) => held.error = Fine /\ Process(on, item, v) = held
    BY <1>3, HolderRuns
  <2>3. CASE Runs(on, AnyKind, item)
    <3>1. held.error = Fine /\ Process(on, item, v) = held
      BY <2>2, <2>3 DEF InKind
    <3>2. Tests(on, AnyKind, item) = InnerTests(on, AnyKind, HeldBy(item))
      BY <2>1, <2>3 DEF Tests
    <3>3. /\ AllPass(on, InnerTests(on, AnyKind, HeldBy(item)), v)
          /\ LeftBy(on, InnerTests(on, AnyKind, HeldBy(item)), v, held.value)
      BY <1>3, <3>1 DEF InnerSettles
    <3> QED
      BY <3>1, <3>2, <3>3
  <2>4. CASE ~Runs(on, AnyKind, item)
    <3>1. item.item = "ifServer" /\ item.server # on
      BY <1>3, <2>4 DEF Runs
    <3>2. Process(on, item, v).value = v
      <4>1. Process(on, item, v) = IfServer(on, item, v)
        BY <3>1, Zenon DEF Process
      <4> QED
        BY <3>1, <4>1 DEF IfServer, Passed
    <3>3. Tests(on, AnyKind, item) = {}
      BY <2>1, <2>4 DEF Tests
    <3> QED
      BY <3>2, <3>3 DEF AllPass, LeftBy
  <2> QED
    BY <2>3, <2>4
<1> QED
  BY <1>1, <1>2, <1>3 DEF EndsSimple

\* One level up: a list whose last item alone may rewrite the field.
LEMMA SettlesOneUp ==
  ASSUME LeafKept, InnerKept, InnerTestsKeep, InnerSettles
  PROVE  ListSettles
<1> SUFFICES ASSUME NEW on, NEW items, NEW v, Simple(items), RunProcessors(on, items, v).error = Fine
             PROVE  /\ AllPass(on, TestsOf(on, AnyKind, items), v)
                    /\ LeftBy(on, TestsOf(on, AnyKind, items), v, RunProcessors(on, items, v).value)
  BY DEF ListSettles
<1> DEFINE N == Len(items)
<1>1. IsList(items) /\ N \in Nat /\ DOMAIN items = 1..N
  BY ListIs DEF Simple
<1>2. PICK values : Walked("items", on, items, v, values) /\ RunProcessors(on, items, v).value = values[N]
  BY <1>1, RunWalks
<1>3. /\ \A i \in 1..N : i # N => Keeps(items[i])
      /\ \A i \in 1..N : EndsSimple(items[i])
  BY <1>1 DEF Simple, EndsSimple
<1>4. ASSUME NEW i \in 1..N, i # N
      PROVE  AllPass(on, Tests(on, AnyKind, items[i]), v) /\ \A x \in Tests(on, AnyKind, items[i]) : LeafKeeps(x)
  <2>0. \A j \in 1..(i - 1) : j \in 1..N /\ j # N
    BY <1>1, PlacesBefore
  <2>1. KeepsUpTo(items, i - 1) /\ Keeps(items[i]) /\ InKind(AnyKind, v)
    BY <1>3, <1>4, <2>0 DEF KeepsUpTo, InKind
  <2>2. AllPass(on, Tests(on, AnyKind, items[i]), v)
    BY <1>1, <1>2, <2>1, WalkTests
  <2> QED
    BY <2>1, <2>2, ItemTestsKeep
<1>5. CASE N = 0
  <2>1. values[N] = v
    BY <1>2, <1>5 DEF Walked
  <2>2. TestsOf(on, AnyKind, items) = {}
    BY <1>1, <1>5 DEF TestsOf
  <2> QED
    BY <1>2, <2>1, <2>2 DEF AllPass, LeftBy
<1>6. CASE N # 0
  <2>0. N \in 1..N /\ \A j \in 1..(N - 1) : j \in 1..N /\ j # N
    <3>1. N \in 1..N
      BY <1>1, <1>6
    <3> QED
      BY <1>1, <3>1, PlacesBefore
  <2>1. N \in 1..N /\ KeepsUpTo(items, N - 1)
    BY <1>3, <2>0 DEF KeepsUpTo
  <2>2. Process(on, items[N], v).error = Fine /\ values[N] = Process(on, items[N], v).value
    <3>1. Walked("items", on, items, v, values)
      BY <1>2
    <3>2. ASSUME NEW m \in 1..Len(items), KeepsUpTo(items, m - 1)
          PROVE  Process(on, items[m], v).error = Fine /\ values[m] = Process(on, items[m], v).value
      BY <1>1, <3>1, <3>2, WalkPasses
    <3> QED
      BY <2>1, <3>2
  <2>3. /\ AllPass(on, Tests(on, AnyKind, items[N]), v)
        /\ LeftBy(on, Tests(on, AnyKind, items[N]), v, values[N])
    BY <1>3, <2>1, <2>2, ItemSettles
  <2>4. AllPass(on, TestsOf(on, AnyKind, items), v)
    BY <1>1, <1>4, <2>3 DEF TestsOf, AllPass
  <2>5. Tests(on, AnyKind, items[N]) \subseteq TestsOf(on, AnyKind, items)
    BY <1>1, <2>1 DEF TestsOf
  <2>6. \A x \in TestsOf(on, AnyKind, items) : x \in Tests(on, AnyKind, items[N]) \/ LeafKeeps(x)
    BY <1>1, <1>4 DEF TestsOf
  <2>7. LeftBy(on, TestsOf(on, AnyKind, items), v, values[N])
    BY <2>3, <2>5, <2>6 DEF LeftBy
  <2> QED
    BY <1>2, <2>4, <2>7
<1> QED
  BY <1>5, <1>6

-----------------------------------------------------------------------------
\* No exception: of the leaves, of the lists one level down, and of those of this level.
LeafSafe  == \A on, x, v : LeafIsSafe(x) => Leaf(on, x, v).error # "threw"
InnerSafe == \A on, items, v : InnerIsSafe(items) => Inner(on, items, v).error # "threw"
ListSafe  == \A on, items, v : SafeAll(items) => RunProcessors(on, items, v).error # "threw"

SafeSteps(walk, on, list) ==
  \A n \in 1..Len(list) : \A v : StepOf(walk, on, list, n, v).error # "threw"

\* A walk whose steps throw nothing ends in no exception.
LEMMA ResultsSafe ==
  ASSUME NEW walk, NEW on, NEW list, Len(list) \in Nat, NEW v, NEW results,
         ResultsOf(walk, on, list, v, results), SafeSteps(walk, on, list)
  PROVE  results[Len(list)].error # "threw"
<1> DEFINE N == Len(list)
           S == {n \in 0..N : results[n].error # "threw"}
<1>1. results[0].error = Fine /\ Fine # "threw"
  BY DEF ResultsOf, Passed, Fine
<1>2. 0 \in S
  BY <1>1
<1>3. \A n \in 1..N : n - 1 \in S => n \in S
  <2> SUFFICES ASSUME NEW n \in 1..N, n - 1 \in S PROVE n \in S
    OBVIOUS
  <2>1. n \in 0..N /\ n # 0
    OBVIOUS
  <2>2. results[n] = IF results[n - 1].error # Fine THEN results[n - 1]
                     ELSE StepOf(walk, on, list, n, results[n - 1].value)
    BY <2>1 DEF ResultsOf
  <2> QED
    BY <2>2 DEF SafeSteps
<1>4. 0..N \subseteq S
  <2> HIDE DEF S
  <2> QED
    BY <1>2, <1>3, AllStages
<1> QED
  BY <1>4

\* A safe item throws nothing, whatever it is run on.
LEMMA ItemSafe ==
  ASSUME LeafSafe, InnerSafe, NEW on, NEW item, NEW v, IsSafe(item)
  PROVE  Process(on, item, v).error # "threw"
<1>1. /\ \A x : Passed(x).error # "threw"
      /\ \A code : Failed(code).error = code
      /\ Failed("invalidParams").error # "threw"
  BY DEF Passed, Failed, Fine
<1>2. CASE item.item = "withCustomError" /\ item.code # "threw"
  <2>1. Process(on, item, v) = WithCustomError(on, item, v)
    BY <1>2, Zenon DEF Process
  <2> QED
    BY <1>1, <1>2, <2>1 DEF WithCustomError, Fine
<1>3. CASE item.item \in Holders \ {"withCustomError"} /\ InnerIsSafe(item.items)
  <2>1. Inner(on, item.items, v).error # "threw"
    BY <1>3 DEF InnerSafe
  <2>2. CASE item.item = "ifServer"
    <3>1. Process(on, item, v) = IfServer(on, item, v)
      BY <2>2, Zenon DEF Process
    <3> QED
      BY <1>1, <2>1, <3>1, <2>2 DEF IfServer
  <2>3. CASE item.item = "ifType"
    <3>1. Process(on, item, v) = IfType(on, item, v)
      BY <2>3, Zenon DEF Process
    <3> QED
      BY <1>1, <2>1, <3>1, <2>3 DEF IfType
  <2> QED
    BY <1>3, <2>2, <2>3 DEF Holders
<1>4. CASE item.item = "section" /\ IsList(item.fields) /\ \A n \in DOMAIN item.fields : InnerIsSafe(item.fields[n].items)
  <2>1. Len(item.fields) \in Nat /\ DOMAIN item.fields = 1..Len(item.fields)
    BY <1>4, ListIs
  <2>2. SafeSteps("fields", on, item.fields)
    <3> SUFFICES ASSUME NEW n \in 1..Len(item.fields), NEW u
                 PROVE  NestedField(on, item.fields[n], u).error # "threw"
      BY DEF SafeSteps, StepOf
    <3>1. \A w : Inner(on, item.fields[n].items, w).error # "threw"
      BY <1>4, <2>1 DEF InnerSafe
    <3> QED
      BY <1>1, <3>1 DEF NestedField
  <2>3. Process(on, item, v) = Section(on, item, v)
    BY <1>4, SectionRuns
  <2>4. CASE Is("object", v)
    <3>1. PICK results : /\ ResultsOf("fields", on, item.fields, v, results)
                         /\ Section(on, item, v) = results[Len(item.fields)]
      BY <2>1, <2>4, SectionResults
    <3>2. results[Len(item.fields)].error # "threw"
      BY <2>1, <2>2, <3>1, ResultsSafe
    <3> QED
      BY <2>3, <3>1, <3>2
  <2>5. CASE ~Is("object", v)
    BY <1>1, <2>3, <2>5 DEF Section
  <2> QED
    BY <2>4, <2>5
<1>5. CASE IsLeaf(item) /\ LeafIsSafe(item)
  BY <1>5, LeafRuns DEF LeafSafe
<1> QED
  BY <1>2, <1>3, <1>4, <1>5 DEF IsSafe

\* One level up: a list of safe items throws nothing.
LEMMA SafeOneUp ==
  ASSUME LeafSafe, InnerSafe
  PROVE  ListSafe
<1> SUFFICES ASSUME NEW on, NEW items, NEW v, SafeAll(items) PROVE RunProcessors(on, items, v).error # "threw"
  BY DEF ListSafe
<1>1. Len(items) \in Nat /\ DOMAIN items = 1..Len(items)
  BY ListIs DEF SafeAll
<1>2. SafeSteps("items", on, items)
  BY <1>1, ItemSafe DEF SafeAll, SafeSteps, StepOf
<1>3. PICK results : /\ ResultsOf("items", on, items, v, results)
                     /\ RunProcessors(on, items, v) = results[Len(items)]
  BY <1>1, RunResults
<1>4. results[Len(items)].error # "threw"
  BY <1>1, <1>2, <1>3, ResultsSafe
<1> QED
  BY <1>3, <1>4

-----------------------------------------------------------------------------
\* What a write through a field leaves of the children of an object.
LEMMA ChildOfStored ==
  ASSUME NEW v, NEW key, NEW x, NEW k
  PROVE  /\ Child(Stored(v, key, x), k) = IF k = key /\ Present(Child(v, key)) THEN x ELSE Child(v, k)
         /\ Is("object", v) => Is("object", Stored(v, key, x))
<1>1. CASE ~Present(Child(v, key))
  BY <1>1 DEF Stored
<1>2. CASE Present(Child(v, key))
  <2>1. Is("object", v) /\ key \in DOMAIN v.object
    <3>1. ~Present(Absent)
      BY DEF Present, Absent, Kind
    <3> QED
      BY <1>2, <3>1 DEF Child
  <2> DEFINE w == Object([v.object EXCEPT ![key] = x])
  <2>2. Stored(v, key, x) = w
    BY <1>2 DEF Stored
  <2>3. Kind(w) = "object" /\ w.object = [v.object EXCEPT ![key] = x]
    BY DEF Object, Kind
  <2>4. Is("object", w)
    BY <2>3 DEF Is
  <2>5. DOMAIN w.object = DOMAIN v.object /\ \A j \in DOMAIN v.object : w.object[j] = IF j = key THEN x ELSE v.object[j]
    BY <2>3
  <2>6. Child(w, k) = IF k = key THEN x ELSE Child(v, k)
    <3> HIDE DEF w
    <3> QED
      BY <2>1, <2>4, <2>5 DEF Child
  <2> QED
    BY <1>2, <2>2, <2>4, <2>6
<1> QED
  BY <1>1, <1>2

\* What became of a part of an object, and of an object whose parts were looked at.
PartRun(on, p, c, d) ==
  /\ AllPass(on, p.tests, c)
  /\ IF Present(c) THEN LeftBy(on, p.tests, c, d) ELSE ~Present(d)

SectionEffect(on, P, v, w) ==
  /\ ~Is("object", v) => w = v
  /\ Is("object", v) => Is("object", w) /\ \A p \in P : PartRun(on, p, Child(v, p.key), Child(w, p.key))
  /\ \A k : k \notin KeysOf(P) => Child(w, k) = Child(v, k)

\* Two effects on different keys, one after the other.
LEMMA EffectsAdd ==
  ASSUME NEW on, NEW P, NEW Q, NEW u, NEW v, NEW w,
         SectionEffect(on, P, u, v), SectionEffect(on, Q, v, w), KeysOf(P) \intersect KeysOf(Q) = {}
  PROVE  SectionEffect(on, P \union Q, u, w)
<1>1. \A k : k \notin KeysOf(P \union Q) => k \notin KeysOf(P) /\ k \notin KeysOf(Q)
  BY DEF KeysOf
<1>2. \A k : k \notin KeysOf(P \union Q) => Child(w, k) = Child(u, k)
  BY <1>1 DEF SectionEffect
<1>3. ~Is("object", u) => w = u
  BY DEF SectionEffect
<1>4. ASSUME Is("object", u) PROVE Is("object", w) /\ \A p \in P \union Q : PartRun(on, p, Child(u, p.key), Child(w, p.key))
  <2>1. Is("object", v) /\ Is("object", w)
    BY <1>4 DEF SectionEffect
  <2>2. ASSUME NEW p \in P PROVE PartRun(on, p, Child(u, p.key), Child(w, p.key))
    <3>1. p.key \notin KeysOf(Q)
      BY DEF KeysOf
    <3>2. Child(w, p.key) = Child(v, p.key)
      BY <3>1 DEF SectionEffect
    <3>3. PartRun(on, p, Child(u, p.key), Child(v, p.key))
      BY <1>4 DEF SectionEffect
    <3> QED
      BY <3>2, <3>3
  <2>3. ASSUME NEW p \in Q PROVE PartRun(on, p, Child(u, p.key), Child(w, p.key))
    <3>1. p.key \notin KeysOf(P)
      BY DEF KeysOf
    <3>2. Child(v, p.key) = Child(u, p.key)
      BY <3>1 DEF SectionEffect
    <3>3. PartRun(on, p, Child(v, p.key), Child(w, p.key))
      BY <2>1 DEF SectionEffect
    <3> QED
      BY <3>2, <3>3
  <2> QED
    BY <2>1, <2>2, <2>3
<1> QED
  BY <1>2, <1>3, <1>4 DEF SectionEffect

\* No part looked at, nothing rewritten.
LEMMA NoEffect ==
  ASSUME NEW on, NEW v
  PROVE  SectionEffect(on, {}, v, v)
  BY DEF SectionEffect

\* A value that is no object is left as it is, and has no parts.
LEMMA NoParts ==
  ASSUME NEW on, NEW P, NEW v, ~Is("object", v)
  PROVE  SectionEffect(on, P, v, v)
  BY DEF SectionEffect

\* Effects along a walk: the parts looked at by each step, and by all of them.
PartsUpTo(parts, n) == UNION {parts[i] : i \in 1..n}

\* Steps that look at parts of different keys have, one after the other, looked at them all.
LEMMA WalkEffect ==
  ASSUME NEW on, NEW N \in Nat, NEW parts, NEW values,
         \A n \in 1..N : SectionEffect(on, parts[n], values[n - 1], values[n]),
         \A i, j \in 1..N : i # j => KeysOf(parts[i]) \intersect KeysOf(parts[j]) = {}
  PROVE  SectionEffect(on, PartsUpTo(parts, N), values[0], values[N])
<1> DEFINE S == {n \in 0..N : SectionEffect(on, PartsUpTo(parts, n), values[0], values[n])}
<1>1. 0 \in S
  <2>1. PartsUpTo(parts, 0) = {}
    BY DEF PartsUpTo
  <2> QED
    BY <2>1, NoEffect
<1>2. \A n \in 1..N : n - 1 \in S => n \in S
  <2> SUFFICES ASSUME NEW n \in 1..N, n - 1 \in S PROVE n \in S
    OBVIOUS
  <2>1. 1..n = 1..(n - 1) \union {n} /\ n \notin 1..(n - 1) /\ 1..(n - 1) \subseteq 1..N
    OBVIOUS
  <2>2. PartsUpTo(parts, n) = PartsUpTo(parts, n - 1) \union parts[n]
    BY <2>1 DEF PartsUpTo
  <2>3. \A i \in 1..(n - 1) : KeysOf(parts[i]) \intersect KeysOf(parts[n]) = {}
    BY <2>1
  <2>4. KeysOf(PartsUpTo(parts, n - 1)) \intersect KeysOf(parts[n]) = {}
    BY <2>3 DEF PartsUpTo, KeysOf
  <2>5. SectionEffect(on, PartsUpTo(parts, n - 1), values[0], values[n - 1])
    OBVIOUS
  <2>6. SectionEffect(on, parts[n], values[n - 1], values[n])
    OBVIOUS
  <2> QED
    BY <2>2, <2>4, <2>5, <2>6, EffectsAdd
<1>3. 0..N \subseteq S
  <2> HIDE DEF S
  <2> QED
    BY <1>1, <1>2, AllStages
<1> QED
  BY <1>3

-----------------------------------------------------------------------------
\* The parts a list of sections looks at, one level down and on this one.
InnerCovers ==
  \A on \in {"clio", "xrpld"} : \A items, v :
    InnerSectioned(items) /\ Inner(on, items, v).error = Fine =>
      SectionEffect(on, InnerParts(on, items), v, Inner(on, items, v).value)

ListCovers ==
  \A on \in {"clio", "xrpld"} : \A items, v :
    Sectioned(items) /\ RunProcessors(on, items, v).error = Fine =>
      SectionEffect(on, PartsOf(on, items), v, RunProcessors(on, items, v).value)

PartOfField(on, f) == [key |-> f.key, tests |-> InnerTests(on, AnyKind, f.items)]

\* The part of a nested field stands under its key.
LEMMA OneKey ==
  ASSUME NEW on, NEW f
  PROVE  KeysOf({PartOfField(on, f)}) = {f.key}
  BY DEF KeysOf, PartOfField

\* A nested field looks at its own part.
LEMMA FieldEffect ==
  ASSUME InnerSettles, NEW on, NEW f, InnerSimple(f.items), NEW v, NestedField(on, f, v).error = Fine
  PROVE  SectionEffect(on, {PartOfField(on, f)}, v, NestedField(on, f, v).value)
<1> DEFINE c == Child(v, f.key)
           r == Inner(on, f.items, c)
           w == Stored(v, f.key, r.value)
<1>1. r.error = Fine /\ NestedField(on, f, v).value = w
  <2>1. CASE r.error # Fine
    BY <2>1 DEF NestedField
  <2>2. CASE r.error = Fine
    BY <2>2 DEF NestedField, Passed
  <2> QED
    BY <2>1, <2>2
<1>2. AllPass(on, InnerTests(on, AnyKind, f.items), c) /\ LeftBy(on, InnerTests(on, AnyKind, f.items), c, r.value)
  BY <1>1 DEF InnerSettles
<1>3. \A k : Child(w, k) = IF k = f.key /\ Present(c) THEN r.value ELSE Child(v, k)
  BY ChildOfStored
<1>4. Is("object", v) => Is("object", w)
  BY ChildOfStored
<1>5. ~Is("object", v) => w = v
  <2>1. ~Is("object", v) => ~Present(c)
    BY DEF Child, Present, Absent, Kind
  <2> QED
    BY <2>1 DEF Stored
<1> HIDE DEF w, r, c
<1>6. PartOfField(on, f).key = f.key /\ PartOfField(on, f).tests = InnerTests(on, AnyKind, f.items)
  BY DEF PartOfField
<1>7. PartRun(on, PartOfField(on, f), c, Child(w, f.key))
  BY <1>2, <1>3, <1>6 DEF PartRun, c
<1>8. KeysOf({PartOfField(on, f)}) = {f.key}
  BY OneKey
<1>9. SectionEffect(on, {PartOfField(on, f)}, v, w)
  <2>1. Is("object", v) => \A p \in {PartOfField(on, f)} : PartRun(on, p, Child(v, p.key), Child(w, p.key))
    BY <1>6, <1>7 DEF c
  <2>2. \A k : k \notin KeysOf({PartOfField(on, f)}) => Child(w, k) = Child(v, k)
    BY <1>3, <1>8
  <2> QED
    BY <1>4, <1>5, <2>1, <2>2 DEF SectionEffect
<1> QED
  BY <1>1, <1>9

\* A section of distinct fields looks at the part of each.
LEMMA SectionItemCovers ==
  ASSUME InnerSettles, NEW on, NEW item, NEW v, item.item = "section", IsSection(item),
         Process(on, item, v).error = Fine
  PROVE  SectionEffect(on, Parts(on, item), v, Process(on, item, v).value)
<1> DEFINE N == Len(item.fields)
           parts == [n \in 1..N |-> {PartOfField(on, item.fields[n])}]
<1>1. /\ IsList(item.fields) /\ \A n \in DOMAIN item.fields : InnerSimple(item.fields[n].items)
      /\ \A m, n \in DOMAIN item.fields : item.fields[m].key = item.fields[n].key => m = n
  BY DEF IsSection
<1>2. N \in Nat /\ DOMAIN item.fields = 1..N
  BY <1>1, ListIs
<1>3. Process(on, item, v) = Section(on, item, v)
  BY SectionRuns
<1>4. Parts(on, item) = PartsUpTo(parts, N)
  <2>1. Parts(on, item) = {PartOfField(on, item.fields[n]) : n \in 1..N}
    BY <1>2 DEF Parts, PartOfField
  <2>2. PartsUpTo(parts, N) = {PartOfField(on, item.fields[n]) : n \in 1..N}
    BY DEF PartsUpTo
  <2> QED
    BY <2>1, <2>2
<1>5. CASE Is("object", v)
  <2>1. PICK values : /\ Walked("fields", on, item.fields, v, values)
                      /\ Section(on, item, v).value = values[N]
    BY <1>2, <1>3, <1>5, SectionWalks
  <2>2. ASSUME NEW n \in 1..N PROVE SectionEffect(on, parts[n], values[n - 1], values[n])
    <3>1. /\ NestedField(on, item.fields[n], values[n - 1]).error = Fine
          /\ values[n] = NestedField(on, item.fields[n], values[n - 1]).value
      BY <2>1 DEF Walked, StepOf
    <3>2. InnerSimple(item.fields[n].items)
      BY <1>1, <1>2
    <3> QED
      BY <3>1, <3>2, FieldEffect
  <2>3. ASSUME NEW i \in 1..N, NEW j \in 1..N, i # j PROVE KeysOf(parts[i]) \intersect KeysOf(parts[j]) = {}
    <3>1. item.fields[i].key # item.fields[j].key
      BY <1>1, <1>2, <2>3
    <3>2. KeysOf(parts[i]) = {item.fields[i].key} /\ KeysOf(parts[j]) = {item.fields[j].key}
      BY OneKey
    <3> QED
      BY <3>1, <3>2
  <2>4. values[0] = v
    BY <2>1 DEF Walked
  <2> HIDE DEF parts
  <2>5. SectionEffect(on, PartsUpTo(parts, N), values[0], values[N])
    BY <1>2, <2>2, <2>3, WalkEffect
  <2> QED
    BY <1>3, <1>4, <2>1, <2>4, <2>5
<1>6. CASE ~Is("object", v)
  <2>1. Section(on, item, v) = Passed(v)
    BY <1>3, <1>6 DEF Section, Failed, Fine
  <2>2. Process(on, item, v).value = v
    BY <1>3, <2>1 DEF Passed
  <2> QED
    BY <1>6, <2>2, NoParts
<1> QED
  BY <1>5, <1>6

\* An item with a section in it looks at the parts of the section, on an object alone.
LEMMA IsSectionCovers ==
  ASSUME InnerSettles, InnerCovers, NEW on \in {"clio", "xrpld"}, NEW item, NEW v, IsSection(item),
         Process(on, item, v).error = Fine
  PROVE  SectionEffect(on, Parts(on, item), v, Process(on, item, v).value)
<1>1. CASE item.item = "section"
  BY <1>1, SectionItemCovers
<1>2. CASE item.item = "ifType" /\ item.kind = "object" /\ InnerSectioned(item.items)
  <2>1. Process(on, item, v) = IfType(on, item, v)
    BY <1>2, Zenon DEF Process
  <2>2. Parts(on, item) = InnerParts(on, item.items)
    BY <1>2 DEF Parts, Holders, HeldBy
  <2>3. CASE Is("object", v)
    <3>1. Process(on, item, v) = Inner(on, item.items, v)
      BY <1>2, <2>1, <2>3 DEF IfType
    <3> QED
      BY <1>2, <2>2, <3>1 DEF InnerCovers
  <2>4. CASE ~Is("object", v)
    <3>1. Process(on, item, v).value = v
      BY <1>2, <2>1, <2>4 DEF IfType, Passed
    <3> QED
      BY <2>4, <3>1, NoParts
  <2> QED
    BY <2>3, <2>4
<1>3. CASE item.item = "withCustomError" /\ IsHolder(item) /\ InnerSectioned(<<item.inner>>)
  <2>1. HeldBy(item) = <<item.inner>> /\ Runs(on, AnyKind, item) /\ InKind(AnyKind, v)
    BY <1>3 DEF HeldBy, Runs, InKind
  <2>2. /\ Inner(on, <<item.inner>>, v).error = Fine
        /\ Process(on, item, v) = Inner(on, <<item.inner>>, v)
    BY <1>3, <2>1, HolderRuns
  <2>3. Parts(on, item) = InnerParts(on, <<item.inner>>)
    BY <1>3, <2>1 DEF Parts, Holders
  <2> QED
    BY <1>3, <2>2, <2>3 DEF InnerCovers
<1> QED
  BY <1>1, <1>2, <1>3 DEF IsSection

\* Up to an item of the heading, every item keeps the field.
LEMMA HeadingKeeps ==
  ASSUME NEW items, IsList(items), NEW m \in Heading(items)
  PROVE  m \in 1..Len(items) /\ Keeps(items[m]) /\ KeepsUpTo(items, m) /\ KeepsUpTo(items, m - 1)
<1>1. Len(items) \in Nat /\ DOMAIN items = 1..Len(items)
  BY ListIs
<1>2. m \in 1..Len(items) /\ \A j \in 1..m : Keeps(items[j])
  BY <1>1 DEF Heading
<1>3. m \in 1..m /\ 1..(m - 1) \subseteq 1..m
  BY <1>1, <1>2
<1> QED
  BY <1>2, <1>3 DEF KeepsUpTo

\* The leaves of the heading hold of the value the list is run on.
LEMMA HeadingHolds ==
  ASSUME LeafKept, InnerKept, NEW on, NEW kind, NEW items, IsList(items), NEW v, InKind(kind, v),
         RunProcessors(on, items, v).error = Fine
  PROVE  AllPass(on, HeadingTests(on, kind, items), v)
<1>1. Len(items) \in Nat
  BY ListIs
<1>2. PICK values : Walked("items", on, items, v, values)
  BY <1>1, RunWalks
<1>3. ASSUME NEW m \in Heading(items) PROVE AllPass(on, Tests(on, kind, items[m]), v)
  <2>1. m \in 1..Len(items) /\ Keeps(items[m]) /\ KeepsUpTo(items, m - 1)
    BY HeadingKeeps
  <2> QED
    BY <1>2, <2>1, WalkTests
<1> QED
  BY <1>3 DEF HeadingTests, AllPass

\* One level up: a list of sections looks at the parts of all of them.
LEMMA CoversOneUp ==
  ASSUME LeafKept, InnerKept, InnerSettles, InnerCovers
  PROVE  ListCovers
<1> SUFFICES ASSUME NEW on \in {"clio", "xrpld"}, NEW items, NEW v, Sectioned(items),
                    RunProcessors(on, items, v).error = Fine
             PROVE  SectionEffect(on, PartsOf(on, items), v, RunProcessors(on, items, v).value)
  BY DEF ListCovers
<1> DEFINE N == Len(items)
           parts == [n \in 1..N |-> IF n \in Heading(items) THEN {} ELSE Parts(on, items[n])]
<1>1. /\ IsList(items) /\ N \in Nat /\ DOMAIN items = 1..N
      /\ \A i \in 1..N \ Heading(items) : IsSection(items[i])
      /\ \A i, j \in 1..N \ Heading(items) :
           i # j => KeysOf(Parts(on, items[i])) \intersect KeysOf(Parts(on, items[j])) = {}
  BY ListIs DEF Sectioned
<1>2. PICK values : Walked("items", on, items, v, values) /\ RunProcessors(on, items, v).value = values[N]
  BY <1>1, RunWalks
<1>3. ASSUME NEW n \in 1..N PROVE SectionEffect(on, parts[n], values[n - 1], values[n])
  <2>1. /\ Process(on, items[n], values[n - 1]).error = Fine
        /\ values[n] = Process(on, items[n], values[n - 1]).value
    BY <1>2 DEF Walked, StepOf
  <2>2. CASE n \in Heading(items)
    <3>1. Keeps(items[n])
      BY <1>1, <2>2, HeadingKeeps
    <3>2. values[n] = values[n - 1]
      BY <2>1, <3>1, ItemKept
    <3> QED
      BY <2>2, <3>2, NoEffect
  <2>3. CASE n \notin Heading(items)
    BY <1>1, <2>1, <2>3, IsSectionCovers
  <2> QED
    BY <2>2, <2>3
<1>4. ASSUME NEW i \in 1..N, NEW j \in 1..N, i # j PROVE KeysOf(parts[i]) \intersect KeysOf(parts[j]) = {}
  <2>1. KeysOf({}) = {}
    BY DEF KeysOf
  <2>2. CASE i \in Heading(items) \/ j \in Heading(items)
    BY <2>1, <2>2
  <2>3. CASE i \notin Heading(items) /\ j \notin Heading(items)
    BY <1>1, <1>4, <2>3
  <2> QED
    BY <2>2, <2>3
<1>5. values[0] = v
  BY <1>2 DEF Walked
<1>6. PartsUpTo(parts, N) = PartsOf(on, items)
  <2>1. PartsOf(on, items) = UNION {Parts(on, items[n]) : n \in 1..N \ Heading(items)}
    BY <1>1 DEF PartsOf
  <2>2. \A n \in 1..N : parts[n] = IF n \in Heading(items) THEN {} ELSE Parts(on, items[n])
    OBVIOUS
  <2>3. PartsUpTo(parts, N) = UNION {parts[n] : n \in 1..N}
    BY DEF PartsUpTo
  <2> HIDE DEF parts
  <2> QED
    BY <2>1, <2>2, <2>3
<1> HIDE DEF parts
<1>7. SectionEffect(on, PartsUpTo(parts, N), values[0], values[N])
  BY <1>1, <1>3, <1>4, WalkEffect
<1> QED
  BY <1>2, <1>5, <1>6, <1>7
=============================================================================
