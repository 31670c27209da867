-------------------------- MODULE HandlerForProofs --------------------------
(***************************************************************************)
(* What holds of every request to every table of handlers, whatever the    *)
(* size of either.  A parse is unrolled into the steps of its plan, two    *)
(* parses are walked side by side as long as they read the same under      *)
(* paired keys, and the properties that relate a request to a changed one  *)
(* follow: the keys the dump lists are all that is read, and a field       *)
(* answers alike under its two names.  A field finds the request as it was *)
(* sent under its names, so what its items vouch for its converter can     *)
(* rely on, and no parse ends in an exception.  A request that is accepted *)
(* is a run of outcomes, one for each field, and what they leave in the    *)
(* Input can be told: the members that are set, and the range of a limit.  *)
(***************************************************************************)
EXTENDS HandlerFor, RequestProofs

\* What holds before the first step and is kept by every step holds all along.
LEMMA AllStages ==
  ASSUME NEW N \in Nat, NEW S, 0 \in S, \A n \in 1..N : n - 1 \in S => n \in S
  PROVE  0..N \subseteq S
<1> DEFINE missed == {n \in 0..N : n \notin S}
<1>1. SUFFICES ASSUME missed # {} PROVE FALSE
  OBVIOUS
<1>2. PICK least \in missed : \A n \in missed : least <= n
  <2>1. missed \in SUBSET Nat
    OBVIOUS
  <2> HIDE DEF missed
  <2> QED
    BY <1>1, <2>1, LeastNatural
<1>3. least # 0 /\ least \in 1..N
  BY <1>2
<1>4. least - 1 \in 0..N /\ least - 1 \notin missed
  BY <1>2, <1>3
<1> QED
  BY <1>2, <1>3, <1>4

-----------------------------------------------------------------------------
\* The parses of a request after each step of the plan.
ParsesOf(on, plan, request, parses) ==
  parses = [n \in 0..Len(plan) |->
              IF n = 0 THEN Started(plan, request)
              ELSE IF parses[n - 1].error # Fine THEN parses[n - 1]
              ELSE Visited(on, plan[n], parses[n - 1])]

Follows(on, effective, parse, after) ==
  /\ parse.error # Fine => after = parse
  /\ parse.error = Fine => after = Visited(on, effective, parse)

\* A parse has a value after every step of the plan, each the one that follows the one
\* before it, and the last of them is what Parse returns.
LEMMA ParseUnrolls ==
  ASSUME NEW on, NEW plan, Len(plan) \in Nat, NEW request
  PROVE  \E parses : ParsesOf(on, plan, request, parses) /\ Parse(on, plan, request) = parses[Len(plan)]
<1> DEFINE step(n, parse) == IF parse.error # Fine THEN parse ELSE Visited(on, plan[n], parse)
           upTo(N, f) == f = [n \in 0..N |-> IF n = 0 THEN Started(plan, request) ELSE step(n, f[n - 1])]
           reached == {N \in Nat : \E f : upTo(N, f)}
<1>1. 0 \in reached
  <2> DEFINE f == [n \in 0..0 |-> Started(plan, request)]
  <2>1. \A n \in 0..0 : n = 0
    OBVIOUS
  <2>2. upTo(0, f)
    BY <2>1
  <2> QED
    BY <2>2
<1>2. ASSUME NEW N \in 1..Len(plan), N - 1 \in reached PROVE N \in reached
  <2>1. PICK f : upTo(N - 1, f)
    BY <1>2
  <2> DEFINE g == [n \in 0..N |-> IF n < N THEN f[n] ELSE step(N, f[N - 1])]
  <2>2. \A n \in 0..N : g[n] = IF n = 0 THEN Started(plan, request) ELSE step(n, g[n - 1])
    <3> TAKE n \in 0..N
    <3>1. \A m \in 0..N : g[m] = IF m < N THEN f[m] ELSE step(N, f[N - 1])
      OBVIOUS
    <3>2. \A m \in 0..(N - 1) : f[m] = IF m = 0 THEN Started(plan, request) ELSE step(m, f[m - 1])
      BY <2>1
    <3> HIDE DEF g, step
    <3>3. CASE n = 0
      <4>1. n \in 0..(N - 1) /\ n < N
        BY <3>3
      <4> QED
        BY <3>1, <3>2, <3>3, <4>1
    <3>4. CASE n \in 1..(N - 1)
      <4>1. n - 1 \in 0..N /\ n - 1 < N /\ n < N /\ n \in 0..(N - 1) /\ n # 0
        BY <3>4
      <4>2. g[n] = f[n] /\ g[n - 1] = f[n - 1]
        BY <3>1, <4>1
      <4> QED
        BY <3>2, <4>1, <4>2
    <3>5. CASE n = N
      <4>1. n # 0 /\ ~(n < N) /\ n - 1 \in 0..N /\ n - 1 < N
        BY <3>5
      <4>2. g[n] = step(n, f[n - 1]) /\ g[n - 1] = f[n - 1]
        BY <3>1, <3>5, <4>1
      <4> QED
        BY <4>1, <4>2
    <3> QED
      BY <3>3, <3>4, <3>5
  <2>3. upTo(N, g)
    <3> HIDE DEF step
    <3>1. g = [n \in 0..N |-> g[n]]
      OBVIOUS
    <3> HIDE DEF g
    <3>2. [n \in 0..N |-> g[n]]
            = [n \in 0..N |-> IF n = 0 THEN Started(plan, request) ELSE step(n, g[n - 1])]
      BY <2>2
    <3> QED
      BY <3>1, <3>2
  <2> HIDE DEF upTo, g
  <2> QED
    BY <2>3
<1>3. Len(plan) \in reached
  <2> HIDE DEF reached
  <2>1. 0..Len(plan) \subseteq reached
    BY <1>1, <1>2, AllStages
  <2> QED
    BY <2>1
<1>4. PICK reaching : upTo(Len(plan), reaching)
  BY <1>3
<1> DEFINE chosen == CHOOSE f : upTo(Len(plan), f)
<1>5. upTo(Len(plan), chosen)
  <2> HIDE DEF upTo
  <2> QED
    BY <1>4
<1>6. Parse(on, plan, request) = chosen[Len(plan)]
  BY DEF Parse, Through
<1>7. ParsesOf(on, plan, request, chosen)
  <2> HIDE DEF chosen
  <2> QED
    BY <1>5 DEF ParsesOf
<1> QED
  BY <1>6, <1>7

\* The parses after each step: the first is the start, each follows from the one before it,
\* and a parse that ends well went well all along.
LEMMA ParseStages ==
  ASSUME NEW on, NEW plan, Len(plan) \in Nat, NEW request, NEW parses,
         ParsesOf(on, plan, request, parses)
  PROVE  /\ parses[0] = Started(plan, request)
         /\ \A n \in 1..Len(plan) : Follows(on, plan[n], parses[n - 1], parses[n])
         /\ parses[Len(plan)].error = Fine => \A n \in 0..Len(plan) : parses[n].error = Fine
<1> DEFINE N == Len(plan)
<1>1. parses[0] = Started(plan, request)
  BY DEF ParsesOf
<1>2. \A n \in 1..N : Follows(on, plan[n], parses[n - 1], parses[n])
  <2>1. \A n \in 1..N : n \in 0..N /\ n # 0
    OBVIOUS
  <2> QED
    BY <2>1 DEF ParsesOf, Follows
<1>3. ASSUME parses[N].error = Fine PROVE \A n \in 0..N : parses[n].error = Fine
  <2> DEFINE S == {n \in 0..N : parses[N - n].error = Fine}
  <2>1. 0 \in S
    BY <1>3
  <2>2. ASSUME NEW n \in 1..N, n - 1 \in S PROVE n \in S
    <3>1. N - (n - 1) \in 1..N /\ (N - (n - 1)) - 1 = N - n /\ n \in 0..N
      OBVIOUS
    <3> QED
      BY <1>2, <2>2, <3>1 DEF Follows
  <2>3. 0..N \subseteq S
    <3> HIDE DEF S
    <3> QED
      BY <2>1, <2>2, AllStages
  <2>4. \A n \in 0..N : N - n \in 0..N /\ N - (N - n) = n
    OBVIOUS
  <2> QED
    BY <2>3, <2>4
<1> QED
  BY <1>1, <1>2, <1>3

-----------------------------------------------------------------------------
\* A parse has the three parts of one, whatever a field makes of it.
Parsed(error, root, input) == [error |-> error, root |-> root, input |-> input]

IsParse(p) == p = Parsed(p.error, p.root, p.input)

\* Two parses that differ in the request alone.
Alike(one, two) == IsParse(one) /\ IsParse(two) /\ one.error = two.error /\ one.input = two.input

\* And what the same field may do to the two requests.
RewrittenAlike(f, one, two, after, other) ==
  \/ after.root = one.root /\ other.root = two.root
  \/ \E v : after.root = Rewritten(f, one.root, v) /\ other.root = Rewritten(f, two.root, v)

GuardKeys(on, f) == {guard.key : guard \in Named(on, f.items, "ifAbsent")}

\* A parse is known by its parts, and an edit of one leaves the others.
LEMMA Parts ==
  ASSUME NEW error, NEW root, NEW input
  PROVE  LET p == Parsed(error, root, input)
         IN p.error = error /\ p.root = root /\ p.input = input /\ IsParse(p)
  BY DEF Parsed, IsParse

\* A parse edited in one of its parts holds what was put there, and the other parts as they were.
LEMMA Edited ==
  ASSUME NEW p, IsParse(p)
  PROVE  /\ \A code : [p EXCEPT !.error = code] = Parsed(code, p.root, p.input)
         /\ \A root : [p EXCEPT !.root = root] = Parsed(p.error, root, p.input)
         /\ \A input : [p EXCEPT !.input = input] = Parsed(p.error, p.root, input)
<1> DEFINE e == p.error r == p.root i == p.input
<1>1. p = Parsed(e, r, i)
  BY DEF IsParse
<1> HIDE DEF e, r, i
<1>2. /\ \A code : [p EXCEPT !.error = code] = Parsed(code, r, i)
      /\ \A root : [p EXCEPT !.root = root] = Parsed(e, root, i)
      /\ \A input : [p EXCEPT !.input = input] = Parsed(e, r, input)
  BY <1>1 DEF Parsed
<1> QED
  BY <1>2 DEF e, r, i

\* What an assignment leaves of a parse, spelled out.
LEMMA AssignedParse ==
  ASSUME NEW f, NEW p, IsParse(p), NEW result
  PROVE  /\ result.error # Fine => Assigned(f, p, result) = Parsed(result.error, p.root, p.input)
         /\ result.error = Fine =>
              Assigned(f, p, result) = Parsed(p.error, p.root, [p.input EXCEPT ![f.member] = result.value])
  BY Edited DEF Assigned, Refusal

\* And what a conversion leaves: nothing new of a field that is not bound, the converted value or
\* its error of one that is present, the default of one that is not.
LEMMA ConvertedParse ==
  ASSUME NEW on, NEW f, NEW p, IsParse(p), NEW v
  PROVE  Converted(on, f, p, v) =
           IF f.conv = Unbound THEN Parsed(p.error, p.root, p.input)
           ELSE IF Present(v) THEN Assigned(f, p, Convert(on, f.conv, v))
           ELSE Parsed(p.error, p.root, Defaulted(f, p.input))
<1>1. [p EXCEPT !.input = Defaulted(f, p.input)] = Parsed(p.error, p.root, Defaulted(f, p.input))
  BY Edited
<1> QED
  BY <1>1 DEF Converted, IsParse

\* An assignment and a conversion read no more of a parse than its error and its input.
LEMMA ResultsAlike ==
  ASSUME NEW f, NEW one, NEW two, Alike(one, two)
  PROVE  /\ \A result :
              LET after == Assigned(f, one, result)
                  other == Assigned(f, two, result)
              IN Alike(after, other) /\ after.root = one.root /\ other.root = two.root
         /\ \A on, v :
              LET after == Converted(on, f, one, v)
                  other == Converted(on, f, two, v)
              IN Alike(after, other) /\ after.root = one.root /\ other.root = two.root
<1>1. /\ IsParse(one) /\ IsParse(two)
      /\ one.error = two.error /\ one.input = two.input
  BY DEF Alike
<1>2. ASSUME NEW result
      PROVE  /\ Alike(Assigned(f, one, result), Assigned(f, two, result))
             /\ Assigned(f, one, result).root = one.root
             /\ Assigned(f, two, result).root = two.root
  <2>1. CASE result.error # Fine
    <3>1. /\ Assigned(f, one, result) = Parsed(result.error, one.root, one.input)
          /\ Assigned(f, two, result) = Parsed(result.error, two.root, two.input)
      BY <1>1, <2>1, AssignedParse
    <3> QED
      BY <1>1, <3>1, Parts DEF Alike
  <2>2. CASE result.error = Fine
    <3> DEFINE assigned(p) == Parsed(p.error, p.root, [p.input EXCEPT ![f.member] = result.value])
    <3>1. Assigned(f, one, result) = assigned(one) /\ Assigned(f, two, result) = assigned(two)
      BY <1>1, <2>2, AssignedParse
    <3>2. /\ assigned(one).error = assigned(two).error /\ assigned(one).input = assigned(two).input
          /\ assigned(one).root = one.root /\ assigned(two).root = two.root
          /\ IsParse(assigned(one)) /\ IsParse(assigned(two))
      BY <1>1, Parts
    <3> HIDE DEF assigned
    <3> QED
      BY <3>1, <3>2 DEF Alike
  <2> QED
    BY <2>1, <2>2
<1>3. ASSUME NEW on, NEW v
      PROVE  /\ Alike(Converted(on, f, one, v), Converted(on, f, two, v))
             /\ Converted(on, f, one, v).root = one.root
             /\ Converted(on, f, two, v).root = two.root
  BY <1>1, <1>2, ConvertedParse, Parts DEF Alike
<1> QED
  BY <1>2, <1>3

\* What a field makes of a parse depends on what it finds under the keys it names, and it
\* rewrites the one it is read from.
LEMMA FieldFrame ==
  ASSUME NEW on, NEW f, NEW one, NEW two, Alike(one, two),
         TooManyFields(f, one.root) <=> TooManyFields(f, two.root),
         Skipped(on, f, one.root) <=> Skipped(on, f, two.root),
         f.conv = Selector => LedgerFromRequest(on, one.root) = LedgerFromRequest(on, two.root),
         Child(one.root, SelectedKey(f, one.root)) = Child(two.root, SelectedKey(f, two.root))
  PROVE  LET after == ParseInto(on, f, one)
             other == ParseInto(on, f, two)
         IN Alike(after, other) /\ RewrittenAlike(f, one, two, after, other)
<1> DEFINE after == ParseInto(on, f, one)
           other == ParseInto(on, f, two)
           processed == Processed(on, f, one.root)
           ledger == LedgerFromRequest(on, one.root)
<1>1. /\ IsParse(one) /\ IsParse(two)
      /\ one.error = two.error /\ one.input = two.input
  BY DEF Alike
<1>2. \A code : /\ Alike(Refusal(one, code), Refusal(two, code))
                /\ Refusal(one, code).root = one.root /\ Refusal(two, code).root = two.root
  BY <1>1, Edited, Parts DEF Refusal, Alike
<1>3. CASE TooManyFields(f, one.root)
  <2>1. after = Refusal(one, "invalidParams") /\ other = Refusal(two, "invalidParams")
    BY <1>3 DEF ParseInto
  <2> QED
    BY <1>2, <2>1 DEF RewrittenAlike
<1>4. CASE ~TooManyFields(f, one.root) /\ Skipped(on, f, one.root)
  <2>1. after = one /\ other = two
    BY <1>4 DEF ParseInto
  <2> QED
    BY <2>1 DEF RewrittenAlike
<1>5. CASE ~TooManyFields(f, one.root) /\ ~Skipped(on, f, one.root) /\ f.conv = Selector
  <2>1. after = Assigned(f, one, ledger) /\ other = Assigned(f, two, ledger)
    BY <1>5 DEF ParseInto
  <2> HIDE DEF ledger
  <2> QED
    BY <2>1, ResultsAlike DEF RewrittenAlike
<1>6. CASE ~TooManyFields(f, one.root) /\ ~Skipped(on, f, one.root) /\ f.conv # Selector
  <2>1. Processed(on, f, two.root) = processed
    BY DEF Processed
  <2>2. after = Settled(on, f, one, processed) /\ other = Settled(on, f, two, processed)
    BY <1>6, <2>1 DEF ParseInto
  <2> HIDE DEF processed
  <2>3. CASE processed.error # Fine
    <3>1. after = Refusal(one, processed.error) /\ other = Refusal(two, processed.error)
      BY <2>2, <2>3 DEF Settled
    <3> QED
      BY <1>2, <3>1 DEF RewrittenAlike
  <2>4. CASE processed.error = Fine
    <3> DEFINE v == processed.value
               stored(p) == Parsed(p.error, Rewritten(f, p.root, v), p.input)
    <3>1. after = Converted(on, f, stored(one), v) /\ other = Converted(on, f, stored(two), v)
      BY <1>1, <2>2, <2>4, Edited DEF Settled
    <3>2. /\ Alike(stored(one), stored(two))
          /\ stored(one).root = Rewritten(f, one.root, v)
          /\ stored(two).root = Rewritten(f, two.root, v)
      BY <1>1, Parts DEF Alike
    <3> HIDE DEF stored
    <3> QED
      BY <3>1, <3>2, ResultsAlike DEF RewrittenAlike
  <2> QED
    BY <2>3, <2>4
<1> QED
  BY <1>3, <1>4, <1>5, <1>6

-----------------------------------------------------------------------------
\* What a reader finds in a request after a write to one of its keys.
LEMMA ChildAfterWrite ==
  ASSUME NEW root, NEW key, NEW w
  PROVE  /\ Present(Child(root, key)) => Child(Stored(root, key, w), key) = w
         /\ ~Present(Child(root, key)) => Stored(root, key, w) = root
         /\ \A k : k # key => Child(Stored(root, key, w), k) = Child(root, k)
<1>1. ~Present(Absent)
  BY DEF Present, Kind, Absent
<1>2. CASE ~Present(Child(root, key))
  BY <1>2 DEF Stored
<1>3. CASE Present(Child(root, key))
  <2> DEFINE f == [root.object EXCEPT ![key] = w]
  <2>1. Is("object", root) /\ key \in DOMAIN root.object
    BY <1>1, <1>3 DEF Child
  <2>2. Stored(root, key, w) = Object(f)
    BY <1>3 DEF Stored
  <2>3. Is("object", Object(f)) /\ Object(f).object = f
    BY Written DEF Is
  <2>4. /\ DOMAIN f = DOMAIN root.object /\ f[key] = w
        /\ \A k \in DOMAIN f : k # key => f[k] = root.object[k]
    BY <2>1
  <2> HIDE DEF f
  <2> QED
    BY <1>3, <2>1, <2>2, <2>3, <2>4 DEF Child
<1> QED
  BY <1>2, <1>3

\* The keys a field reads.
SelectorKeys(on) == IF on = "xrpld" THEN LedgerKeys ELSE {"ledger_hash", "ledger_index"}

Reads(on, f) ==
  NamesOf(f) \union GuardKeys(on, f) \union (IF f.conv = Selector THEN SelectorKeys(on) ELSE {})

\* The selector reads these keys and no others.
LEMMA SelectorReads ==
  ASSUME NEW on, NEW one, NEW two, \A key \in SelectorKeys(on) : Child(one, key) = Child(two, key)
  PROVE  LedgerFromRequest(on, one) = LedgerFromRequest(on, two)
<1>1. CASE on = "xrpld"
  <2>1. /\ Child(one, "ledger") = Child(two, "ledger")
        /\ Child(one, "ledger_hash") = Child(two, "ledger_hash")
        /\ Child(one, "ledger_index") = Child(two, "ledger_index")
    BY <1>1 DEF SelectorKeys, LedgerKeys
  <2>2. NamedLedgers(one) = NamedLedgers(two)
    BY <2>1 DEF NamedLedgers, LedgerKeys
  <2> QED
    BY <1>1, <2>1, <2>2 DEF LedgerFromRequest, XrpldLedgerFromRequest
<1>2. CASE on # "xrpld"
  <2>1. /\ Child(one, "ledger_hash") = Child(two, "ledger_hash")
        /\ Child(one, "ledger_index") = Child(two, "ledger_index")
    BY <1>2 DEF SelectorKeys
  <2> QED
    BY <1>2, <2>1 DEF LedgerFromRequest, ClioLedgerFromRequest
<1> QED
  BY <1>1, <1>2

-----------------------------------------------------------------------------
\* Two parses whose requests hold the same under the keys that a renaming pairs.
Mirrored(keys, renaming, one, two) ==
  /\ Alike(one, two)
  /\ \A k \in keys : Child(one.root, k) = Child(two.root, renaming[k])

\* A field that reads the paired keys alone, and reads them alike, keeps them so.
LEMMA MirroredStep ==
  ASSUME NEW on, NEW f, NEW keys, NEW renaming, NEW one, NEW two,
         Mirrored(keys, renaming, one, two),
         \A k, l \in keys : renaming[k] = renaming[l] => k = l,
         TooManyFields(f, one.root) <=> TooManyFields(f, two.root),
         Skipped(on, f, one.root) <=> Skipped(on, f, two.root),
         f.conv = Selector => LedgerFromRequest(on, one.root) = LedgerFromRequest(on, two.root),
         SelectedKey(f, one.root) \in keys,
         SelectedKey(f, two.root) = renaming[SelectedKey(f, one.root)]
  PROVE  Mirrored(keys, renaming, ParseInto(on, f, one), ParseInto(on, f, two))
<1> DEFINE after == ParseInto(on, f, one)
           other == ParseInto(on, f, two)
           key   == SelectedKey(f, one.root)
<1>1. Child(one.root, key) = Child(two.root, renaming[key])
  BY DEF Mirrored
<1>2. Alike(after, other) /\ RewrittenAlike(f, one, two, after, other)
  BY <1>1, FieldFrame DEF Mirrored
<1>3. CASE after.root = one.root /\ other.root = two.root
  BY <1>2, <1>3 DEF Mirrored
<1>4. ASSUME NEW v, after.root = Rewritten(f, one.root, v), other.root = Rewritten(f, two.root, v)
      PROVE  Mirrored(keys, renaming, after, other)
  <2>1. /\ after.root = Stored(one.root, key, v)
        /\ other.root = Stored(two.root, renaming[key], v)
    BY <1>4 DEF Rewritten
  <2> HIDE DEF after, other, key
  <2>2. ASSUME NEW k \in keys PROVE Child(after.root, k) = Child(other.root, renaming[k])
    <3>1. Child(one.root, k) = Child(two.root, renaming[k])
      BY DEF Mirrored
    <3>2. CASE k = key
      BY <1>1, <2>1, <3>2, ChildAfterWrite
    <3>3. CASE k # key
      <4>1. renaming[k] # renaming[key]
        BY <3>3 DEF key
      <4> QED
        BY <2>1, <3>1, <3>3, <4>1, ChildAfterWrite
    <3> QED
      BY <3>2, <3>3
  <2> QED
    BY <1>2, <2>2 DEF Mirrored
<1> QED
  BY <1>2, <1>3, <1>4 DEF RewrittenAlike

\* In particular one that reads no renamed key.
LEMMA MirroredVisit ==
  ASSUME NEW on, NEW f, NEW keys, NEW renaming, NEW one, NEW two,
         Mirrored(keys, renaming, one, two),
         \A k, l \in keys : renaming[k] = renaming[l] => k = l,
         Reads(on, f) \subseteq keys,
         \A k \in Reads(on, f) : renaming[k] = k
  PROVE  Mirrored(keys, renaming, ParseInto(on, f, one), ParseInto(on, f, two))
<1>1. \A k \in Reads(on, f) : Child(one.root, k) = Child(two.root, k)
  BY DEF Mirrored
<1>2. f.key \in Reads(on, f) /\ f.alternate \in Reads(on, f)
  BY DEF Reads, NamesOf
<1>3. \A guard \in Named(on, f.items, "ifAbsent") : guard.key \in Reads(on, f)
  BY DEF Reads, GuardKeys
<1>4. TooManyFields(f, one.root) <=> TooManyFields(f, two.root)
  BY <1>1, <1>2 DEF TooManyFields
<1>5. Skipped(on, f, one.root) <=> Skipped(on, f, two.root)
  BY <1>1, <1>3 DEF Skipped, SkipsField
<1>6. f.conv = Selector => LedgerFromRequest(on, one.root) = LedgerFromRequest(on, two.root)
  <2>1. SUFFICES ASSUME f.conv = Selector
                 PROVE  LedgerFromRequest(on, one.root) = LedgerFromRequest(on, two.root)
    OBVIOUS
  <2>2. \A key \in SelectorKeys(on) : Child(one.root, key) = Child(two.root, key)
    BY <1>1, <2>1 DEF Reads
  <2> QED
    BY <2>2, SelectorReads
<1>7. /\ SelectedKey(f, one.root) \in keys
      /\ SelectedKey(f, two.root) = renaming[SelectedKey(f, one.root)]
  BY <1>1, <1>2 DEF SelectedKey
<1> QED
  BY <1>4, <1>5, <1>6, <1>7, MirroredStep

ReadBy(on, plan) == UNION {Reads(on, f) : f \in FieldsOf(plan)}

\* Two requests that hold the same under every key a plan reads are parsed alike, and
\* earn the same warnings.
LEMMA SameReadsSameParse ==
  ASSUME NEW on, NEW plan, Len(plan) \in Nat, DOMAIN plan = 1..Len(plan),
         NEW one, NEW two, \A k \in ReadBy(on, plan) : Child(one, k) = Child(two, k)
  PROVE  /\ Alike(Parse(on, plan, one), Parse(on, plan, two))
         /\ Warnings(on, plan, one) = Warnings(on, plan, two)
<1> DEFINE keys == ReadBy(on, plan)
           same == [k \in keys |-> k]
           N == Len(plan)
<1>0. \A f \in FieldsOf(plan) : Reads(on, f) \subseteq keys
  BY DEF ReadBy
<1> HIDE DEF keys
<1>1. PICK ones : ParsesOf(on, plan, one, ones) /\ Parse(on, plan, one) = ones[N]
  BY ParseUnrolls
<1>2. PICK twos : ParsesOf(on, plan, two, twos) /\ Parse(on, plan, two) = twos[N]
  BY ParseUnrolls
<1> DEFINE alike == {n \in 0..N : Mirrored(keys, same, ones[n], twos[n])}
<1>3. 0 \in alike
  <2>0. ones[0] = Started(plan, one) /\ twos[0] = Started(plan, two)
    BY <1>1, <1>2, ParseStages
  <2>1. /\ ones[0] = Parsed(Fine, one, Blank(plan)) /\ twos[0] = Parsed(Fine, two, Blank(plan))
    BY <2>0 DEF Started, Parsed
  <2>2. /\ Alike(ones[0], twos[0]) /\ ones[0].root = one /\ twos[0].root = two
    BY <2>1, Parts DEF Alike
  <2> QED
    BY <2>2 DEF Mirrored, keys
<1>4. ASSUME NEW n \in 1..N, n - 1 \in alike PROVE n \in alike
  <2>0. /\ Follows(on, plan[n], ones[n - 1], ones[n])
        /\ Follows(on, plan[n], twos[n - 1], twos[n])
    BY <1>1, <1>2, ParseStages
  <2>1. Mirrored(keys, same, ones[n - 1], twos[n - 1])
    BY <1>4
  <2>2. ones[n - 1].error = twos[n - 1].error
    BY <2>1 DEF Mirrored, Alike
  <2>3. CASE ones[n - 1].error # Fine
    <3>1. ones[n] = ones[n - 1] /\ twos[n] = twos[n - 1]
      BY <2>0, <2>2, <2>3 DEF Follows
    <3> QED
      BY <2>1, <3>1
  <2>4. CASE ones[n - 1].error = Fine
    <3>1. ones[n] = Visited(on, plan[n], ones[n - 1]) /\ twos[n] = Visited(on, plan[n], twos[n - 1])
      BY <2>0, <2>2, <2>4 DEF Follows
    <3>2. CASE ~plan[n].shouldRun
      BY <2>1, <3>1, <3>2 DEF Visited
    <3>3. CASE plan[n].shouldRun
      <4>1. plan[n].field \in FieldsOf(plan)
        BY DEF FieldsOf
      <4>2. Mirrored(keys, same, ParseInto(on, plan[n].field, ones[n - 1]),
                     ParseInto(on, plan[n].field, twos[n - 1]))
        <5>1. Reads(on, plan[n].field) \subseteq keys
          BY <1>0, <4>1
        <5>2. /\ \A k, l \in keys : same[k] = same[l] => k = l
              /\ \A k \in Reads(on, plan[n].field) : same[k] = k
          BY <5>1
        <5> HIDE DEF same
        <5> QED
          BY <2>1, <5>1, <5>2, MirroredVisit
      <4> QED
        BY <3>1, <3>3, <4>2 DEF Visited
    <3> QED
      BY <3>2, <3>3
  <2> QED
    BY <2>3, <2>4
<1>5. Alike(Parse(on, plan, one), Parse(on, plan, two))
  <2>1. 0..N \subseteq alike
    <3> HIDE DEF alike
    <3> QED
      BY <1>3, <1>4, AllStages
  <2>2. N \in 0..N
    OBVIOUS
  <2>3. Mirrored(keys, same, ones[N], twos[N])
    BY <2>1, <2>2
  <2> QED
    BY <1>1, <1>2, <2>3 DEF Mirrored
<1>6. ASSUME NEW f \in FieldsOf(plan)
      PROVE  /\ Skipped(on, f, one) <=> Skipped(on, f, two)
             /\ Child(one, SelectedKey(f, one)) = Child(two, SelectedKey(f, two))
  <2>1. \A k \in Reads(on, f) : Child(one, k) = Child(two, k)
    BY <1>0 DEF keys
  <2>2. f.key \in Reads(on, f) /\ f.alternate \in Reads(on, f)
    BY DEF Reads, NamesOf
  <2>3. \A guard \in Named(on, f.items, "ifAbsent") : guard.key \in Reads(on, f)
    BY DEF Reads, GuardKeys
  <2> QED
    BY <2>1, <2>2, <2>3 DEF Skipped, SkipsField, SelectedKey
<1>7. Warnings(on, plan, one) = Warnings(on, plan, two)
  BY <1>6 DEF Warnings
<1> QED
  BY <1>5, <1>7

-----------------------------------------------------------------------------
\* A function on 1..N is a sequence.
LEMMA SequenceOf ==
  ASSUME NEW n \in Nat, NEW S, NEW s \in [1..n -> S]
  PROVE  s \in Seq(S) /\ Len(s) = n
<1>1. s \in Seq(S)
  BY SeqDef
<1>2. Len(s) \in Nat /\ DOMAIN s = 1..Len(s) /\ DOMAIN s = 1..n
  BY <1>1, LenProperties
<1> QED
  BY <1>1, <1>2

\* The plan of a spec: it runs every key once, by a definition of the spec.
LEMMA PlanRuns ==
  ASSUME NEW fields, fields \in Seq(Definitions(fields))
  PROVE  LET plan == EffectiveFields(fields)
         IN /\ Len(plan) \in Nat /\ DOMAIN plan = 1..Len(plan) /\ DOMAIN plan = DOMAIN fields
            /\ FieldsOf(plan) \subseteq Definitions(fields)
            /\ \A i \in DOMAIN plan : plan[i].field.key = fields[i].key
            /\ \A i, j \in DOMAIN plan :
                 plan[i].shouldRun /\ plan[j].shouldRun /\ plan[i].field.key = plan[j].field.key => i = j
            /\ \A i \in DOMAIN plan : \E j \in DOMAIN plan :
                 plan[j].shouldRun /\ plan[j].field = plan[i].field
<1> DEFINE plan == EffectiveFields(fields)
           last(i) == LastWithKeyOf(fields, i)
<1>1. Len(fields) \in Nat /\ DOMAIN fields = 1..Len(fields)
  BY LenProperties
<1>2. /\ DOMAIN plan = DOMAIN fields
      /\ \A i \in DOMAIN fields : plan[i].shouldRun = IsFirst(fields, i) /\ plan[i].field = fields[last(i)]
  BY DEF EffectiveFields
<1>3. Len(plan) \in Nat /\ DOMAIN plan = 1..Len(plan)
  <2>1. plan \in [1..Len(fields) -> {plan[j] : j \in 1..Len(fields)}]
    BY <1>1 DEF EffectiveFields
  <2> HIDE DEF plan
  <2> QED
    BY <1>1, <1>2, <2>1, SequenceOf
<1>4. \A k \in DOMAIN fields :
        /\ last(k) \in DOMAIN fields /\ fields[last(k)].key = fields[k].key
        /\ \E i \in DOMAIN fields : IsFirst(fields, i) /\ fields[i].key = fields[k].key
        /\ \A i, j \in DOMAIN fields :
             /\ IsFirst(fields, i) /\ fields[i].key = fields[k].key
             /\ IsFirst(fields, j) /\ fields[j].key = fields[k].key
             => i = j
  <2>1. SUFFICES ASSUME NEW k \in DOMAIN fields
                 PROVE  /\ last(k) \in DOMAIN fields /\ fields[last(k)].key = fields[k].key
                        /\ \E i \in DOMAIN fields : IsFirst(fields, i) /\ fields[i].key = fields[k].key
                        /\ \A i, j \in DOMAIN fields :
                             /\ IsFirst(fields, i) /\ fields[i].key = fields[k].key
                             /\ IsFirst(fields, j) /\ fields[j].key = fields[k].key
                             => i = j
    OBVIOUS
  <2>2. PICK i \in DOMAIN fields :
          /\ KeyOf(fields, i) = KeyOf(fields, k)
          /\ IsFirst(fields, i)
          /\ \A j \in DOMAIN fields :
               KeyOf(fields, j) = KeyOf(fields, k) =>
                 /\ i <= j
                 /\ IsFirst(fields, j) => j = i
                 /\ j <= last(i)
          /\ last(i) \in DOMAIN fields
          /\ KeyOf(fields, last(i)) = KeyOf(fields, k)
    BY KeysRunOnce
  <2>3. last(i) = last(k)
    BY <2>2 DEF LastWithKeyOf
  <2> QED
    BY <2>2, <2>3 DEF KeyOf
<1>5. FieldsOf(plan) \subseteq Definitions(fields)
  BY <1>2, <1>4 DEF FieldsOf, Definitions
<1>6. \A i \in DOMAIN plan : plan[i].field.key = fields[i].key
  BY <1>2, <1>4
<1>7. ASSUME NEW i \in DOMAIN plan, NEW j \in DOMAIN plan,
             plan[i].shouldRun, plan[j].shouldRun, plan[i].field.key = plan[j].field.key
      PROVE  i = j
  <2>1. IsFirst(fields, i) /\ IsFirst(fields, j)
    BY <1>2, <1>7
  <2>2. fields[i].key = fields[j].key /\ i \in DOMAIN fields /\ j \in DOMAIN fields
    BY <1>2, <1>6, <1>7
  <2> QED
    BY <1>4, <2>1, <2>2
<1>8. ASSUME NEW i \in DOMAIN plan
      PROVE  \E j \in DOMAIN plan : plan[j].shouldRun /\ plan[j].field = plan[i].field
  <2>1. PICK j \in DOMAIN fields : IsFirst(fields, j) /\ fields[j].key = fields[i].key
    BY <1>2, <1>4
  <2>2. last(j) = last(i)
    BY <2>1 DEF LastWithKeyOf, KeyOf
  <2> QED
    BY <1>2, <2>1, <2>2
<1> HIDE DEF plan
<1> QED
  BY <1>2, <1>3, <1>5, <1>6, <1>7, <1>8 DEF plan

\* Every version of a request is parsed by the plan of a spec, and dumped from that spec.
LEMMA PlanOfSpec ==
  ASSUME NEW handler \in DOMAIN Specs, NEW version \in Nat
  PROVE  \E n \in DOMAIN Specs[handler] :
           /\ PlanOf(handler, version) = EffectiveFields(Specs[handler][n])
           /\ SelectedSpec(Dumps[handler], version) = dump(Specs[handler][n])
<1> DEFINE versions == Specs[handler]
           plans    == Plans[handler]
           dumps    == Dumps[handler]
<1>1. versions \in Seq(Definitions(versions)) /\ versions # <<>>
  BY SpecsAreVersioned
<1>2. Len(versions) \in DOMAIN versions /\ DOMAIN versions = 1..Len(versions) /\ Len(versions) \in Nat
  <2> HIDE DEF versions
  <2>1. Len(versions) \in Nat /\ DOMAIN versions = 1..Len(versions) /\ Len(versions) # 0
    BY <1>1, LenProperties, EmptySeq
  <2> QED
    BY <2>1
<1>3. /\ plans = [n \in DOMAIN versions |-> EffectiveFields(versions[n])]
      /\ dumps = [n \in DOMAIN versions |-> dump(versions[n])]
  BY DEF Plans, Dumps
<1>4. Len(plans) = Len(versions) /\ Len(dumps) = Len(versions)
  <2> HIDE DEF versions
  <2>1. /\ plans \in [1..Len(versions) -> {EffectiveFields(versions[n]) : n \in 1..Len(versions)}]
        /\ dumps \in [1..Len(versions) -> {dump(versions[n]) : n \in 1..Len(versions)}]
    BY <1>2, <1>3
  <2> HIDE DEF plans, dumps
  <2> QED
    BY <1>2, <2>1, SequenceOf
<1> DEFINE n == IF version \in DOMAIN versions THEN version ELSE Len(versions)
<1>5. n \in DOMAIN versions
  BY <1>2
<1>6. SelectedSpec(plans, version) = plans[n] /\ SelectedSpec(dumps, version) = dumps[n]
  BY <1>3, <1>4 DEF SelectedSpec
<1>7. plans[n] = EffectiveFields(versions[n]) /\ dumps[n] = dump(versions[n])
  BY <1>3, <1>5
<1> QED
  BY <1>5, <1>6, <1>7 DEF PlanOf

-----------------------------------------------------------------------------
\* The answer of a request is the one its parse earns: the Input and the request as it was
\* left, or the code of the server.
Answered ==
  /\ server \in Servers
  /\ call \in Calls
  /\ \/ answer = Pending
     \/ ParseInput.error = Fine /\ answer = ParseInput
     \/ ParseInput.error # Fine /\ answer = [error |-> CodeOn(server, ParseInput.error)]

\* The parse is one step, and nothing happens after it.
THEOREM AnsweredAlways == Spec => []Answered
<1>1. Init => Answered
  BY DEF Init, Answered
<1>2. Answered /\ [Next]_vars => Answered'
  <2> SUFFICES ASSUME Answered, [Next]_vars PROVE Answered'
    OBVIOUS
  <2>1. CASE Accept(ParseInput)
    BY <2>1 DEF Accept, Answered, ParseInput
  <2>2. CASE Refuse(ParseInput)
    BY <2>2 DEF Refuse, Answered, ParseInput
  <2>3. CASE UNCHANGED vars
    BY <2>3 DEF vars, Answered, ParseInput
  <2> QED
    BY <2>1, <2>2, <2>3 DEF Next
<1> QED
  BY <1>1, <1>2, PTL DEF Spec

\* A refusal is never taken for an acceptance, nor for an answer that is still to come.
LEMMA CodeIsNoAcceptance ==
  ASSUME NEW on, NEW code, code # Fine
  PROVE  CodeOn(on, code) # Fine
  BY DEF CodeOn, Fine

\* What an answer tells of the parse.
LEMMA AnswerTells ==
  ASSUME Answered, answer # Pending
  PROVE  /\ Accepted <=> ParseInput.error = Fine
         /\ Accepted => answer = ParseInput
<1>1. CASE ParseInput.error = Fine /\ answer = ParseInput
  BY <1>1 DEF Accepted
<1>2. CASE ParseInput.error # Fine /\ answer = [error |-> CodeOn(server, ParseInput.error)]
  BY <1>2, CodeIsNoAcceptance DEF Accepted
<1> QED
  BY <1>1, <1>2 DEF Answered

\* What the handlers and the specs of the calls are.
LEMMA CallTypes ==
  ASSUME Answered
  PROVE  /\ server \in Servers
         /\ call.handler \in DOMAIN Specs /\ call.version \in Nat
         /\ Is("object", call.request)
  BY CallsAreRequests DEF Answered

\* Two alike parses earn the same answer.
LEMMA SameAnswers ==
  ASSUME Answered, answer # Pending, NEW other, Alike(ParseInput, other)
  PROVE  SameAnswer(other)
  BY AnswerTells DEF SameAnswer, SameInput, AcceptsToo, Alike

-----------------------------------------------------------------------------
\* The keys a field stands for in a dump.
Shown(f) == IF f.conv = Selector THEN {"ledger_hash", "ledger_index"} ELSE NamesOf(f)

\* A field is dumped under the keys it stands for, each once, at one place or two.
LEMMA FieldDump ==
  ASSUME NEW f, DOMAIN f = {"key", "member", "items", "conv", "alternate"},
         f.conv = Unbound => f.alternate = f.key
  PROVE  /\ {dumpOne(f)[m].text : m \in DOMAIN dumpOne(f)} = Shown(f)
         /\ DOMAIN dumpOne(f) \subseteq {1, 2}
         /\ \A m, l \in DOMAIN dumpOne(f) : dumpOne(f)[m].text = dumpOne(f)[l].text => m = l
<1>1. \A name, body : bulletGroup(name, body).text = name
  BY DEF bulletGroup
<1>2. \A g : dumpBound(g).text = g.key /\ dumpFieldSpec(g).text = g.key
  BY <1>1 DEF dumpBound, dumpFieldSpec
<1>3. [f EXCEPT !.key = f.alternate].key = f.alternate
  OBVIOUS
<1> DEFINE Lists(written, shown) ==
             /\ {written[m].text : m \in DOMAIN written} = shown
             /\ DOMAIN written \subseteq {1, 2}
             /\ \A m, l \in DOMAIN written : written[m].text = written[l].text => m = l
<1>4. \A one : Lists(<<one>>, {one.text})
  <2> TAKE one
  <2>1. DOMAIN <<one>> = {1} /\ <<one>>[1] = one
    OBVIOUS
  <2> QED
    BY <2>1
<1>5. \A one, two : one.text # two.text => Lists(<<one, two>>, {one.text, two.text})
  <2> TAKE one, two
  <2>1. DOMAIN <<one, two>> = {1, 2} /\ <<one, two>>[1] = one /\ <<one, two>>[2] = two
    OBVIOUS
  <2> QED
    BY <2>1
<1> HIDE DEF Lists
<1>6. Lists(dumpOne(f), Shown(f))
  <2>1. CASE f.conv = Selector
    <3>1. dumpOne(f) = dumpSelector
      BY <2>1 DEF dumpOne
    <3> DEFINE hash == bulletGroup("ledger_hash", <<bullet("uint256Hex")>>)
               index == bulletGroup("ledger_index", <<bullet("uint32 or shortcut")>>)
    <3>2. dumpSelector = <<hash, index>> /\ hash.text = "ledger_hash" /\ index.text = "ledger_index"
      BY <1>1 DEF dumpSelector
    <3> HIDE DEF hash, index
    <3>3. Lists(<<hash, index>>, {"ledger_hash", "ledger_index"})
      <4>1. hash.text # index.text
        BY <3>2
      <4> QED
        BY <1>5, <3>2, <4>1
    <3> QED
      BY <2>1, <3>1, <3>2, <3>3 DEF Shown
  <2>2. CASE f.conv # Selector /\ f.alternate = f.key
    <3>1. dumpOne(f) = <<dumpFieldSpec(f)>> \/ dumpOne(f) = <<dumpBound(f)>>
      BY <2>2 DEF dumpOne, dumpAliased
    <3>2. Shown(f) = {f.key}
      BY <2>2 DEF Shown, NamesOf
    <3> QED
      BY <1>2, <1>4, <3>1, <3>2
  <2>3. CASE f.conv # Selector /\ f.alternate # f.key
    <3>1. dumpOne(f) = <<dumpBound(f), dumpBound([f EXCEPT !.key = f.alternate])>>
      BY <2>3 DEF dumpOne, dumpAliased
    <3>2. /\ dumpBound(f).text = f.key
          /\ dumpBound([f EXCEPT !.key = f.alternate]).text = f.alternate
      BY <1>2, <1>3
    <3>3. Shown(f) = {f.key, f.alternate}
      BY <2>3 DEF Shown, NamesOf
    <3> QED
      BY <1>5, <2>3, <3>1, <3>2, <3>3
  <2> QED
    BY <2>1, <2>2, <2>3
<1> QED
  BY <1>6 DEF Lists

\* A dump lists the keys of the fields the plan runs, and each of them once.
LEMMA DumpLists ==
  ASSUME NEW handler \in DOMAIN Specs, NEW n \in DOMAIN Specs[handler]
  PROVE  LET fields == Specs[handler][n]
         IN /\ ListedOnce(dump(fields))
            /\ \A f \in FieldsOf(EffectiveFields(fields)) : Shown(f) \subseteq ListedKeys(dump(fields))
            /\ \A f \in Definitions(fields) : f.key \in ListedKeys(dump(fields))
<1> DEFINE fields  == Specs[handler][n]
           plan    == EffectiveFields(fields)
           written == dump(fields)
<1>1. /\ fields \in Seq(Definitions(fields))
      /\ \A f \in Definitions(fields) :
           /\ DOMAIN f = {"key", "member", "items", "conv", "alternate"}
           /\ f.alternate # f.key => f.conv \notin {Unbound, Selector}
           /\ \A g \in Definitions(fields) :
                /\ f.key # g.key => NamesOf(f) \intersect NamesOf(g) = {}
                /\ f.conv = Selector => f.key = "ledger_index" /\ "ledger_hash" \notin NamesOf(g)
  BY SpecsAreVersioned, NamesApart, OwnNames DEF InEverySpec
<1> HIDE DEF fields
<1>2. /\ DOMAIN plan = DOMAIN fields
      /\ FieldsOf(plan) \subseteq Definitions(fields)
      /\ \A i \in DOMAIN plan : plan[i].field.key = fields[i].key
      /\ \A i, j \in DOMAIN plan :
           plan[i].shouldRun /\ plan[j].shouldRun /\ plan[i].field.key = plan[j].field.key => i = j
      /\ \A i \in DOMAIN plan : \E j \in DOMAIN plan :
           plan[j].shouldRun /\ plan[j].field = plan[i].field
  BY <1>1, PlanRuns
<1>3. /\ DOMAIN written = DOMAIN plan
      /\ \A i \in DOMAIN plan :
           /\ plan[i].shouldRun => written[i] = dumpOne(plan[i].field)
           /\ ~plan[i].shouldRun => written[i] = <<>>
  BY DEF dump
<1> HIDE DEF plan, written
<1>4. \A i \in DOMAIN plan : plan[i].field \in Definitions(fields)
  BY <1>2 DEF FieldsOf
<1>5. ASSUME NEW place \in Margin(written)
      PROVE  /\ place[1] \in DOMAIN plan /\ plan[place[1]].shouldRun
             /\ place[2] \in DOMAIN dumpOne(plan[place[1]].field)
             /\ KeyAt(written, place) = dumpOne(plan[place[1]].field)[place[2]].text
             /\ place = <<place[1], place[2]>>
  BY <1>3, <1>5 DEF Margin, KeyAt
<1>6. ASSUME NEW i \in DOMAIN plan, plan[i].shouldRun, NEW m \in DOMAIN dumpOne(plan[i].field)
      PROVE  dumpOne(plan[i].field)[m].text \in ListedKeys(written)
  <2>1. DOMAIN dumpOne(plan[i].field) \subseteq {1, 2}
    BY <1>1, <1>4, FieldDump
  <2>2. <<i, m>> \in Margin(written)
    BY <1>3, <1>6, <2>1 DEF Margin
  <2> QED
    BY <1>3, <1>6, <2>2 DEF ListedKeys, KeyAt
<1>7. ASSUME NEW i \in DOMAIN plan, plan[i].shouldRun PROVE Shown(plan[i].field) \subseteq ListedKeys(written)
  <2>1. {dumpOne(plan[i].field)[m].text : m \in DOMAIN dumpOne(plan[i].field)} = Shown(plan[i].field)
    BY <1>1, <1>4, FieldDump
  <2> QED
    BY <1>6, <1>7, <2>1
<1>8. \A f \in FieldsOf(plan) : Shown(f) \subseteq ListedKeys(written)
  BY <1>2, <1>7 DEF FieldsOf
<1>9. ASSUME NEW f \in Definitions(fields) PROVE f.key \in ListedKeys(written)
  <2>1. PICK i \in DOMAIN plan : plan[i].field.key = f.key
    BY <1>2 DEF Definitions
  <2>2. plan[i].field \in FieldsOf(plan) /\ plan[i].field \in Definitions(fields)
    BY <1>4 DEF FieldsOf
  <2>3. f.key \in Shown(plan[i].field)
    BY <1>1, <2>1, <2>2 DEF Shown, NamesOf
  <2> QED
    BY <1>8, <2>2, <2>3
<1>10. ASSUME NEW place \in Margin(written), NEW other \in Margin(written),
              KeyAt(written, place) = KeyAt(written, other)
       PROVE  place = other
  <2> DEFINE f == plan[place[1]].field
             g == plan[other[1]].field
  <2>1. f \in Definitions(fields) /\ g \in Definitions(fields)
    BY <1>4, <1>5
  <2>2. KeyAt(written, place) \in Shown(f) /\ KeyAt(written, place) \in Shown(g)
    <3>1. /\ {dumpOne(f)[m].text : m \in DOMAIN dumpOne(f)} = Shown(f)
          /\ {dumpOne(g)[m].text : m \in DOMAIN dumpOne(g)} = Shown(g)
      BY <1>1, <2>1, FieldDump
    <3> QED
      BY <1>5, <1>10, <3>1
  <2>3. f.key = g.key
    BY <1>1, <2>1, <2>2 DEF Shown, NamesOf
  <2>4. place[1] = other[1]
    BY <1>2, <1>5, <2>3
  <2>5. place[2] = other[2]
    <3>1. \A m, l \in DOMAIN dumpOne(f) : dumpOne(f)[m].text = dumpOne(f)[l].text => m = l
      BY <1>1, <2>1, FieldDump
    <3> QED
      BY <1>5, <1>10, <2>4, <3>1
  <2> QED
    BY <1>5, <2>4, <2>5
<1>11. ListedOnce(written)
  BY <1>10 DEF ListedOnce
<1> QED
  BY <1>8, <1>9, <1>11 DEF written, plan, fields

\* A request left with some of its keys holds the same under those.
LEMMA ChildOfRestriction ==
  ASSUME NEW v, Is("object", v), NEW keys
  PROVE  \A k \in keys :
           Child(Object([l \in DOMAIN v.object \intersect keys |-> v.object[l]]), k) = Child(v, k)
<1> DEFINE f == [l \in DOMAIN v.object \intersect keys |-> v.object[l]]
<1>1. Is("object", Object(f)) /\ Object(f).object = f
  BY Written DEF Is
<1>2. DOMAIN f = DOMAIN v.object \intersect keys /\ \A k \in DOMAIN f : f[k] = v.object[k]
  OBVIOUS
<1> HIDE DEF f
<1>3. \A k \in keys : Child(Object(f), k) = Child(v, k)
  BY <1>1, <1>2 DEF Child
<1> QED
  BY <1>3 DEF f

\* The schema dump lists a key once, and every key on which an answer or a warning depends:
\* what TLC checks on the table of the handlers (SchemaListsWhatIsRead) holds of every table
\* that keeps to SpecsAreVersioned, NamesApart and OwnNames, and of every request.
THEOREM SchemaIsComplete == Spec => []SchemaListsWhatIsRead
<1>1. ASSUME Answered PROVE SchemaListsWhatIsRead
  <2> DEFINE dumped == SelectedSpec(Dumps[call.handler], call.version)
             plan   == PlanOf(call.handler, call.version)
             keys   == ListedKeys(dumped) \union ReadUnlisted
             listed == Object([k \in DOMAIN call.request.object \intersect keys |-> call.request.object[k]])
  <2>1. /\ server \in Servers
        /\ call.handler \in DOMAIN Specs /\ call.version \in Nat
        /\ Is("object", call.request)
    BY <1>1, CallTypes
  <2>2. PICK n \in DOMAIN Specs[call.handler] :
          plan = EffectiveFields(Specs[call.handler][n]) /\ dumped = dump(Specs[call.handler][n])
    BY <2>1, PlanOfSpec
  <2> DEFINE fields == Specs[call.handler][n]
  <2>3. /\ ListedOnce(dumped)
        /\ \A f \in FieldsOf(plan) : Shown(f) \subseteq ListedKeys(dumped)
        /\ \A f \in Definitions(fields) : f.key \in ListedKeys(dumped)
    BY <2>1, <2>2, DumpLists
  <2>4. /\ fields \in Seq(Definitions(fields))
        /\ \A f \in Definitions(fields) :
             /\ GuardsOf(f) \subseteq {g.key : g \in Definitions(fields)}
             /\ f.conv = Selector => f.key = "ledger_index" /\ f.alternate = f.key
    BY <2>1, SpecsAreVersioned, NamesApart, OwnNames DEF InEverySpec
  <2>5. Len(plan) \in Nat /\ DOMAIN plan = 1..Len(plan) /\ FieldsOf(plan) \subseteq Definitions(fields)
    BY <2>2, <2>4, PlanRuns
  <2> HIDE DEF dumped, plan, fields
  <2>6. ASSUME NEW f \in FieldsOf(plan) PROVE Reads(server, f) \subseteq keys
    <3>1. f \in Definitions(fields) /\ Shown(f) \subseteq ListedKeys(dumped)
      BY <2>3, <2>5
    <3>2. NamesOf(f) \subseteq ListedKeys(dumped)
      BY <2>4, <3>1 DEF Shown, NamesOf
    <3>3. GuardKeys(server, f) \subseteq ListedKeys(dumped)
      <4>1. GuardKeys(server, f) \subseteq GuardsOf(f)
        BY <2>1 DEF GuardKeys, GuardsOf
      <4> QED
        BY <2>3, <2>4, <3>1, <4>1
    <3>4. f.conv = Selector => SelectorKeys(server) \subseteq keys
      BY <3>1 DEF Shown, SelectorKeys, LedgerKeys, ReadUnlisted
    <3> QED
      BY <3>2, <3>3, <3>4 DEF Reads
  <2>7. \A k \in keys : Child(call.request, k) = Child(listed, k)
    <3> HIDE DEF keys
    <3> QED
      BY <2>1, ChildOfRestriction
  <2> HIDE DEF keys, listed
  <2>8. /\ Alike(Parse(server, plan, call.request), Parse(server, plan, listed))
        /\ Warnings(server, plan, call.request) = Warnings(server, plan, listed)
    <3>1. \A k \in ReadBy(server, plan) : Child(call.request, k) = Child(listed, k)
      BY <2>6, <2>7 DEF ReadBy
    <3> QED
      BY <2>5, <3>1, SameReadsSameParse
  <2>9. answer # Pending => SameAnswer(ParseOf(server, call.version, listed))
    BY <1>1, <2>8, SameAnswers DEF ParseInput, ParseOf, plan
  <2>10. answer # Pending =>
           /\ ListedOnce(dumped)
           /\ SameAnswer(ParseOf(server, call.version, listed))
           /\ Warnings(server, plan, listed) = Warnings(server, plan, call.request)
    BY <2>3, <2>8, <2>9
  <2> QED
    BY <2>10 DEF SchemaListsWhatIsRead, dumped, plan, keys, listed
<1> QED
  BY <1>1, AnsweredAlways, PTL

-----------------------------------------------------------------------------
\* A field leaves alone what is not under its own names.
LEMMA FieldKeepsOthers ==
  ASSUME NEW on, NEW f, NEW one, IsParse(one)
  PROVE  /\ IsParse(ParseInto(on, f, one))
         /\ \A k : k \notin NamesOf(f) => Child(ParseInto(on, f, one).root, k) = Child(one.root, k)
<1> DEFINE after == ParseInto(on, f, one)
<1>1. Alike(one, one)
  BY DEF Alike
<1>2. Alike(after, after) /\ RewrittenAlike(f, one, one, after, after)
  BY <1>1, FieldFrame
<1> HIDE DEF after
<1>3. ASSUME NEW v, after.root = Rewritten(f, one.root, v), NEW k, k \notin NamesOf(f)
      PROVE  Child(after.root, k) = Child(one.root, k)
  <2>1. k # SelectedKey(f, one.root)
    BY <1>3 DEF SelectedKey, NamesOf
  <2> QED
    BY <1>3, <2>1, ChildAfterWrite DEF Rewritten
<1>4. IsParse(after) /\ \A k : k \notin NamesOf(f) => Child(after.root, k) = Child(one.root, k)
  BY <1>2, <1>3 DEF Alike, RewrittenAlike
<1> QED
  BY <1>4 DEF after

\* A field that shares no name with another that runs.
NamesItsOwn(plan, p) ==
  \A i \in DOMAIN plan :
    plan[i].shouldRun /\ i # p => NamesOf(plan[i].field) \intersect NamesOf(plan[p].field) = {}

\* In the plan of a spec no two fields that run share a name.
LEMMA OwnNamesInPlan ==
  ASSUME NEW plan, NEW definitions, FieldsOf(plan) \subseteq definitions,
         \A f, g \in definitions : f.key # g.key => NamesOf(f) \intersect NamesOf(g) = {},
         \A i, j \in DOMAIN plan :
           plan[i].shouldRun /\ plan[j].shouldRun /\ plan[i].field.key = plan[j].field.key => i = j
  PROVE  \A p \in DOMAIN plan : plan[p].shouldRun => NamesItsOwn(plan, p)
<1>1. SUFFICES ASSUME NEW p \in DOMAIN plan, plan[p].shouldRun,
                      NEW i \in DOMAIN plan, plan[i].shouldRun, i # p
               PROVE  NamesOf(plan[i].field) \intersect NamesOf(plan[p].field) = {}
  BY DEF NamesItsOwn
<1>2. plan[i].field.key # plan[p].field.key
  BY <1>1
<1>3. plan[i].field \in definitions /\ plan[p].field \in definitions
  BY <1>1 DEF FieldsOf
<1> QED
  BY <1>2, <1>3

\* So a field finds the request as it was sent under its names when its turn comes, if no
\* field that runs before it has one of them.
LEMMA UntilItsTurn ==
  ASSUME NEW on, NEW plan, Len(plan) \in Nat, DOMAIN plan = 1..Len(plan), NEW p \in DOMAIN plan,
         NamesItsOwn(plan, p),
         NEW request, NEW parses, ParsesOf(on, plan, request, parses)
  PROVE  \A n \in 0..Len(plan) : n < p =>
           /\ IsParse(parses[n])
           /\ \A k \in NamesOf(plan[p].field) : Child(parses[n].root, k) = Child(request, k)
<1> DEFINE names == NamesOf(plan[p].field)
           kept  == {n \in 0..(p - 1) :
                       IsParse(parses[n]) /\ \A k \in names : Child(parses[n].root, k) = Child(request, k)}
<1>1. p - 1 \in Nat /\ p \in 1..Len(plan)
  OBVIOUS
<1>2. 0 \in kept
  <2>1. parses[0] = Parsed(Fine, request, Blank(plan))
    BY ParseStages DEF Started, Parsed
  <2>2. IsParse(parses[0]) /\ parses[0].root = request
    BY <2>1, Parts
  <2> QED
    BY <1>1, <2>2
<1>3. ASSUME NEW n \in 1..(p - 1), n - 1 \in kept PROVE n \in kept
  <2>1. n \in 1..Len(plan) /\ n # p /\ n \in 0..(p - 1)
    BY <1>1
  <2>2. Follows(on, plan[n], parses[n - 1], parses[n])
    BY <2>1, ParseStages
  <2>3. IsParse(parses[n - 1]) /\ \A k \in names : Child(parses[n - 1].root, k) = Child(request, k)
    BY <1>3
  <2>4. CASE parses[n] = parses[n - 1]
    BY <2>1, <2>3, <2>4
  <2>5. CASE plan[n].shouldRun /\ parses[n] = ParseInto(on, plan[n].field, parses[n - 1])
    <3>1. \A k \in names : k \notin NamesOf(plan[n].field)
      BY <2>1, <2>5 DEF NamesItsOwn
    <3>2. /\ IsParse(parses[n])
          /\ \A k \in names : Child(parses[n].root, k) = Child(parses[n - 1].root, k)
      BY <2>3, <2>5, <3>1, FieldKeepsOthers
    <3> QED
      BY <2>1, <2>3, <3>2
  <2> QED
    BY <2>2, <2>4, <2>5 DEF Follows, Visited
<1>4. 0..(p - 1) \subseteq kept
  <2> HIDE DEF kept
  <2> QED
    BY <1>1, <1>2, <1>3, AllStages
<1>5. \A n \in 0..Len(plan) : n < p => n \in 0..(p - 1)
  BY <1>1
<1> QED
  BY <1>4, <1>5

\* A request that carries both names of a field is refused.
LEMMA BothNamesRefused ==
  ASSUME NEW on, NEW plan, Len(plan) \in Nat, DOMAIN plan = 1..Len(plan), NEW p \in DOMAIN plan,
         plan[p].shouldRun,
         NamesItsOwn(plan, p),
         NEW request, plan[p].field.alternate # plan[p].field.key,
         Present(Child(request, plan[p].field.alternate)), Present(Child(request, plan[p].field.key))
  PROVE  Parse(on, plan, request).error # Fine
<1> DEFINE f == plan[p].field
<1>1. PICK parses : ParsesOf(on, plan, request, parses) /\ Parse(on, plan, request) = parses[Len(plan)]
  BY ParseUnrolls
<1>2. p - 1 \in 0..(p - 1) /\ p \in 1..Len(plan) /\ p - 1 \in 0..Len(plan) /\ p \in 0..Len(plan)
  OBVIOUS
<1>3. IsParse(parses[p - 1]) /\ \A k \in NamesOf(f) : Child(parses[p - 1].root, k) = Child(request, k)
  <2>1. \A n \in 0..Len(plan) : n < p =>
          IsParse(parses[n]) /\ \A k \in NamesOf(f) : Child(parses[n].root, k) = Child(request, k)
    BY <1>1, UntilItsTurn
  <2> QED
    BY <1>2, <2>1
<1>4. Follows(on, plan[p], parses[p - 1], parses[p])
  BY <1>1, <1>2, ParseStages
<1>5. TooManyFields(f, parses[p - 1].root)
  BY <1>3 DEF TooManyFields, NamesOf
<1>6. parses[p].error # Fine
  <2>1. CASE parses[p - 1].error # Fine
    BY <1>4, <2>1 DEF Follows
  <2>2. CASE parses[p - 1].error = Fine
    <3>1. parses[p] = Refusal(parses[p - 1], "invalidParams")
      BY <1>4, <1>5, <2>2 DEF Follows, Visited, ParseInto
    <3>2. parses[p] = Parsed("invalidParams", parses[p - 1].root, parses[p - 1].input)
      BY <1>3, <3>1, Edited DEF Refusal
    <3> QED
      BY <3>2, Parts DEF Fine
  <2> QED
    BY <2>1, <2>2
<1> QED
  BY <1>1, <1>2, <1>6, ParseStages

\* The renaming of a key to another, and back.
Swap(keys, a, b) == [k \in keys |-> IF k = a THEN b ELSE IF k = b THEN a ELSE k]

\* A swap pairs every key with one, and never two with the same.
LEMMA SwapPairs ==
  ASSUME NEW keys, NEW a \in keys, NEW b \in keys
  PROVE  /\ \A k, l \in keys : Swap(keys, a, b)[k] = Swap(keys, a, b)[l] => k = l
         /\ Swap(keys, a, b)[a] = b /\ Swap(keys, a, b)[b] = a
         /\ \A k \in keys : k \notin {a, b} => Swap(keys, a, b)[k] = k
  BY DEF Swap

\* A field with two names makes the same of a request that uses one and of one that uses
\* the other.
LEMMA AliasedVisit ==
  ASSUME NEW on, NEW f, NEW keys, NEW one, NEW two,
         Mirrored(keys, Swap(keys, f.key, f.alternate), one, two),
         Reads(on, f) \subseteq keys, f.conv # Selector,
         GuardKeys(on, f) \intersect NamesOf(f) = {},
         Present(Child(one.root, f.alternate)), ~Present(Child(one.root, f.key))
  PROVE  Mirrored(keys, Swap(keys, f.key, f.alternate), ParseInto(on, f, one), ParseInto(on, f, two))
<1> DEFINE swap == Swap(keys, f.key, f.alternate)
<1>1. f.key \in keys /\ f.alternate \in keys /\ NamesOf(f) = {f.key, f.alternate}
  BY DEF Reads, NamesOf
<1>2. /\ \A k, l \in keys : swap[k] = swap[l] => k = l
      /\ swap[f.key] = f.alternate /\ swap[f.alternate] = f.key
      /\ \A k \in keys : k \notin NamesOf(f) => swap[k] = k
  BY <1>1, SwapPairs
<1> HIDE DEF swap
<1>3. Mirrored(keys, swap, one, two)
  BY DEF swap
<1>4. \A k \in keys : Child(one.root, k) = Child(two.root, swap[k])
  BY <1>3 DEF Mirrored
<1>5. Present(Child(two.root, f.key)) /\ ~Present(Child(two.root, f.alternate))
  BY <1>1, <1>2, <1>4
<1>6. ~TooManyFields(f, one.root) /\ ~TooManyFields(f, two.root)
  BY <1>5 DEF TooManyFields
<1>7. Skipped(on, f, one.root) <=> Skipped(on, f, two.root)
  <2>1. \A guard \in Named(on, f.items, "ifAbsent") :
          guard.key \in keys /\ guard.key \notin NamesOf(f)
    BY DEF Reads, GuardKeys
  <2>2. \A guard \in Named(on, f.items, "ifAbsent") :
          Child(one.root, guard.key) = Child(two.root, guard.key)
    BY <1>2, <1>4, <2>1
  <2> QED
    BY <2>2 DEF Skipped, SkipsField
<1>8. SelectedKey(f, one.root) = f.alternate /\ SelectedKey(f, two.root) = f.key
  BY <1>5 DEF SelectedKey
<1>9. Mirrored(keys, swap, ParseInto(on, f, one), ParseInto(on, f, two))
  <2>1. TooManyFields(f, one.root) <=> TooManyFields(f, two.root)
    BY <1>6
  <2>2. f.conv = Selector => LedgerFromRequest(on, one.root) = LedgerFromRequest(on, two.root)
    OBVIOUS
  <2>3. /\ SelectedKey(f, one.root) \in keys
        /\ SelectedKey(f, two.root) = swap[SelectedKey(f, one.root)]
    BY <1>1, <1>2, <1>8
  <2> QED
    BY <1>2, <1>3, <1>7, <2>1, <2>2, <2>3, MirroredStep
<1> QED
  BY <1>9 DEF swap

\* A request that uses the alternate name of a field is parsed as one that uses its own.
LEMMA AliasParsesAlike ==
  ASSUME NEW on, NEW plan, Len(plan) \in Nat, DOMAIN plan = 1..Len(plan), NEW p \in DOMAIN plan,
         NamesItsOwn(plan, p), plan[p].shouldRun, plan[p].field.conv # Selector,
         \A f \in FieldsOf(plan) : GuardKeys(on, f) \intersect NamesOf(plan[p].field) = {},
         LedgerKeys \intersect NamesOf(plan[p].field) = {},
         NEW one, NEW two,
         Present(Child(one, plan[p].field.alternate)), ~Present(Child(one, plan[p].field.key)),
         \A k \in ReadBy(on, plan) :
           Child(one, k) = Child(two, Swap(ReadBy(on, plan), plan[p].field.key, plan[p].field.alternate)[k])
  PROVE  Alike(Parse(on, plan, one), Parse(on, plan, two))
<1> DEFINE f    == plan[p].field
           keys == ReadBy(on, plan)
           swap == Swap(keys, f.key, f.alternate)
           N    == Len(plan)
<1>1. PICK ones : ParsesOf(on, plan, one, ones) /\ Parse(on, plan, one) = ones[N]
  BY ParseUnrolls
<1>2. PICK twos : ParsesOf(on, plan, two, twos) /\ Parse(on, plan, two) = twos[N]
  BY ParseUnrolls
<1>3. \A g \in FieldsOf(plan) : Reads(on, g) \subseteq keys
  BY DEF ReadBy
<1>4. f \in FieldsOf(plan) /\ f.key \in keys /\ f.alternate \in keys /\ NamesOf(f) = {f.key, f.alternate}
  <2>1. f \in FieldsOf(plan)
    BY DEF FieldsOf
  <2> QED
    BY <1>3, <2>1 DEF Reads, NamesOf
<1>5. /\ \A k, l \in keys : swap[k] = swap[l] => k = l
      /\ \A k \in keys : k \notin NamesOf(f) => swap[k] = k
  BY <1>4, SwapPairs
<1>6. \A k \in keys : Child(one, k) = Child(two, swap[k])
  OBVIOUS
<1> DEFINE alike == {n \in 0..N : Mirrored(keys, swap, ones[n], twos[n])}
<1> HIDE DEF keys
<1>7. 0 \in alike
  <2>0. ones[0] = Started(plan, one) /\ twos[0] = Started(plan, two)
    BY <1>1, <1>2, ParseStages
  <2>1. /\ ones[0] = Parsed(Fine, one, Blank(plan)) /\ twos[0] = Parsed(Fine, two, Blank(plan))
    BY <2>0 DEF Started, Parsed
  <2>2. /\ Alike(ones[0], twos[0]) /\ ones[0].root = one /\ twos[0].root = two
    BY <2>1, Parts DEF Alike
  <2> HIDE DEF swap
  <2>3. Mirrored(keys, swap, ones[0], twos[0])
    BY <1>6, <2>2 DEF Mirrored
  <2> QED
    BY <2>3
<1>8. ASSUME NEW n \in 1..N, n - 1 \in alike PROVE n \in alike
  <2>0. /\ Follows(on, plan[n], ones[n - 1], ones[n])
        /\ Follows(on, plan[n], twos[n - 1], twos[n])
    BY <1>1, <1>2, ParseStages
  <2>1. Mirrored(keys, swap, ones[n - 1], twos[n - 1])
    BY <1>8
  <2>2. ones[n - 1].error = twos[n - 1].error
    BY <2>1 DEF Mirrored, Alike
  <2>3. n \in DOMAIN plan /\ plan[n].field \in FieldsOf(plan) /\ Reads(on, plan[n].field) \subseteq keys
    BY <1>3 DEF FieldsOf
  <2>4. CASE ones[n] = ones[n - 1] /\ twos[n] = twos[n - 1]
    BY <2>1, <2>4
  <2>5. CASE /\ plan[n].shouldRun
             /\ ones[n] = ParseInto(on, plan[n].field, ones[n - 1])
             /\ twos[n] = ParseInto(on, plan[n].field, twos[n - 1])
    <3>1. CASE n # p
      <4>1. Reads(on, plan[n].field) \intersect NamesOf(f) = {}
        <5>1. NamesOf(plan[n].field) \intersect NamesOf(f) = {}
          BY <2>3, <2>5, <3>1 DEF NamesItsOwn
        <5>2. GuardKeys(on, plan[n].field) \intersect NamesOf(f) = {}
          BY <2>3
        <5>3. SelectorKeys(on) \intersect NamesOf(f) = {}
          BY DEF SelectorKeys, LedgerKeys
        <5> QED
          BY <5>1, <5>2, <5>3 DEF Reads
      <4>2. \A k \in Reads(on, plan[n].field) : swap[k] = k
        BY <1>5, <2>3, <4>1
      <4> HIDE DEF swap
      <4>3. Mirrored(keys, swap, ParseInto(on, plan[n].field, ones[n - 1]),
                     ParseInto(on, plan[n].field, twos[n - 1]))
        BY <1>5, <2>1, <2>3, <4>2, MirroredVisit
      <4> QED
        BY <2>5, <4>3
    <3>2. CASE n = p
      <4>1. \A m \in 0..N : m < p =>
              IsParse(ones[m]) /\ \A k \in NamesOf(f) : Child(ones[m].root, k) = Child(one, k)
        BY <1>1, UntilItsTurn
      <4>2. \A k \in NamesOf(f) : Child(ones[n - 1].root, k) = Child(one, k)
        <5>1. n - 1 \in 0..N /\ n - 1 < p
          BY <3>2
        <5> QED
          BY <4>1, <5>1
      <4>3. Present(Child(ones[n - 1].root, f.alternate)) /\ ~Present(Child(ones[n - 1].root, f.key))
        BY <1>4, <4>2
      <4>4. GuardKeys(on, f) \intersect NamesOf(f) = {} /\ Reads(on, f) \subseteq keys
        BY <1>3, <1>4
      <4>5. Mirrored(keys, swap, ParseInto(on, f, ones[n - 1]), ParseInto(on, f, twos[n - 1]))
        BY <2>1, <4>3, <4>4, AliasedVisit
      <4> QED
        BY <2>5, <3>2, <4>5
    <3> QED
      BY <3>1, <3>2
  <2> QED
    BY <2>0, <2>2, <2>4, <2>5 DEF Follows, Visited
<1>9. 0..N \subseteq alike
  <2> HIDE DEF alike
  <2> QED
    BY <1>7, <1>8, AllStages
<1>10. N \in 0..N
  OBVIOUS
<1>11. Mirrored(keys, swap, ones[N], twos[N])
  BY <1>9, <1>10
<1> QED
  BY <1>1, <1>2, <1>11 DEF Mirrored

\* What a request holds with a key under another name.
LEMMA ChildOfRenaming ==
  ASSUME Answered, NEW old, NEW new, old # new, Present(Given(old)), ~Present(Given(new)), NEW keys
  PROVE  \A k \in keys : Child(call.request, k) = Child(Renaming(old, new), Swap(keys, new, old)[k])
<1> DEFINE given == call.request.object
           f == [k \in (DOMAIN given \ {old}) \union {new} |-> IF k = new THEN given[old] ELSE given[k]]
<1>1. Is("object", call.request) /\ \A k \in DOMAIN given : Present(given[k])
  <2>1. Is("object", call.request) /\ JsonValue(call.request)
    BY CallsAreRequests DEF Answered
  <2>2. Kind(call.request) = "object"
    BY <2>1 DEF Is
  <2>3. \A k \in DOMAIN given : JsonPart(given[k])
    BY <2>1, <2>2 DEF JsonValue, IsJson
  <2> QED
    BY <2>1, <2>3 DEF JsonPart, IsJson
<1>2. ~Present(Absent)
  BY DEF Present, Kind, Absent
<1>3. /\ \A k \in DOMAIN given : Child(call.request, k) = given[k]
      /\ \A k : k \notin DOMAIN given => Child(call.request, k) = Absent
  BY <1>1 DEF Child
<1>4. old \in DOMAIN given /\ new \notin DOMAIN given
  BY <1>1, <1>2, <1>3 DEF Given
<1>5. Renaming(old, new) = Object(f)
  BY DEF Renaming
<1>6. /\ DOMAIN f = (DOMAIN given \ {old}) \union {new}
      /\ f[new] = given[old] /\ \A k \in DOMAIN given \ {old} : f[k] = given[k]
  BY <1>4
<1> HIDE DEF f, given
<1>7. Is("object", Object(f)) /\ Object(f).object = f
  BY Written DEF Is
<1>8. /\ \A k \in DOMAIN f : Child(Object(f), k) = f[k]
      /\ \A k : k \notin DOMAIN f => Child(Object(f), k) = Absent
  BY <1>7 DEF Child
<1>9. ASSUME NEW k \in keys
      PROVE  Child(call.request, k) = Child(Object(f), Swap(keys, new, old)[k])
  <2>1. Swap(keys, new, old)[k] = IF k = new THEN old ELSE IF k = old THEN new ELSE k
    BY DEF Swap
  <2>2. CASE k = new
    BY <1>3, <1>4, <1>6, <1>8, <2>1, <2>2
  <2>3. CASE k = old
    <3>1. Swap(keys, new, old)[k] = new /\ new \in DOMAIN f
      BY <1>6, <2>1, <2>3
    <3> QED
      BY <1>3, <1>4, <1>6, <1>8, <2>3, <3>1
  <2>4. CASE k \notin {old, new}
    <3>1. Swap(keys, new, old)[k] = k
      BY <2>1, <2>4
    <3>2. k \in DOMAIN f <=> k \in DOMAIN given
      BY <1>6, <2>4
    <3> QED
      BY <1>3, <1>6, <1>8, <2>4, <3>1, <3>2
  <2> QED
    BY <2>2, <2>3, <2>4
<1> QED
  BY <1>5, <1>9

\* A request answers the same under either name of a field, and one that carries both is
\* refused (AliasIsRenaming), on every table that keeps to NamesApart and OwnNames.
THEOREM AliasesRename == Spec => []AliasIsRenaming
<1>1. ASSUME Answered PROVE AliasIsRenaming
  <2> DEFINE plan == PlanOf(call.handler, call.version)
  <2>1. SUFFICES ASSUME answer # Pending,
                        NEW f \in FieldsOf(plan), f.alternate # f.key, Present(Given(f.alternate))
                 PROVE  IF Present(Given(f.key)) THEN ~Accepted
                        ELSE SameAnswer(ParseOf(server, call.version, Renaming(f.alternate, f.key)))
    BY DEF AliasIsRenaming
  <2>2. /\ server \in Servers
        /\ call.handler \in DOMAIN Specs /\ call.version \in Nat
    BY <1>1, CallTypes
  <2>3. PICK n \in DOMAIN Specs[call.handler] : plan = EffectiveFields(Specs[call.handler][n])
    BY <2>2, PlanOfSpec
  <2> DEFINE fields == Specs[call.handler][n]
  <2>4. /\ fields \in Seq(Definitions(fields))
        /\ \A g, h \in Definitions(fields) : g.key # h.key => NamesOf(g) \intersect NamesOf(h) = {}
        /\ \A g \in Definitions(fields) : g.alternate # g.key =>
             /\ g.conv # Selector
             /\ NamesOf(g) \intersect LedgerKeys = {}
             /\ \A h \in Definitions(fields) : GuardsOf(h) \intersect NamesOf(g) = {}
    BY <2>2, SpecsAreVersioned, NamesApart, OwnNames DEF InEverySpec
  <2>5. /\ Len(plan) \in Nat /\ DOMAIN plan = 1..Len(plan)
        /\ FieldsOf(plan) \subseteq Definitions(fields)
        /\ \A i, j \in DOMAIN plan :
             plan[i].shouldRun /\ plan[j].shouldRun /\ plan[i].field.key = plan[j].field.key => i = j
        /\ \A i \in DOMAIN plan : \E j \in DOMAIN plan :
             plan[j].shouldRun /\ plan[j].field = plan[i].field
    <3>1. plan = EffectiveFields(fields) /\ fields \in Seq(Definitions(fields))
      BY <2>3, <2>4
    <3> HIDE DEF plan, fields
    <3>2. /\ Len(plan) \in Nat /\ DOMAIN plan = 1..Len(plan)
          /\ FieldsOf(plan) \subseteq Definitions(fields)
      BY <3>1, PlanRuns, SMTT(30)
    <3>3. \A i, j \in DOMAIN plan :
            plan[i].shouldRun /\ plan[j].shouldRun /\ plan[i].field.key = plan[j].field.key => i = j
      BY <3>1, PlanRuns, SMTT(30)
    <3>4. \A i \in DOMAIN plan : \E j \in DOMAIN plan :
            plan[j].shouldRun /\ plan[j].field = plan[i].field
      BY <3>1, PlanRuns, SMTT(30)
    <3> QED
      BY <3>2, <3>3, <3>4
  <2> HIDE DEF plan, fields
  <2>6. PICK p \in DOMAIN plan : plan[p].shouldRun /\ plan[p].field = f
    BY <2>5 DEF FieldsOf
  <2>7. NamesItsOwn(plan, p)
    <3>1. \A g, h \in Definitions(fields) : g.key # h.key => NamesOf(g) \intersect NamesOf(h) = {}
      BY <2>4
    <3>2. \A i, j \in DOMAIN plan :
            plan[i].shouldRun /\ plan[j].shouldRun /\ plan[i].field.key = plan[j].field.key => i = j
      BY <2>5
    <3>3. FieldsOf(plan) \subseteq Definitions(fields)
      BY <2>5
    <3>4. \A i \in DOMAIN plan : plan[i].shouldRun => NamesItsOwn(plan, i)
      BY <3>1, <3>2, <3>3, OwnNamesInPlan
    <3> QED
      BY <2>6, <3>4
  <2>8. CASE Present(Given(f.key))
    <3>1. Parse(server, plan, call.request).error # Fine
      BY <2>1, <2>5, <2>6, <2>7, <2>8, BothNamesRefused DEF Given
    <3> QED
      BY <1>1, <2>1, <2>8, <3>1, AnswerTells DEF ParseInput, plan
  <2>9. CASE ~Present(Given(f.key))
    <3> DEFINE two == Renaming(f.alternate, f.key)
    <3>1. \A g \in FieldsOf(plan) : GuardKeys(server, g) \intersect NamesOf(f) = {}
      <4>1. \A g : GuardKeys(server, g) \subseteq GuardsOf(g)
        BY <2>2 DEF GuardKeys, GuardsOf
      <4> QED
        BY <2>1, <2>4, <2>5, <4>1
    <3>2. f.conv # Selector /\ LedgerKeys \intersect NamesOf(f) = {}
      BY <2>1, <2>4, <2>5
    <3>3. \A k \in ReadBy(server, plan) :
            Child(call.request, k) = Child(two, Swap(ReadBy(server, plan), f.key, f.alternate)[k])
      BY <1>1, <2>1, <2>9, ChildOfRenaming
    <3> HIDE DEF two
    <3>4. Alike(Parse(server, plan, call.request), Parse(server, plan, two))
      BY <2>1, <2>5, <2>6, <2>7, <2>9, <3>1, <3>2, <3>3, AliasParsesAlike DEF Given
    <3> QED
      BY <1>1, <2>1, <2>9, <3>4, SameAnswers DEF ParseInput, ParseOf, plan, two
  <2> QED
    BY <2>8, <2>9
<1> QED
  BY <1>1, AnsweredAlways, PTL

-----------------------------------------------------------------------------
\* What the items of a field owe its converter on a server.
OwesItsConverter(on, f) ==
  /\ f.conv # Selector => SafeAll(f.items)
  /\ f.conv \notin {Unbound, Selector} => VouchedFor(on, f.items, f.conv)

\* A field of a spec, on a request that still is as it was sent under the names of the field,
\* lets no exception through.
LEMMA FieldSafe ==
  ASSUME NEW on \in Servers, NEW f,
         OwesItsConverter(on, f),
         NEW parse, IsParse(parse), parse.error = Fine,
         \A k \in NamesOf(f) : Child(parse.root, k) = Absent \/ JsonPart(Child(parse.root, k))
  PROVE  ParseInto(on, f, parse).error # "threw"
<1> DEFINE v == Child(parse.root, SelectedKey(f, parse.root))
           processed == Processed(on, f, parse.root)
<1>1. Fine # "threw" /\ "invalidParams" # "threw"
  BY DEF Fine
<1>2. v = Absent \/ JsonPart(v)
  BY DEF SelectedKey, NamesOf
<1>3. \A code : Refusal(parse, code).error = code
  BY Edited, Parts DEF Refusal
<1>4. CASE TooManyFields(f, parse.root)
  <2>1. ParseInto(on, f, parse) = Refusal(parse, "invalidParams")
    BY <1>4 DEF ParseInto
  <2> QED
    BY <1>1, <1>3, <2>1
<1>5. CASE ~TooManyFields(f, parse.root) /\ Skipped(on, f, parse.root)
  <2>1. ParseInto(on, f, parse) = parse
    BY <1>5 DEF ParseInto
  <2> QED
    BY <1>1, <2>1
<1>6. ASSUME NEW p, IsParse(p), p.error = Fine, NEW result, result.error # "threw"
      PROVE  Assigned(f, p, result).error # "threw"
  <2>1. CASE result.error # Fine
    <3>1. Assigned(f, p, result) = Parsed(result.error, p.root, p.input)
      BY <1>6, <2>1, AssignedParse
    <3> QED
      BY <1>6, <3>1, Parts
  <2>2. CASE result.error = Fine
    <3>1. Assigned(f, p, result) = Parsed(p.error, p.root, [p.input EXCEPT ![f.member] = result.value])
      BY <1>6, <2>2, AssignedParse
    <3> QED
      BY <1>1, <1>6, <3>1, Parts
  <2> QED
    BY <2>1, <2>2
<1>7. CASE ~TooManyFields(f, parse.root) /\ ~Skipped(on, f, parse.root) /\ f.conv = Selector
  <2>1. ParseInto(on, f, parse) = Assigned(f, parse, LedgerFromRequest(on, parse.root))
    BY <1>7 DEF ParseInto
  <2>2. LedgerFromRequest(on, parse.root).error # "threw"
    BY <1>1, SelectorNeverThrows
  <2> QED
    BY <1>6, <2>1, <2>2
<1>8. CASE ~TooManyFields(f, parse.root) /\ ~Skipped(on, f, parse.root) /\ f.conv # Selector
  <2>1. ParseInto(on, f, parse) = Settled(on, f, parse, processed)
    BY <1>8 DEF ParseInto
  <2>2. processed = RunProcessors(on, f.items, v)
    BY DEF Processed
  <2>3. processed.error # "threw"
    BY <1>8, <2>2, ItemsSafe DEF OwesItsConverter
  <2> HIDE DEF processed, v
  <2>4. CASE processed.error # Fine
    <3>1. Settled(on, f, parse, processed) = Refusal(parse, processed.error)
      BY <2>4 DEF Settled
    <3> QED
      BY <1>3, <2>1, <2>3, <3>1
  <2>5. CASE processed.error = Fine
    <3> DEFINE w == processed.value
               stored == Parsed(parse.error, Rewritten(f, parse.root, w), parse.input)
    <3>1. Settled(on, f, parse, processed) = Converted(on, f, stored, w)
      BY <2>5, Edited DEF Settled
    <3>2. IsParse(stored) /\ stored.error = Fine
      BY Parts
    <3> HIDE DEF stored, w
    <3>3. CASE f.conv = Unbound
      <4>1. Converted(on, f, stored, w) = Parsed(stored.error, stored.root, stored.input)
        BY <3>2, <3>3, ConvertedParse
      <4> QED
        BY <1>1, <2>1, <3>1, <3>2, <4>1, Parts
    <3>4. CASE f.conv # Unbound /\ Present(w)
      <4>1. Converted(on, f, stored, w) = Assigned(f, stored, Convert(on, f.conv, w))
        BY <3>2, <3>4, ConvertedParse
      <4>2. Convert(on, f.conv, w).error # "threw"
        BY <1>2, <1>8, <2>2, <2>5, <3>4, ConvertSafe DEF w, OwesItsConverter
      <4> QED
        BY <1>6, <2>1, <3>1, <3>2, <4>1, <4>2
    <3>5. CASE f.conv # Unbound /\ ~Present(w)
      <4>1. Converted(on, f, stored, w) = Parsed(stored.error, stored.root, Defaulted(f, stored.input))
        BY <3>2, <3>5, ConvertedParse
      <4> QED
        BY <1>1, <2>1, <3>1, <3>2, <4>1, Parts
    <3> QED
      BY <3>3, <3>4, <3>5
  <2> QED
    BY <2>4, <2>5
<1> QED
  BY <1>4, <1>5, <1>7, <1>8

\* A plan whose fields vouch for their converters, and share no name, lets none through either.
LEMMA ParseSafe ==
  ASSUME NEW on \in Servers, NEW plan, Len(plan) \in Nat, DOMAIN plan = 1..Len(plan),
         \A p \in DOMAIN plan : plan[p].shouldRun => NamesItsOwn(plan, p),
         \A f \in FieldsOf(plan) : OwesItsConverter(on, f),
         NEW request, \A k : Child(request, k) = Absent \/ JsonPart(Child(request, k))
  PROVE  Parse(on, plan, request).error # "threw"
<1> DEFINE N == Len(plan)
<1>1. PICK parses : ParsesOf(on, plan, request, parses) /\ Parse(on, plan, request) = parses[N]
  BY ParseUnrolls
<1>2. ASSUME NEW p \in DOMAIN plan, plan[p].shouldRun
      PROVE  \A n \in 0..Len(plan) : n < p =>
               /\ IsParse(parses[n])
               /\ \A k \in NamesOf(plan[p].field) : Child(parses[n].root, k) = Child(request, k)
  <2>1. NamesItsOwn(plan, p)
    BY <1>2
  <2> HIDE DEF N
  <2> QED
    BY <1>1, <2>1, UntilItsTurn
<1> DEFINE caught == {n \in 0..N : parses[n].error # "threw"}
<1>3. 0 \in caught
  <2>1. parses[0] = Started(plan, request)
    BY <1>1, ParseStages
  <2> QED
    BY <2>1 DEF Started, Fine
<1>4. ASSUME NEW n \in 1..N, n - 1 \in caught PROVE n \in caught
  <2>1. Follows(on, plan[n], parses[n - 1], parses[n]) /\ n \in DOMAIN plan /\ n \in 0..N
    BY <1>1, ParseStages
  <2>2. CASE parses[n] = parses[n - 1]
    BY <1>4, <2>1, <2>2
  <2>3. CASE /\ parses[n - 1].error = Fine /\ plan[n].shouldRun
             /\ parses[n] = ParseInto(on, plan[n].field, parses[n - 1])
    <3> DEFINE f == plan[n].field
    <3>1. f \in FieldsOf(plan)
      BY <2>1 DEF FieldsOf
    <3>2. n - 1 \in 0..N /\ n - 1 < n
      OBVIOUS
    <3>3. /\ IsParse(parses[n - 1])
          /\ \A k \in NamesOf(f) : Child(parses[n - 1].root, k) = Child(request, k)
      BY <1>2, <2>1, <2>3, <3>2
    <3> HIDE DEF f
    <3>4. \A k \in NamesOf(f) :
            Child(parses[n - 1].root, k) = Absent \/ JsonPart(Child(parses[n - 1].root, k))
      BY <3>3
    <3>5. OwesItsConverter(on, f)
      BY <3>1
    <3>6. ParseInto(on, f, parses[n - 1]).error # "threw"
      BY <2>3, <3>3, <3>4, <3>5, FieldSafe
    <3> QED
      BY <2>1, <2>3, <3>6 DEF f
  <2> QED
    BY <2>1, <2>2, <2>3 DEF Follows, Visited
<1>5. 0..N \subseteq caught
  <2> HIDE DEF caught
  <2> QED
    BY <1>3, <1>4, AllStages
<1>6. N \in 0..N
  OBVIOUS
<1> QED
  BY <1>1, <1>5, <1>6

\* The code of an exception is no code of a server.
LEMMA CodeIsNoException ==
  ASSUME NEW on, NEW code, code # "threw"
  PROVE  CodeOn(on, code) # "threw"
  BY DEF CodeOn

\* No request makes an accessor throw (NeverThrows), on every table of specs whose items
\* vouch for their converters: what a converter takes for granted has been checked before it.
THEOREM NothingThrows == Spec => []NeverThrows
<1>1. ASSUME Answered PROVE NeverThrows
  <2> DEFINE plan == PlanOf(call.handler, call.version)
  <2>1. /\ server \in Servers
        /\ call.handler \in DOMAIN Specs /\ call.version \in Nat
    BY <1>1, CallTypes
  <2>2. PICK n \in DOMAIN Specs[call.handler] : plan = EffectiveFields(Specs[call.handler][n])
    BY <2>1, PlanOfSpec
  <2> DEFINE fields == Specs[call.handler][n]
  <2>3. /\ fields \in Seq(Definitions(fields))
        /\ \A g, h \in Definitions(fields) : g.key # h.key => NamesOf(g) \intersect NamesOf(h) = {}
    BY <2>1, SpecsAreVersioned, NamesApart DEF InEverySpec
  <2>4. \A f \in Definitions(fields) : OwesItsConverter(server, f)
    BY <2>1, ConvertersVouchedFor DEF InEverySpec, OwesItsConverter
  <2>5. /\ Len(plan) \in Nat /\ DOMAIN plan = 1..Len(plan)
        /\ FieldsOf(plan) \subseteq Definitions(fields)
        /\ \A i, j \in DOMAIN plan :
             plan[i].shouldRun /\ plan[j].shouldRun /\ plan[i].field.key = plan[j].field.key => i = j
    <3>1. plan = EffectiveFields(fields) /\ fields \in Seq(Definitions(fields))
      BY <2>2, <2>3
    <3> HIDE DEF plan, fields
    <3> QED
      BY <3>1, PlanRuns
  <2> HIDE DEF plan, fields
  <2>6. \A p \in DOMAIN plan : plan[p].shouldRun => NamesItsOwn(plan, p)
    BY <2>3, <2>5, OwnNamesInPlan
  <2>7. \A k : Child(call.request, k) = Absent \/ JsonPart(Child(call.request, k))
    <3>1. Is("object", call.request) /\ JsonValue(call.request)
      BY <1>1, CallsAreRequests DEF Answered
    <3>2. Kind(call.request) = "object"
      BY <3>1 DEF Is
    <3>3. \A k \in DOMAIN call.request.object : JsonPart(call.request.object[k])
      BY <3>1, <3>2 DEF JsonValue, IsJson
    <3> QED
      BY <3>3 DEF Child
  <2>8. Parse(server, plan, call.request).error # "threw"
    BY <2>1, <2>4, <2>5, <2>6, <2>7, ParseSafe
  <2>9. ParseInput.error # "threw"
    BY <2>8 DEF ParseInput, plan
  <2>10. CASE answer = Pending
    BY <2>10 DEF NeverThrows, Pending
  <2>11. CASE answer = ParseInput
    BY <2>9, <2>11 DEF NeverThrows
  <2>12. CASE answer = [error |-> CodeOn(server, ParseInput.error)]
    BY <2>9, <2>12, CodeIsNoException DEF NeverThrows
  <2> QED
    BY <1>1, <2>10, <2>11, <2>12 DEF Answered
<1> QED
  BY <1>1, AnsweredAlways, PTL

-----------------------------------------------------------------------------
\* What the items of a field make of what it reads.
RunOf(on, f, root) == RunProcessors(on, f.items, Child(root, SelectedKey(f, root)))

\* What a field that refuses nothing leaves in the input: what was there if it is skipped or
\* not bound, otherwise what it converted, or its default, under its member.
Puts(f, before, after, v) == after.input = [before.input EXCEPT ![f.member] = v]

Outcome(on, f, before, after) ==
  LET run       == RunOf(on, f, before.root)
      converted == Convert(on, f.conv, run.value)
  IN \/ Skipped(on, f, before.root) /\ after.input = before.input
     \/ f.conv = Selector /\ \E v : Puts(f, before, after, v)
     \/ /\ ~Skipped(on, f, before.root) /\ f.conv # Selector
        /\ run.error = Fine
        /\ \/ f.conv = Unbound /\ after.input = before.input
           \/ f.conv # Unbound /\ ~Present(run.value) /\ after.input = Defaulted(f, before.input)
           \/ /\ f.conv # Unbound /\ Present(run.value)
              /\ converted.error = Fine /\ Puts(f, before, after, converted.value)

\* A field that refuses nothing has one of these outcomes.
LEMMA FieldOutcome ==
  ASSUME NEW on, NEW f, NEW parse, IsParse(parse), parse.error = Fine,
         ParseInto(on, f, parse).error = Fine
  PROVE  Outcome(on, f, parse, ParseInto(on, f, parse))
<1> DEFINE after == ParseInto(on, f, parse)
           run   == RunOf(on, f, parse.root)
<1>1. ~TooManyFields(f, parse.root)
  <2>1. SUFFICES ASSUME TooManyFields(f, parse.root) PROVE FALSE
    OBVIOUS
  <2>2. after = Parsed("invalidParams", parse.root, parse.input)
    BY <2>1, Edited DEF ParseInto, Refusal
  <2> QED
    BY <2>2, Parts DEF Fine
<1>2. ASSUME NEW p, IsParse(p), NEW result, Assigned(f, p, result).error = Fine
      PROVE  result.error = Fine /\ Puts(f, p, Assigned(f, p, result), result.value)
  <2>1. result.error = Fine
    <3>1. result.error # Fine => Assigned(f, p, result) = Parsed(result.error, p.root, p.input)
      BY <1>2, AssignedParse
    <3>2. Parsed(result.error, p.root, p.input).error = result.error
      BY Parts
    <3> QED
      BY <1>2, <3>1, <3>2
  <2>2. Assigned(f, p, result) = Parsed(p.error, p.root, [p.input EXCEPT ![f.member] = result.value])
    BY <1>2, <2>1, AssignedParse
  <2> QED
    BY <2>1, <2>2, Parts DEF Puts
<1>3. CASE Skipped(on, f, parse.root)
  <2>1. after = parse
    BY <1>1, <1>3 DEF ParseInto
  <2> QED
    BY <1>3, <2>1 DEF Outcome
<1>4. CASE ~Skipped(on, f, parse.root) /\ f.conv = Selector
  <2>1. after = Assigned(f, parse, LedgerFromRequest(on, parse.root))
    BY <1>1, <1>4 DEF ParseInto
  <2>2. \E v : Puts(f, parse, after, v)
    BY <1>2, <2>1
  <2> QED
    BY <1>4, <2>2 DEF Outcome
<1>5. CASE ~Skipped(on, f, parse.root) /\ f.conv # Selector
  <2>1. after = Settled(on, f, parse, run)
    BY <1>1, <1>5 DEF ParseInto, Processed, RunOf
  <2>2. run.error = Fine
    <3>1. SUFFICES ASSUME run.error # Fine PROVE FALSE
      OBVIOUS
    <3>2. after = Parsed(run.error, parse.root, parse.input)
      BY <2>1, <3>1, Edited DEF Settled, Refusal
    <3> QED
      BY <3>1, <3>2, Parts
  <2> DEFINE w      == run.value
             stored == Parsed(parse.error, Rewritten(f, parse.root, w), parse.input)
  <2>3. after = Converted(on, f, stored, w)
    BY <2>1, <2>2, Edited DEF Settled
  <2>4. IsParse(stored) /\ stored.input = parse.input
    BY Parts
  <2>5. after.error = Fine
    OBVIOUS
  <2> HIDE DEF after, run, stored
  <2>6. CASE f.conv = Unbound
    <3>1. after.input = parse.input
      BY <2>3, <2>4, <2>6, ConvertedParse, Parts
    <3> QED
      BY <1>5, <2>2, <2>6, <3>1 DEF Outcome, run, after
  <2>7. CASE f.conv # Unbound /\ ~Present(w)
    <3>1. after.input = Defaulted(f, parse.input)
      BY <2>3, <2>4, <2>7, ConvertedParse, Parts
    <3> QED
      BY <1>5, <2>2, <2>7, <3>1 DEF Outcome, run, after
  <2>8. CASE f.conv # Unbound /\ Present(w)
    <3>1. after = Assigned(f, stored, Convert(on, f.conv, w))
      BY <2>3, <2>4, <2>8, ConvertedParse
    <3>2. Convert(on, f.conv, w).error = Fine /\ Puts(f, stored, after, Convert(on, f.conv, w).value)
      BY <1>2, <2>4, <2>5, <3>1
    <3>3. Puts(f, parse, after, Convert(on, f.conv, w).value)
      BY <2>4, <3>2 DEF Puts
    <3> QED
      BY <1>5, <2>2, <2>8, <3>2, <3>3 DEF Outcome, run, after
  <2> QED
    BY <2>6, <2>7, <2>8
<1> QED
  BY <1>3, <1>4, <1>5

\* A default is one of those of the items, or none.
LEMMA DefaultGiven ==
  ASSUME NEW f, NEW input
  PROVE  /\ DefaultsOf(f.items) = {} => Defaulted(f, input) = input
         /\ DefaultsOf(f.items) # {} =>
              \E item \in DefaultsOf(f.items) : Defaulted(f, input) = [input EXCEPT ![f.member] = item.value]
<1> DEFINE defaults == DefaultsOf(f.items)
<1>1. Defaulted(f, input) =
        IF defaults = {} THEN input
        ELSE [input EXCEPT ![f.member] = (CHOOSE item \in defaults : TRUE).value]
  BY DEF Defaulted, DefaultsOf, Seqs!ToSet
<1> HIDE DEF defaults
<1>2. defaults # {} => (CHOOSE item \in defaults : TRUE) \in defaults
  OBVIOUS
<1>3. /\ defaults = {} => Defaulted(f, input) = input
      /\ defaults # {} =>
           \E item \in defaults : Defaulted(f, input) = [input EXCEPT ![f.member] = item.value]
  BY <1>1, <1>2
<1> QED
  BY <1>3 DEF defaults

\* The outcome of a field under its own member is what was there, what it was given by the
\* selector, the value it converted or a default; under the others, it is what was there.
LEMMA OutcomeUnder ==
  ASSUME NEW on, NEW f, NEW before, NEW after, Outcome(on, f, before, after),
         NEW m \in DOMAIN before.input
  PROVE  /\ DOMAIN after.input = DOMAIN before.input
         /\ f.member # m => after.input[m] = before.input[m]
         /\ f.member = m =>
              LET run       == RunOf(on, f, before.root)
                  converted == Convert(on, f.conv, run.value)
              IN \/ Skipped(on, f, before.root) /\ after.input[m] = before.input[m]
                 \/ f.conv \in {Selector, Unbound}
                 \/ /\ run.error = Fine /\ ~Present(run.value)
                    /\ \/ DefaultsOf(f.items) = {} /\ after.input[m] = before.input[m]
                       \/ \E item \in DefaultsOf(f.items) : after.input[m] = item.value
                 \/ /\ run.error = Fine /\ Present(run.value) /\ converted.error = Fine
                    /\ after.input[m] = converted.value
<1> DEFINE run       == RunOf(on, f, before.root)
           converted == Convert(on, f.conv, run.value)
<1>1. \A v, input : input = [before.input EXCEPT ![f.member] = v] =>
        /\ DOMAIN input = DOMAIN before.input
        /\ f.member # m => input[m] = before.input[m]
        /\ f.member = m => input[m] = v
  OBVIOUS
<1> HIDE DEF run, converted
<1>2. CASE after.input = before.input /\ (Skipped(on, f, before.root) \/ f.conv = Unbound)
  BY <1>2
<1>3. CASE f.conv = Selector /\ \E v : Puts(f, before, after, v)
  BY <1>1, <1>3 DEF Puts
<1>4. CASE run.error = Fine /\ ~Present(run.value) /\ after.input = Defaulted(f, before.input)
  BY <1>1, <1>4, DefaultGiven DEF run
<1>5. CASE run.error = Fine /\ Present(run.value) /\ converted.error = Fine
             /\ Puts(f, before, after, converted.value)
  BY <1>1, <1>5 DEF Puts, run, converted
<1> QED
  BY <1>2, <1>3, <1>4, <1>5 DEF Outcome, run, converted

\* The parses of a request that is accepted: every field that runs has one of its outcomes.
GoesWell(on, plan, parses) ==
  /\ parses[0].input = Blank(plan)
  /\ \A n \in 0..Len(plan) : IsParse(parses[n])
  /\ \A n \in 1..Len(plan) :
       IF plan[n].shouldRun THEN Outcome(on, plan[n].field, parses[n - 1], parses[n])
       ELSE parses[n] = parses[n - 1]

LEMMA AcceptedStages ==
  ASSUME NEW on, NEW plan, Len(plan) \in Nat, DOMAIN plan = 1..Len(plan), NEW request,
         NEW parses, ParsesOf(on, plan, request, parses), parses[Len(plan)].error = Fine
  PROVE  GoesWell(on, plan, parses)
<1> DEFINE N == Len(plan)
<1>1. /\ parses[0] = Started(plan, request)
      /\ \A n \in 1..N : Follows(on, plan[n], parses[n - 1], parses[n])
      /\ \A n \in 0..N : parses[n].error = Fine
  BY ParseStages, ZenonT(60)
<1>2. IsParse(parses[0]) /\ parses[0].input = Blank(plan)
  <2>1. parses[0] = Parsed(Fine, request, Blank(plan))
    BY <1>1 DEF Started, Parsed
  <2> QED
    BY <2>1, Parts
<1>3. ASSUME NEW n \in 1..N
      PROVE  IF plan[n].shouldRun THEN parses[n] = ParseInto(on, plan[n].field, parses[n - 1])
             ELSE parses[n] = parses[n - 1]
  <2>1. n - 1 \in 0..N
    OBVIOUS
  <2> QED
    BY <1>1, <2>1 DEF Follows, Visited
<1> DEFINE whole == {n \in 0..N : IsParse(parses[n])}
<1>4. \A n \in 1..N : n - 1 \in whole => n \in whole
  <2> SUFFICES ASSUME NEW n \in 1..N, n - 1 \in whole PROVE n \in whole
    OBVIOUS
  <2>1. n \in 0..N /\ IsParse(parses[n - 1])
    OBVIOUS
  <2>2. IsParse(parses[n])
    BY <1>3, <2>1, FieldKeepsOthers
  <2> QED
    BY <2>1, <2>2
<1>5. 0..N \subseteq whole
  <2>1. 0 \in whole
    BY <1>2
  <2> HIDE DEF whole
  <2> QED
    BY <1>4, <2>1, AllStages
<1>6. ASSUME NEW n \in 1..N, plan[n].shouldRun PROVE Outcome(on, plan[n].field, parses[n - 1], parses[n])
  <2>1. n - 1 \in 0..N /\ n \in 0..N
    OBVIOUS
  <2>2. IsParse(parses[n - 1]) /\ parses[n - 1].error = Fine /\ parses[n].error = Fine
    BY <1>1, <1>5, <2>1
  <2>3. parses[n] = ParseInto(on, plan[n].field, parses[n - 1])
    BY <1>3, <1>6
  <2>4. ParseInto(on, plan[n].field, parses[n - 1]).error = Fine
    BY <2>2, <2>3
  <2> HIDE DEF N
  <2>5. Outcome(on, plan[n].field, parses[n - 1], ParseInto(on, plan[n].field, parses[n - 1]))
    BY <2>2, <2>4, FieldOutcome
  <2> QED
    BY <2>3, <2>5
<1> QED
  BY <1>2, <1>3, <1>5, <1>6 DEF GoesWell

\* No field that runs adds a member or drops one.
LEMMA MembersStay ==
  ASSUME NEW on, NEW plan, Len(plan) \in Nat, NEW parses, GoesWell(on, plan, parses)
  PROVE  \A n \in 0..Len(plan) : DOMAIN parses[n].input = DOMAIN Blank(plan)
<1> DEFINE stay == {n \in 0..Len(plan) : DOMAIN parses[n].input = DOMAIN Blank(plan)}
<1>1. 0 \in stay
  BY DEF GoesWell
<1>2. ASSUME NEW n \in 1..Len(plan), n - 1 \in stay PROVE n \in stay
  <2>1. DOMAIN parses[n - 1].input = DOMAIN Blank(plan) /\ n \in 0..Len(plan)
    BY <1>2
  <2>2. CASE plan[n].shouldRun
    <3>1. Outcome(on, plan[n].field, parses[n - 1], parses[n])
      BY <2>2 DEF GoesWell
    <3>2. CASE DOMAIN parses[n - 1].input # {}
      BY <2>1, <3>1, <3>2, OutcomeUnder
    <3>3. CASE DOMAIN parses[n - 1].input = {}
      <4>1. \A input, v : input = [parses[n - 1].input EXCEPT ![plan[n].field.member] = v] => DOMAIN input = {}
        BY <3>3
      <4>2. DOMAIN parses[n].input = {}
        BY <3>1, <3>3, <4>1, DefaultGiven DEF Outcome, Puts
      <4> QED
        BY <2>1, <3>3, <4>2
    <3> QED
      BY <3>2, <3>3
  <2>3. CASE ~plan[n].shouldRun
    BY <2>1, <2>3 DEF GoesWell
  <2> QED
    BY <2>2, <2>3
<1>3. 0..Len(plan) \subseteq stay
  <2> HIDE DEF stay
  <2> QED
    BY <1>1, <1>2, AllStages
<1> QED
  BY <1>3

-----------------------------------------------------------------------------
\* A converter that populates is neither the selector nor the want of one.
LEMMA PopulatingConverts ==
  ASSUME NEW conv, conv.conv \in Populating
  PROVE  conv \notin {Selector, Unbound}
<1>1. Selector.conv = "ledgerSelector" /\ Unbound.conv = "validate only"
  BY DEF Selector, Unbound, as
<1>2. "ledgerSelector" \notin Populating /\ "validate only" \notin Populating
  BY DEF Populating
<1> HIDE DEF Selector, Unbound
<1> QED
  BY <1>1, <1>2

\* A field that never unsets its member leaves it set, and sets it when it runs and finds a
\* value or has a default.
LEMMA StaysSet ==
  ASSUME NEW on, NEW f, NEW before, NEW after, Outcome(on, f, before, after),
         NEW m \in DOMAIN before.input, f.member = m => NeverUnsets(f)
  PROVE  before.input[m] # Unset => after.input[m] # Unset
<1> DEFINE run == RunOf(on, f, before.root)
<1>1. CASE f.member # m
  BY <1>1, OutcomeUnder
<1>2. CASE f.member = m
  <2>1. /\ f.conv.conv \in Populating /\ "empty" \notin DOMAIN f.conv
        /\ \A item \in DefaultsOf(f.items) : item.value # Unset
    BY <1>2 DEF NeverUnsets
  <2>2. f.conv \notin {Selector, Unbound}
    BY <2>1, PopulatingConverts
  <2>3. Convert(on, f.conv, run.value).error = Fine => Convert(on, f.conv, run.value).value # Unset
    <3> HIDE DEF run
    <3> QED
      BY <2>1, ConvertersPopulate
  <2> QED
    BY <1>2, <2>1, <2>2, <2>3, OutcomeUnder
<1> QED
  BY <1>1, <1>2

LEMMA SetsIt ==
  ASSUME NEW on, NEW f, NEW before, NEW after, Outcome(on, f, before, after),
         f.member \in DOMAIN before.input, NeverUnsets(f), ~Skipped(on, f, before.root),
         RunOf(on, f, before.root).error = Fine =>
           Present(RunOf(on, f, before.root).value) \/ DefaultsOf(f.items) # {}
  PROVE  after.input[f.member] # Unset
<1> DEFINE run == RunOf(on, f, before.root)
<1>1. /\ f.conv.conv \in Populating /\ "empty" \notin DOMAIN f.conv
      /\ \A item \in DefaultsOf(f.items) : item.value # Unset
  BY DEF NeverUnsets
<1>2. f.conv \notin {Selector, Unbound}
  BY <1>1, PopulatingConverts
<1>3. Convert(on, f.conv, run.value).error = Fine => Convert(on, f.conv, run.value).value # Unset
  <2> HIDE DEF run
  <2> QED
    BY <1>1, ConvertersPopulate
<1> QED
  BY <1>1, <1>2, <1>3, OutcomeUnder

\* A field whose guards are all of a few keys is skipped only when the request carries one.
LEMMA SkippedFor ==
  ASSUME NEW on, NEW f, NEW keys, GuardedBy(on, f, keys), NEW root, Skipped(on, f, root)
  PROVE  \E k \in keys : Present(Child(root, k))
BY DEF GuardedBy, Skipped, SkipsField

\* A member one field populates, or one that stands in for another, is set at the end.
LEMMA SetInTheEnd ==
  ASSUME NEW on \in Servers, NEW plan, Len(plan) \in Nat, DOMAIN plan = 1..Len(plan),
         \A p \in DOMAIN plan : plan[p].shouldRun => NamesItsOwn(plan, p),
         NEW m, SetBy(on, plan, m), NEW request, Parse(on, plan, request).error = Fine
  PROVE  Parse(on, plan, request).input[m] # Unset
<1> DEFINE N == Len(plan)
<1>1. PICK parses : ParsesOf(on, plan, request, parses) /\ Parse(on, plan, request) = parses[N]
  BY ParseUnrolls
<1>2. GoesWell(on, plan, parses)
  BY <1>1, AcceptedStages
<1>3. PICK p, q \in DOMAIN plan :
        /\ plan[p].shouldRun /\ plan[p].field.member = m
        /\ plan[q].shouldRun /\ plan[q].field.member = m
        /\ \/ Populates(on, plan[p].field)
           \/ p < q /\ StandsInFor(on, plan[p].field, plan[q].field)
  BY DEF SetBy
<1> DEFINE f == plan[p].field
           g == plan[q].field
<1>4. \A n \in DOMAIN plan : plan[n].field.member = m => NeverUnsets(plan[n].field)
  BY DEF SetBy, FieldsOf
<1>5. \A n \in 0..N : m \in DOMAIN parses[n].input
  <2>1. m \in DOMAIN Blank(plan)
    BY <1>3 DEF Blank, FieldsOf
  <2> QED
    BY <1>2, <2>1, MembersStay
<1>6. \A n \in 1..N : plan[n].shouldRun => Outcome(on, plan[n].field, parses[n - 1], parses[n])
  BY <1>2 DEF GoesWell
<1>7. \A n \in 1..N : n - 1 \in 0..N /\ n \in 0..N
  OBVIOUS
<1> HIDE DEF N
<1>8. ASSUME NEW n \in 1..N, parses[n - 1].input[m] # Unset PROVE parses[n].input[m] # Unset
  <2>1. CASE plan[n].shouldRun
    <3>1. Outcome(on, plan[n].field, parses[n - 1], parses[n])
      BY <1>6, <2>1
    <3>2. m \in DOMAIN parses[n - 1].input /\ (plan[n].field.member = m => NeverUnsets(plan[n].field))
      BY <1>4, <1>5, <1>7 DEF N
    <3> QED
      BY <1>8, <3>1, <3>2, StaysSet
  <2>2. CASE ~plan[n].shouldRun
    BY <1>2, <1>8, <2>2 DEF GoesWell, N
  <2> QED
    BY <2>1, <2>2
<1>9. ASSUME NEW i \in 1..N, parses[i].input[m] # Unset PROVE parses[N].input[m] # Unset
  <2> DEFINE set == {n \in 0..(N - i) : parses[i + n].input[m] # Unset}
  <2>1. N \in Nat
    BY DEF N
  <2>2. 0 \in set
    BY <1>9, <2>1
  <2>3. \A n \in 1..(N - i) : n - 1 \in set => n \in set
    <3> SUFFICES ASSUME NEW n \in 1..(N - i), n - 1 \in set PROVE n \in set
      OBVIOUS
    <3>1. i + n \in 1..N /\ (i + n) - 1 = i + (n - 1) /\ n \in 0..(N - i)
      BY <2>1
    <3>2. parses[(i + n) - 1].input[m] # Unset
      BY <3>1
    <3>3. parses[i + n].input[m] # Unset
      BY <1>8, <3>1, <3>2
    <3> QED
      BY <3>1, <3>3
  <2>4. 0..(N - i) \subseteq set
    <3>1. N - i \in Nat
      BY <2>1
    <3> HIDE DEF set
    <3> QED
      BY <2>2, <2>3, <3>1, AllStages
  <2>5. N - i \in 0..(N - i) /\ i + (N - i) = N
    BY <2>1
  <2> QED
    BY <2>4, <2>5
<1>10. ASSUME NEW i \in DOMAIN plan, plan[i].shouldRun, plan[i].field.member = m,
              ~Skipped(on, plan[i].field, parses[i - 1].root),
              RunOf(on, plan[i].field, parses[i - 1].root).error = Fine =>
                \/ Present(RunOf(on, plan[i].field, parses[i - 1].root).value)
                \/ DefaultsOf(plan[i].field.items) # {}
       PROVE  parses[i].input[m] # Unset
  <2>1. i \in 1..N
    BY DEF N
  <2>2. Outcome(on, plan[i].field, parses[i - 1], parses[i]) /\ m \in DOMAIN parses[i - 1].input
    BY <1>5, <1>6, <1>7, <1>10, <2>1
  <2> QED
    BY <1>4, <1>10, <2>2, SetsIt
<1>11. \A h : Requires(on, h) => \A root : RunOf(on, h, root).error = Fine => Present(RunOf(on, h, root).value)
  BY RequiredThere DEF Requires, RunOf
<1>12. CASE Populates(on, f)
  <2>1. ~Skipped(on, f, parses[p - 1].root)
    BY <1>12, SkippedFor DEF Populates
  <2>2. parses[p].input[m] # Unset
    BY <1>3, <1>10, <1>11, <1>12, <2>1 DEF Populates
  <2> QED
    BY <1>1, <1>9, <2>2 DEF N
<1>13. CASE p < q /\ StandsInFor(on, f, g)
  <2>1. /\ GuardedBy(on, f, {g.key}) /\ Requires(on, f)
        /\ GuardedBy(on, g, {}) /\ KeepsAll(g.items) /\ g.alternate = g.key
    BY <1>13 DEF StandsInFor
  <2>2. CASE ~Skipped(on, f, parses[p - 1].root)
    <3>1. parses[p].input[m] # Unset
      BY <1>3, <1>10, <1>11, <2>1, <2>2
    <3> QED
      BY <1>1, <1>9, <3>1 DEF N
  <2>3. CASE Skipped(on, f, parses[p - 1].root)
    <3>1. Present(Child(parses[p - 1].root, g.key))
      BY <2>1, <2>3, SkippedFor
    <3>2. \A n \in 0..Len(plan) : n < q => Child(parses[n].root, g.key) = Child(request, g.key)
      <4>1. NamesItsOwn(plan, q) /\ g.key \in NamesOf(g)
        BY <1>3 DEF NamesOf
      <4> QED
        BY <1>1, <4>1, UntilItsTurn
    <3>3. p - 1 \in 0..Len(plan) /\ p - 1 < q /\ q - 1 \in 0..Len(plan) /\ q - 1 < q
      BY <1>13
    <3>4. Present(Child(parses[q - 1].root, g.key))
      BY <3>1, <3>2, <3>3
    <3>5. SelectedKey(g, parses[q - 1].root) = g.key
      BY <2>1 DEF SelectedKey
    <3>6. RunOf(on, g, parses[q - 1].root).error = Fine => Present(RunOf(on, g, parses[q - 1].root).value)
      BY <2>1, <3>4, <3>5, RequiredThere DEF RunOf
    <3>7. ~Skipped(on, g, parses[q - 1].root)
      BY <2>1, SkippedFor
    <3>8. parses[q].input[m] # Unset
      BY <1>3, <1>10, <3>6, <3>7
    <3> QED
      BY <1>1, <1>9, <3>8 DEF N
  <2> QED
    BY <2>2, <2>3
<1> QED
  BY <1>3, <1>12, <1>13

\* A member that is not optional is set in the Input of every request (MembersPopulated), on
\* every table that keeps to PlainMembersAreSet: by the field that requires or defaults it, or
\* by the one its guard names when that guard skips it.
THEOREM MembersAlwaysPopulated == Spec => []MembersPopulated
<1>1. ASSUME Answered PROVE MembersPopulated
  <2> DEFINE plan == PlanOf(call.handler, call.version)
  <2>1. SUFFICES ASSUME Accepted, NEW m \in PlainMembers[call.handler] PROVE answer.input[m] # Unset
    BY DEF MembersPopulated
  <2>2. /\ server \in Servers
        /\ call.handler \in DOMAIN Specs /\ call.version \in Nat
    BY <1>1, CallTypes
  <2>3. PICK n \in DOMAIN Specs[call.handler] : plan = EffectiveFields(Specs[call.handler][n])
    BY <2>2, PlanOfSpec
  <2> DEFINE fields == Specs[call.handler][n]
  <2>4. /\ fields \in Seq(Definitions(fields))
        /\ \A f, g \in Definitions(fields) : f.key # g.key => NamesOf(f) \intersect NamesOf(g) = {}
    BY <2>2, SpecsAreVersioned, NamesApart DEF InEverySpec
  <2>5. SetBy(server, plan, m)
    BY <2>1, <2>2, <2>3, PlainMembersAreSet
  <2>6. /\ Len(plan) \in Nat /\ DOMAIN plan = 1..Len(plan)
        /\ FieldsOf(plan) \subseteq Definitions(fields)
        /\ \A i, j \in DOMAIN plan :
             plan[i].shouldRun /\ plan[j].shouldRun /\ plan[i].field.key = plan[j].field.key => i = j
    <3>1. plan = EffectiveFields(fields) /\ fields \in Seq(Definitions(fields))
      BY <2>3, <2>4
    <3> HIDE DEF plan, fields
    <3> QED
      BY <3>1, PlanRuns
  <2> HIDE DEF plan, fields
  <2>7. \A p \in DOMAIN plan : plan[p].shouldRun => NamesItsOwn(plan, p)
    BY <2>4, <2>6, OwnNamesInPlan
  <2>8. answer # Pending /\ ParseInput.error = Fine /\ answer = ParseInput
    <3>1. answer # Pending
      BY <2>1 DEF Accepted, Pending, Fine
    <3> QED
      BY <1>1, <2>1, <3>1, AnswerTells
  <2>9. Parse(server, plan, call.request).error = Fine
    BY <2>8 DEF ParseInput, plan
  <2>10. Parse(server, plan, call.request).input[m] # Unset
    BY <2>2, <2>5, <2>6, <2>7, <2>9, SetInTheEnd
  <2> QED
    BY <2>8, <2>10 DEF ParseInput, plan
<1> QED
  BY <1>1, AnsweredAlways, PTL

-----------------------------------------------------------------------------
\* The values of a member that is a number of a range, or unset.
Numbers(range) == {Unset} \union {UInt(n) : n \in range}

\* A field that hands over a number of a range puts no other under its member.
LEMMA HandedOver ==
  ASSUME NEW on \in Servers, NEW range \in SUBSET Int, NEW f, HandsOver(on, range, f),
         NEW before, NEW after, Outcome(on, f, before, after), f.member \in DOMAIN before.input,
         before.input[f.member] \in Numbers(range)
  PROVE  after.input[f.member] \in Numbers(range)
<1> DEFINE run == RunOf(on, f, before.root)
<1>1. /\ f.conv = as("asUint32")
      /\ Bounded(on, range, f.items)
      /\ \A item \in DefaultsOf(f.items) : \E n \in range : item.value = UInt(n)
  BY DEF HandsOver
<1>2. f.conv \notin {Selector, Unbound}
  <2>1. f.conv.conv \in Populating
    BY <1>1 DEF as, Populating
  <2> QED
    BY <2>1, PopulatingConverts
<1>3. \A item \in DefaultsOf(f.items) : item.value \in Numbers(range)
  BY <1>1 DEF Numbers
<1>4. ASSUME run.error = Fine, Convert(on, f.conv, run.value).error = Fine
      PROVE  Convert(on, f.conv, run.value).value \in Numbers(range)
  <2>1. Within(range, run.value)
    BY <1>1, <1>4, ItemsWithin DEF RunOf
  <2> DEFINE v == run.value
  <2> HIDE DEF run
  <2>2. Is("uint32", v) /\ Convert(on, f.conv, v).value = UInt(Number(v))
    BY <1>1, <1>4, NumberConverted
  <2> QED
    BY <2>1, <2>2 DEF Within, Numbers
<1> QED
  BY <1>2, <1>3, <1>4, OutcomeUnder

\* And if every field bound to that member is such a one, the parse ends with such a number or none.
LEMMA BoundedInTheEnd ==
  ASSUME NEW on \in Servers, NEW plan, Len(plan) \in Nat, DOMAIN plan = 1..Len(plan),
         NEW range \in SUBSET Int, NEW m, m \in DOMAIN Blank(plan),
         \A f \in FieldsOf(plan) : f.member = m => HandsOver(on, range, f),
         NEW request, Parse(on, plan, request).error = Fine
  PROVE  Parse(on, plan, request).input[m] \in Numbers(range)
<1> DEFINE N == Len(plan)
<1>1. PICK parses : ParsesOf(on, plan, request, parses) /\ Parse(on, plan, request) = parses[N]
  BY ParseUnrolls
<1>2. GoesWell(on, plan, parses)
  BY <1>1, AcceptedStages
<1>3. \A n \in 0..N : m \in DOMAIN parses[n].input
  BY <1>2, MembersStay
<1> DEFINE bounded == {n \in 0..N : parses[n].input[m] \in Numbers(range)}
<1>4. 0 \in bounded
  BY <1>2 DEF GoesWell, Blank, Numbers
<1>5. ASSUME NEW n \in 1..N, n - 1 \in bounded PROVE n \in bounded
  <2>1. n \in DOMAIN plan /\ n \in 0..N /\ n - 1 \in 0..N /\ parses[n - 1].input[m] \in Numbers(range)
    BY <1>5
  <2>2. CASE plan[n].shouldRun
    <3>1. Outcome(on, plan[n].field, parses[n - 1], parses[n])
      BY <1>2, <2>2 DEF GoesWell
    <3>2. m \in DOMAIN parses[n - 1].input
      BY <1>3, <2>1
    <3>3. CASE plan[n].field.member # m
      <4>1. parses[n].input[m] = parses[n - 1].input[m]
        BY <3>1, <3>2, <3>3, OutcomeUnder
      <4> QED
        BY <2>1, <4>1
    <3>4. CASE plan[n].field.member = m
      <4>1. HandsOver(on, range, plan[n].field)
        BY <2>1, <3>4 DEF FieldsOf
      <4>2. parses[n].input[m] \in Numbers(range)
        BY <2>1, <3>1, <3>2, <3>4, <4>1, HandedOver
      <4> QED
        BY <2>1, <4>2
    <3> QED
      BY <3>3, <3>4
  <2>3. CASE ~plan[n].shouldRun
    BY <1>2, <2>1, <2>3 DEF GoesWell
  <2> QED
    BY <2>2, <2>3
<1>6. 0..N \subseteq bounded
  <2> HIDE DEF bounded
  <2> QED
    BY <1>4, <1>5, AllStages
<1>7. N \in 0..N
  OBVIOUS
<1> QED
  BY <1>1, <1>6, <1>7

\* The ranges of the policy hold positive integers.
LEMMA LimitsArePositive ==
  ASSUME NEW on, NEW handler
  PROVE  /\ LimitPolicy(on, handler) \subseteq Int
         /\ \A n \in LimitPolicy(on, handler) : n > 0
<1>1. \A h \in DOMAIN LimitRange : LimitRange[h] \in {10..400, 20..400, 1..1000, 1..100, 50..500, 1..500}
  <2>1. DOMAIN LimitRange =
          { "account_channels", "account_currencies", "account_lines", "account_mptoken_issuances",
            "account_mptokens", "account_nfts", "account_objects", "account_offers", "account_tx",
            "book_offers", "mpt_holders", "mptoken_issuance_history", "nft_history", "nft_offers_common",
            "nfts_by_issuer", "noripple_check" }
    BY SMTT(30) DEF LimitRange
  <2>2. \A h \in { "account_channels", "account_currencies", "account_lines", "account_mptoken_issuances",
                  "account_mptokens", "account_objects", "account_offers" } : LimitRange[h] = 10..400
    BY SMTT(30) DEF LimitRange
  <2>3. \A h \in { "book_offers", "mpt_holders", "mptoken_issuance_history", "nft_history",
                  "nfts_by_issuer" } : LimitRange[h] = 1..100
    BY SMTT(30) DEF LimitRange
  <2>4. /\ LimitRange["account_nfts"] = 20..400 /\ LimitRange["account_tx"] = 1..1000
        /\ LimitRange["nft_offers_common"] = 50..500 /\ LimitRange["noripple_check"] = 1..500
    BY SMTT(30) DEF LimitRange
  <2> QED
    BY <2>1, <2>2, <2>3, <2>4, SMTT(30)
<1>2. \A range \in {10..400, 20..400, 1..1000, 1..100, 50..500, 1..500} :
        range \subseteq Int /\ \A n \in range : n > 0
  OBVIOUS
<1>3. 1..MaxUint32 \subseteq Int /\ \A n \in 1..MaxUint32 : n > 0
  BY WidthsGrow
<1> QED
  BY <1>1, <1>2, <1>3 DEF LimitPolicy

\* The limit of an Input is none that a handler is not written for (LimitWithinPolicy), on
\* every table that keeps to LimitsAreBounded: behind the last item that bounds it nothing
\* rewrites it, and the default lies within the range too.
THEOREM LimitsWithinPolicy == Spec => []LimitWithinPolicy
<1>1. ASSUME Answered PROVE LimitWithinPolicy
  <2> DEFINE plan  == PlanOf(call.handler, call.version)
             range == LimitPolicy(server, call.handler)
  <2>1. SUFFICES ASSUME Accepted, "limit" \in Members, answer.input["limit"] # Unset
                 PROVE  \E n \in range : answer.input["limit"] = UInt(n)
    <3>1. ASSUME NEW n \in range, answer.input["limit"] = UInt(n)
          PROVE  /\ answer.input.limit.number = n /\ n > 0
                 /\ server = "clio" /\ call.handler \in DOMAIN LimitRange => n \in LimitRange[call.handler]
      <4>1. answer.input.limit.number = n
        BY <3>1 DEF UInt
      <4>2. n > 0
        BY LimitsArePositive
      <4> QED
        BY <4>1, <4>2 DEF LimitPolicy
    <3> HIDE DEF range
    <3> QED
      BY <3>1 DEF LimitWithinPolicy
  <2>2. /\ server \in Servers
        /\ call.handler \in DOMAIN Specs /\ call.version \in Nat
    BY <1>1, CallTypes
  <2>3. PICK n \in DOMAIN Specs[call.handler] : plan = EffectiveFields(Specs[call.handler][n])
    BY <2>2, PlanOfSpec
  <2> DEFINE fields == Specs[call.handler][n]
  <2>4. Len(plan) \in Nat /\ DOMAIN plan = 1..Len(plan)
    <3>1. plan = EffectiveFields(fields) /\ fields \in Seq(Definitions(fields))
      BY <2>2, <2>3, SpecsAreVersioned DEF InEverySpec
    <3> HIDE DEF plan, fields
    <3> QED
      BY <3>1, PlanRuns, SMTT(30)
  <2>5. \A f \in FieldsOf(plan) : f.member = "limit" => HandsOver(server, range, f)
    BY <2>2, <2>3, LimitsAreBounded
  <2>6. range \in SUBSET Int
    BY LimitsArePositive
  <2>7. answer # Pending /\ ParseInput.error = Fine /\ answer = ParseInput
    <3>1. answer # Pending
      BY <2>1 DEF Accepted, Pending, Fine
    <3> QED
      BY <1>1, <2>1, <3>1, AnswerTells
  <2> HIDE DEF plan, fields, range
  <2>8. Parse(server, plan, call.request).error = Fine /\ answer = Parse(server, plan, call.request)
    BY <2>7 DEF ParseInput, plan
  <2>9. "limit" \in DOMAIN Blank(plan)
    <3>1. PICK parses : /\ ParsesOf(server, plan, call.request, parses)
                        /\ Parse(server, plan, call.request) = parses[Len(plan)]
      BY <2>4, ParseUnrolls
    <3>2. GoesWell(server, plan, parses)
      BY <2>4, <2>8, <3>1, AcceptedStages
    <3>3. Len(plan) \in 0..Len(plan)
      BY <2>4
    <3>4. DOMAIN parses[Len(plan)].input = DOMAIN Blank(plan)
      BY <2>4, <3>2, <3>3, MembersStay
    <3> QED
      BY <2>1, <2>8, <3>1, <3>4 DEF Members
  <2>10. answer.input["limit"] \in Numbers(range)
    BY <2>2, <2>4, <2>5, <2>6, <2>8, <2>9, BoundedInTheEnd
  <2> QED
    BY <2>1, <2>10 DEF Numbers
<1> QED
  BY <1>1, AnsweredAlways, PTL
=============================================================================
