------------------------- MODULE JsonVisitorProofs -------------------------
(***************************************************************************)
(* What the handler tells the check, what it buffers and what visitJson    *)
(* answers, for every document, every limit, every way of splitting keys   *)
(* and strings, every answer of the check and every failure of the parser. *)
(***************************************************************************)
EXTENDS JsonVisitor, TLAPS, SequenceTheorems

\* An open container, as the parser remembers it.
Container == [kind : {"Object", "Array"}, name : Texts, members : Nat]

\* Between members the parser holds neither a name nor a piece of text, and a
\* key is read before there is a name.
NothingLeftOver ==
  /\ at \in {"value", "inside", "number"} => text = <<>>
  /\ at \in {"inside", "key"} => name = <<>>

\* The inductive form of HandlerInv: a key starts from nothing, so that its
\* pieces add up to its name.
VisitInv == HandlerInv /\ NothingLeftOver

\* Texts are closed under the joining of pieces.
LEMMA Joined ==
  ASSUME NEW t \in Texts, NEW piece \in Pieces
  PROVE  /\ t \o piece \in Texts
         /\ Len(t \o piece) \in Nat
         /\ <<>> \in Texts
<1>1. piece \in Seq(Letters)
  <2>1. ASSUME NEW c \in Letters PROVE <<c>> \in Seq(Letters)
    OBVIOUS
  <2> QED
    BY <2>1, EmptySeq DEF Pieces
<1> QED
  BY <1>1, ConcatProperties, LenProperties, EmptySeq DEF Texts

\* Counting a member changes neither the number nor the names of what is open.
LEMMA CountedKeepsNames ==
  ASSUME open \in Seq(Container), at = "inside" => open # <<>>
  PROVE  /\ Counted \in Seq(Container)
         /\ Len(Counted) = Len(open)
         /\ \A i \in 1..Len(open) : Counted[i].name = open[i].name
<1>1. CASE at = "inside"
  <2> DEFINE top == open[Len(open)]
             fuller == [top EXCEPT !.members = top.members + 1]
  <2>1. Len(open) \in 1..Len(open)
    BY <1>1, EmptySeq
  <2>2. top \in Container
    BY <2>1, ElementOfSeq
  <2>3. fuller \in Container /\ fuller.name = top.name
    BY <2>2 DEF Container
  <2>4. Counted = [open EXCEPT ![Len(open)] = fuller]
    BY <1>1 DEF Counted
  <2> HIDE DEF fuller
  <2>5. /\ Counted \in Seq(Container)
        /\ Len(Counted) = Len(open)
        /\ \A i \in 1..Len(open) : Counted[i] = IF i = Len(open) THEN fuller ELSE open[i]
    BY <2>1, <2>3, <2>4, ExceptSeq
  <2> QED
    BY <2>3, <2>5
<1>2. CASE at # "inside"
  BY <1>2 DEF Counted
<1> QED
  BY <1>1, <1>2

\* What emit does: the event is handed over, and the parser goes on unless the
\* check drops.
LEMMA Emitted ==
  ASSUME NEW e, NEW next, Emit(e, next)
  PROVE  /\ event' = e
         /\ at' = IF Dropped(decision') THEN "failed" ELSE next
  BY DEF Emit

\* The handler's variables and the parser's, with the types they have.
LEMMA Typed ==
  ASSUME VisitInv
  PROVE  /\ open \in Seq(Container) /\ Len(open) \in Nat
         /\ at = "inside" => open # <<>>
         /\ at = "inside" => Last(open) \in Container /\ Len(open) \in 1..Len(open)
         /\ name \in Seq(Letters) /\ text \in Seq(Letters)
         /\ pendingKey \in Seq(Letters)
         /\ containerKeys \in Seq(Texts)
         /\ Counted \in Seq(Container)
         /\ Len(Counted) = Len(open)
         /\ \A i \in 1..Len(open) : Counted[i].name = open[i].name
<1>1. /\ open \in Seq(Container) /\ Len(open) \in Nat
      /\ at = "inside" => open # <<>>
      /\ name \in Seq(Letters) /\ text \in Seq(Letters)
      /\ pendingKey \in Seq(Letters)
      /\ containerKeys \in Seq(Texts)
  BY LenProperties DEF VisitInv, HandlerInv, TypeOK, Container, Texts
<1>2. at = "inside" => Last(open) \in Container /\ Len(open) \in 1..Len(open)
  <2>1. at = "inside" => Len(open) \in 1..Len(open)
    BY <1>1, EmptySeq
  <2> QED
    BY <1>1, <2>1, ElementOfSeq DEF Last
<1> QED
  BY <1>1, <1>2, CountedKeepsNames

-----------------------------------------------------------------------------
\* A callback inside a member: the containers stay as they are but for the
\* count of members, and the handler's depth and stack with them.
LEMMA MemberStep ==
  ASSUME VisitInv, at # "failed", open' = Counted,
         UNCHANGED <<depth, containerKeys>>,
         NEW next \in {"value", "inside", "key", "string", "number", "end"},
         at' \in {next, "failed"},
         next = "inside" => open # <<>>,
         name' \in Texts, text' \in Texts, pendingKey' \in Texts,
         pendingKey' = IF next = "key" THEN text' ELSE name',
         next \in {"value", "inside", "number"} => text' = <<>>,
         next \in {"inside", "key"} => name' = <<>>
  PROVE  VisitInv'
<1>1. /\ open' \in Seq(Container)
      /\ Len(open') = Len(open) /\ Len(open) \in Nat
      /\ \A i \in 1..Len(open) : open'[i].name = open[i].name
  BY Typed
<1>2. at' = "inside" => open' # <<>>
  BY <1>1, Typed, EmptySeq
<1>3. /\ depth = Len(open)
      /\ containerKeys = [i \in 1..Len(open) |-> open[i].name]
      /\ depth \in Int
      /\ containerKeys \in Seq(Texts)
  BY DEF VisitInv, HandlerInv, HandlerTracksParser, TypeOK
<1>4. containerKeys' = [i \in 1..Len(open') |-> open'[i].name]
  BY <1>1, <1>3
<1>5. TypeOK'
  BY <1>1, <1>2, <1>3 DEF TypeOK, Container
<1>6. HandlerTracksParser'
  BY <1>1, <1>3, <1>4 DEF HandlerTracksParser
<1>7. NothingLeftOver'
  BY DEF NothingLeftOver
<1> QED
  BY <1>5, <1>6, <1>7 DEF VisitInv, HandlerInv

\* emitLeaf: the value ends the member, and the key goes with it.
LEMMA LeafStep ==
  ASSUME VisitInv, at # "failed", open' = Counted,
         UNCHANGED <<depth, containerKeys>>,
         NEW kind, NEW size, EmitLeaf(kind, size)
  PROVE  VisitInv'
<1>1. /\ at' \in {After(open), "failed"}
      /\ pendingKey' = <<>> /\ name' = <<>> /\ text' = <<>>
  BY Emitted DEF EmitLeaf
<1>2. /\ After(open) \in {"inside", "end"}
      /\ After(open) = "inside" => open # <<>>
  BY DEF After
<1>3. <<>> \in Texts
  BY EmptySeq DEF Texts
<1> QED
  BY <1>1, <1>2, <1>3, MemberStep

\* beginContainer moves the pending key onto the stack.
LEMMA BeginStep ==
  ASSUME VisitInv, NEW kind \in {"Object", "Array"}, OnBegin(kind)
  PROVE  VisitInv'
<1> DEFINE opened == [kind |-> kind, name |-> name, members |-> 0]
<1>1. /\ at \in {"value", "inside"}
      /\ open' = Append(Counted, opened)
      /\ name' = <<>> /\ pendingKey' = <<>> /\ text' = text
      /\ containerKeys' = Append(containerKeys, pendingKey)
      /\ depth' = depth + 1
      /\ at' \in {"inside", "failed"}
  BY Emitted DEF OnBegin, ValueMayStart, Inside
<1>2. opened \in Container
  BY DEF VisitInv, HandlerInv, TypeOK, Container
<1>3. /\ depth = Len(open) /\ Len(open) \in Nat
      /\ containerKeys = [i \in 1..Len(open) |-> open[i].name]
      /\ Len(containerKeys) = Len(open)
      /\ containerKeys \in Seq(Texts) /\ pendingKey \in Texts
      /\ pendingKey = name
      /\ text = <<>>
  BY <1>1, Typed
  DEF VisitInv, HandlerInv, HandlerTracksParser, NothingLeftOver, TypeOK
<1>4. /\ open' \in Seq(Container)
      /\ Len(open') = Len(open) + 1
      /\ \A i \in 1..Len(open) : open'[i].name = open[i].name
      /\ open'[Len(open) + 1] = opened
      /\ open' # <<>>
  <2> HIDE DEF opened
  <2> QED
    BY <1>1, <1>2, Typed, AppendProperties
<1>5. /\ containerKeys' \in Seq(Texts)
      /\ Len(containerKeys') = Len(open) + 1
      /\ \A i \in 1..Len(open) : containerKeys'[i] = open[i].name
      /\ containerKeys'[Len(open) + 1] = name
  BY <1>1, <1>3, AppendProperties
<1>6. containerKeys' = [i \in 1..Len(open') |-> open'[i].name]
  <2>1. DOMAIN containerKeys' = 1..Len(open')
    BY <1>4, <1>5, LenProperties
  <2>2. \A i \in 1..Len(open') : containerKeys'[i] = open'[i].name
    BY <1>3, <1>4, <1>5
  <2> QED
    BY <1>5, <2>1, <2>2, LenProperties
<1>7. <<>> \in Texts
  BY EmptySeq DEF Texts
<1>8. TypeOK'
  BY <1>1, <1>3, <1>4, <1>5, <1>7 DEF TypeOK, Container
<1>9. HandlerTracksParser'
  BY <1>1, <1>3, <1>4, <1>6 DEF HandlerTracksParser
<1>10. NothingLeftOver'
  BY <1>1, <1>3 DEF NothingLeftOver
<1> QED
  BY <1>8, <1>9, <1>10 DEF VisitInv, HandlerInv

\* endContainer takes depth and stack back to what they were before the begin.
LEMMA EndStep ==
  ASSUME VisitInv, OnEnd
  PROVE  VisitInv'
<1>1. /\ at = "inside"
      /\ open' = Front(open)
      /\ containerKeys' = Front(containerKeys)
      /\ depth' = depth - 1
      /\ at' \in {After(Front(open)), "failed"}
      /\ UNCHANGED <<name, text, pendingKey>>
  BY Emitted DEF OnEnd
<1>2. /\ open \in Seq(Container)
      /\ Len(open) \in 1..Len(open) /\ Len(open) \in Nat
      /\ depth = Len(open)
      /\ containerKeys = [i \in 1..Len(open) |-> open[i].name]
      /\ Len(containerKeys) = Len(open)
      /\ containerKeys \in Seq(Texts)
      /\ pendingKey = name /\ name = <<>> /\ text = <<>>
  BY <1>1, Typed
  DEF VisitInv, HandlerInv, HandlerTracksParser, NothingLeftOver, TypeOK
<1>3. /\ open' \in Seq(Container)
      /\ Len(open') = Len(open) - 1
      /\ \A i \in 1..(Len(open) - 1) : open'[i] = open[i]
  <2>1. \A i \in 1..(Len(open) - 1) : open[i] \in Container
    BY <1>2, ElementOfSeq
  <2> QED
    BY <1>1, <1>2, <2>1, SubSeqProperties DEF Front
<1>4. /\ containerKeys' \in Seq(Texts)
      /\ Len(containerKeys') = Len(open) - 1
      /\ \A i \in 1..(Len(open) - 1) : containerKeys'[i] = containerKeys[i]
  <2>1. \A i \in 1..(Len(open) - 1) : containerKeys[i] \in Texts
    BY <1>2, ElementOfSeq
  <2> QED
    BY <1>1, <1>2, <2>1, SubSeqProperties DEF Front
<1>5. containerKeys' = [i \in 1..Len(open') |-> open'[i].name]
  <2>1. DOMAIN containerKeys' = 1..Len(open')
    BY <1>3, <1>4, LenProperties
  <2>2. \A i \in 1..Len(open') : containerKeys'[i] = open'[i].name
    <3> SUFFICES ASSUME NEW i \in 1..(Len(open) - 1)
                 PROVE  containerKeys'[i] = open'[i].name
      BY <1>3
    <3>1. i \in 1..Len(open)
      BY <1>2
    <3>2. containerKeys[i] = open[i].name
      BY <1>2, <3>1
    <3> QED
      BY <1>3, <1>4, <3>2
  <2> QED
    BY <1>4, <2>1, <2>2, LenProperties
<1>6. at' \in {"inside", "end", "failed"} /\ (at' = "inside" => open' # <<>>)
  BY <1>1 DEF After
<1>7. TypeOK'
  BY <1>1, <1>2, <1>3, <1>4, <1>6 DEF VisitInv, HandlerInv, TypeOK, Container
<1>8. HandlerTracksParser'
  BY <1>1, <1>2, <1>3, <1>5, <1>6 DEF HandlerTracksParser
<1>9. NothingLeftOver'
  BY <1>1, <1>2 DEF NothingLeftOver
<1> QED
  BY <1>7, <1>8, <1>9 DEF VisitInv, HandlerInv

\* on_key_part and on_key: the pieces add up to the key the check is told.
LEMMA KeyStep ==
  ASSUME VisitInv, NEW piece \in Pieces, NEW kind \in {"KeyPart", "Key"},
         OnKey(kind, piece)
  PROVE  VisitInv'
<1>1. /\ at \in {"inside", "key"}
      /\ open' = Counted
      /\ pendingKey' = pendingKey \o piece
      /\ at' \in {IF kind = "KeyPart" THEN "key" ELSE "value", "failed"}
      /\ IF kind = "KeyPart" THEN text' = text \o piece /\ name' = name
         ELSE text' = <<>> /\ name' = text \o piece
      /\ UNCHANGED <<depth, containerKeys>>
  BY Emitted DEF OnKey, KeyMayStart, Inside
<1>2. pendingKey = text /\ name = <<>> /\ text \in Texts
  BY <1>1 DEF VisitInv, HandlerInv, HandlerTracksParser, NothingLeftOver, TypeOK
<1>3. text \o piece \in Texts /\ <<>> \in Texts
  BY <1>2, Joined
<1>4. CASE kind = "KeyPart"
  BY <1>1, <1>2, <1>3, <1>4, MemberStep
<1>5. CASE kind = "Key"
  BY <1>1, <1>2, <1>3, <1>5, MemberStep
<1> QED
  BY <1>4, <1>5

\* Every step of the parser and the handler keeps the invariant.
LEMMA VisitStep ==
  ASSUME VisitInv, [Next]_vars
  PROVE  VisitInv'
<1>0. TypeOK /\ HandlerTracksParser /\ NothingLeftOver
  BY DEF VisitInv, HandlerInv
<1>1. ASSUME NEW kind \in {"Object", "Array"}, OnBegin(kind) PROVE VisitInv'
  BY <1>1, BeginStep
<1>2. CASE OnEnd
  BY <1>2, EndStep
<1>3. ASSUME NEW piece \in Pieces, NEW kind \in {"KeyPart", "Key"}, OnKey(kind, piece)
      PROVE  VisitInv'
  BY <1>3, KeyStep
<1>4. ASSUME NEW piece \in Pieces, OnStringPart(piece) PROVE VisitInv'
  <2>1. /\ at \in {"value", "inside", "string"}
        /\ open' = Counted
        /\ text' = text \o piece
        /\ at' \in {"string", "failed"}
        /\ UNCHANGED <<name, depth, containerKeys, pendingKey>>
    BY <1>4, Emitted DEF OnStringPart, ValueMayStart, Inside
  <2>2. text \o piece \in Texts
    BY <1>0, Joined DEF TypeOK
  <2>3. pendingKey = name /\ name \in Texts
    BY <1>0, <2>1 DEF HandlerTracksParser, TypeOK
  <2> QED
    BY <2>1, <2>2, <2>3, MemberStep
<1>5. ASSUME NEW piece \in Pieces, OnString(piece) PROVE VisitInv'
  <2>1. at # "failed" /\ open' = Counted /\ UNCHANGED <<depth, containerKeys>>
    BY <1>5 DEF OnString, ValueMayStart, Inside
  <2> QED
    BY <1>5, <2>1, LeafStep DEF OnString
<1>6. CASE OnNumberPart
  <2>1. /\ at \in {"value", "inside", "number"}
        /\ open' = Counted
        /\ at' \in {"number", "failed"}
        /\ UNCHANGED <<name, text, depth, containerKeys, pendingKey>>
    BY <1>6, Emitted DEF OnNumberPart, ValueMayStart, Inside
  <2>2. pendingKey = name /\ name \in Texts /\ text = <<>> /\ text \in Texts
    BY <1>0, <2>1 DEF HandlerTracksParser, NothingLeftOver, TypeOK
  <2> QED
    BY <2>1, <2>2, MemberStep
<1>7. ASSUME NEW kind \in {"Int64", "Uint64", "Double"}, OnNumber(kind)
      PROVE  VisitInv'
  <2>1. at # "failed" /\ open' = Counted /\ UNCHANGED <<depth, containerKeys>>
    BY <1>7 DEF OnNumber, ValueMayStart, Inside
  <2> QED
    BY <1>7, <2>1, LeafStep DEF OnNumber
<1>8. ASSUME NEW kind \in {"Bool", "Null"}, OnWord(kind) PROVE VisitInv'
  <2>1. at # "failed" /\ open' = Counted /\ UNCHANGED <<depth, containerKeys>>
    BY <1>8 DEF OnWord, ValueMayStart, Inside
  <2> QED
    BY <1>8, <2>1, LeafStep DEF OnWord
<1>9. CASE ParserFails
  BY <1>0, <1>9
  DEF ParserFails, VisitInv, HandlerInv, TypeOK, HandlerTracksParser, NothingLeftOver
<1>10. CASE Return \/ UNCHANGED vars
  BY <1>0, <1>10
  DEF Return, vars, VisitInv, HandlerInv, TypeOK, HandlerTracksParser, NothingLeftOver
<1> QED
  BY <1>1, <1>2, <1>3, <1>4, <1>5, <1>6, <1>7, <1>8, <1>9, <1>10 DEF Next

\* The handler and the parser agree, and nothing is left over, in every
\* reachable state.
THEOREM VisitInvariance == Spec => []VisitInv
<1>1. Init => VisitInv
  <2> SUFFICES ASSUME Init PROVE VisitInv
    OBVIOUS
  <2>1. <<>> \in Texts /\ <<>> \in Seq(Container) /\ <<>> \in Seq(Texts) /\ Len(<<>>) = 0
    BY EmptySeq DEF Texts
  <2>2. TypeOK
    BY <2>1 DEF Init, TypeOK, Container
  <2>3. HandlerTracksParser
    <3>1. <<>> = [i \in 1..Len(<<>>) |-> open[i].name]
      BY <2>1
    <3> QED
      BY <2>1, <3>1 DEF Init, HandlerTracksParser
  <2>4. NothingLeftOver
    BY DEF Init, NothingLeftOver
  <2> QED
    BY <2>2, <2>3, <2>4 DEF VisitInv, HandlerInv
<1>2. VisitInv /\ [Next]_vars => VisitInv'
  BY VisitStep
<1> QED
  BY <1>1, <1>2, PTL DEF Spec

\* While the parser runs, the handler's depth, stack and pending key are the
\* document's, however deep it nests and wherever its keys are split.
THEOREM HandlerTracksParserHolds == Spec => []HandlerInv
<1>1. VisitInv => HandlerInv
  BY DEF VisitInv
<1> QED
  BY <1>1, VisitInvariance, PTL

-----------------------------------------------------------------------------
\* The inductive form of VerdictSound: the parser has stopped before visitJson
\* answers, and a document at its end has everything closed.
VerdictInv ==
  /\ VerdictSound
  /\ result # Running => at \in {"end", "failed"}
  /\ at = "end" => open = <<>>

\* A callback of a parser that is still running, whose answer emit acts on.
LEMMA EmitStep ==
  ASSUME VerdictInv, at \notin {"end", "failed"}, result' = result,
         NEW e, NEW next, Emit(e, next), next # "failed",
         next = "end" => open' = <<>>
  PROVE  VerdictInv'
<1>1. at' = IF Dropped(decision') THEN "failed" ELSE next
  BY Emitted
<1>2. result = Running
  BY DEF VerdictInv
<1>3. Running' = Running
  BY DEF Running
<1> QED
  BY <1>1, <1>2, <1>3 DEF VerdictInv, VerdictSound

\* A scalar that ends the document leaves nothing open.
LEMMA LeafVerdict ==
  ASSUME VisitInv, VerdictInv, ValueMayStart \/ at \in {"string", "number"},
         open' = Counted, result' = result,
         NEW kind, NEW size, EmitLeaf(kind, size)
  PROVE  VerdictInv'
<1>1. at \notin {"end", "failed"}
  BY DEF ValueMayStart, Inside
<1>2. After(open) = "end" => open' = <<>>
  BY Typed DEF After, Counted
<1>3. After(open) # "failed"
  BY DEF After
<1> QED
  BY <1>1, <1>2, <1>3, EmitStep DEF EmitLeaf

\* A drop is the last word of the check and the answer of visitJson, and only
\* a document read to its end is admitted (the end of visitJson).
THEOREM VerdictSoundHolds == Spec => []VerdictSound
<1>1. Init => VerdictInv
  <2>1. ~Dropped(Admit(0))
    BY DEF Dropped, Admit
  <2> QED
    BY <2>1 DEF Init, VerdictInv, VerdictSound
<1>2. VisitInv /\ VerdictInv /\ [Next]_vars => VerdictInv'
  <2> SUFFICES ASSUME VisitInv, VerdictInv, [Next]_vars PROVE VerdictInv'
    OBVIOUS
  <2>1. ASSUME NEW kind \in {"Object", "Array"}, OnBegin(kind) PROVE VerdictInv'
    <3>1. at \notin {"end", "failed"} /\ result' = result
      BY <2>1 DEF OnBegin, ValueMayStart, Inside
    <3> QED
      BY <2>1, <3>1, EmitStep DEF OnBegin
  <2>2. CASE OnEnd
    <3>1. at \notin {"end", "failed"} /\ result' = result
      BY <2>2 DEF OnEnd
    <3>2. After(Front(open)) # "failed" /\ (After(Front(open)) = "end" => open' = <<>>)
      BY <2>2 DEF OnEnd, After
    <3> QED
      BY <2>2, <3>1, <3>2, EmitStep DEF OnEnd
  <2>3. ASSUME NEW piece \in Pieces, NEW kind \in {"KeyPart", "Key"}, OnKey(kind, piece)
        PROVE  VerdictInv'
    <3> DEFINE next == IF kind = "KeyPart" THEN "key" ELSE "value"
    <3>1. at \notin {"end", "failed"} /\ result' = result
      BY <2>3 DEF OnKey, KeyMayStart, Inside
    <3>2. next \notin {"end", "failed"}
      OBVIOUS
    <3>3. Emit(Event(kind, <<>>, Len(text \o piece), depth), next)
      BY <2>3 DEF OnKey
    <3> HIDE DEF next
    <3> QED
      BY <3>1, <3>2, <3>3, EmitStep
  <2>4. ASSUME NEW piece \in Pieces, OnStringPart(piece) PROVE VerdictInv'
    <3>1. at \notin {"end", "failed"} /\ result' = result
      BY <2>4 DEF OnStringPart, ValueMayStart, Inside
    <3> QED
      BY <2>4, <3>1, EmitStep DEF OnStringPart
  <2>5. ASSUME NEW piece \in Pieces, OnString(piece) PROVE VerdictInv'
    BY <2>5, LeafVerdict DEF OnString
  <2>6. CASE OnNumberPart
    <3>1. at \notin {"end", "failed"} /\ result' = result
      BY <2>6 DEF OnNumberPart, ValueMayStart, Inside
    <3> QED
      BY <2>6, <3>1, EmitStep DEF OnNumberPart
  <2>7. ASSUME NEW kind \in {"Int64", "Uint64", "Double"}, OnNumber(kind)
        PROVE  VerdictInv'
    BY <2>7, LeafVerdict DEF OnNumber
  <2>8. ASSUME NEW kind \in {"Bool", "Null"}, OnWord(kind) PROVE VerdictInv'
    BY <2>8, LeafVerdict DEF OnWord
  <2>9. CASE ParserFails
    BY <2>9 DEF ParserFails, VerdictInv, VerdictSound, Running
  <2>10. CASE Return
    <3>1. /\ at \in {"end", "failed"}
          /\ result' = IF Dropped(decision) THEN decision
                       ELSE IF at = "failed" THEN Drop("invalid", InvalidCost)
                       ELSE decision
          /\ at' = at /\ open' = open /\ decision' = decision
      BY <2>10 DEF Return
    <3>2. Dropped(Drop("invalid", InvalidCost))
      BY DEF Dropped, Drop
    <3> QED
      BY <3>1, <3>2 DEF VerdictInv, VerdictSound
  <2>11. CASE UNCHANGED vars
    BY <2>11 DEF vars, VerdictInv, VerdictSound, Running
  <2> QED
    BY <2>1, <2>2, <2>3, <2>4, <2>5, <2>6, <2>7, <2>8, <2>9, <2>10, <2>11 DEF Next
<1>3. VerdictInv => VerdictSound
  BY DEF VerdictInv
<1> QED
  BY <1>1, <1>2, <1>3, VisitInvariance, PTL DEF Spec

-----------------------------------------------------------------------------
\* The inductive form of BufferBounded, which also holds when the check or the
\* parser has stopped halfway: one key for every open container, and the parser
\* opens no more than it may.
BufferInv ==
  /\ Len(containerKeys) = Len(open)
  /\ Len(open) <= MaxDepth
  /\ \A i \in 1..Len(containerKeys) : Len(containerKeys[i]) <= MaxKeySize
  /\ Len(pendingKey) <= MaxKeySize

\* A callback that leaves the stack alone and the pending key short enough.
LEMMA BufferKept ==
  ASSUME VisitInv, BufferInv, open' \in {open, Counted},
         containerKeys' = containerKeys,
         pendingKey' \in {pendingKey, <<>>} \/ Len(pendingKey') <= MaxKeySize
  PROVE  BufferInv'
<1>1. Len(open') = Len(open)
  BY Typed
<1>2. Len(<<>>) <= MaxKeySize
  BY VisitorAssumption, EmptySeq
<1> QED
  BY <1>1, <1>2 DEF BufferInv

\* A callback that opens a container, below the limit, moves one key.
LEMMA BufferGrows ==
  ASSUME VisitInv, BufferInv, NEW kind \in {"Object", "Array"}, OnBegin(kind)
  PROVE  BufferInv'
<1> DEFINE opened == [kind |-> kind, name |-> name, members |-> 0]
<1>1. /\ Len(open) < MaxDepth
      /\ open' = Append(Counted, opened)
      /\ containerKeys' = Append(containerKeys, pendingKey)
      /\ pendingKey' = <<>>
  BY DEF OnBegin
<1>2. opened \in Container /\ pendingKey \in Texts
  BY DEF VisitInv, HandlerInv, TypeOK, Container
<1>3. Len(open') = Len(open) + 1
  <2> HIDE DEF opened
  <2> QED
    BY <1>1, <1>2, Typed, AppendProperties
<1>4. /\ Len(containerKeys) \in Nat
      /\ Len(containerKeys') = Len(containerKeys) + 1
      /\ \A i \in 1..Len(containerKeys) : containerKeys'[i] = containerKeys[i]
      /\ containerKeys'[Len(containerKeys) + 1] = pendingKey
  BY <1>1, <1>2, Typed, AppendProperties, LenProperties
<1>5. Len(open) \in Nat /\ MaxDepth \in Nat /\ MaxKeySize \in Nat
  BY Typed, VisitorAssumption
<1>6. Len(<<>>) = 0
  BY EmptySeq
<1>7. ASSUME NEW i \in 1..Len(containerKeys')
      PROVE  Len(containerKeys'[i]) <= MaxKeySize
  <2>1. i \in 1..Len(containerKeys) \/ i = Len(containerKeys) + 1
    BY <1>4
  <2> QED
    BY <1>4, <2>1 DEF BufferInv
<1>8. Len(open') <= MaxDepth /\ Len(containerKeys') = Len(open')
  BY <1>1, <1>3, <1>4, <1>5 DEF BufferInv
<1> QED
  BY <1>1, <1>5, <1>6, <1>7, <1>8 DEF BufferInv

\* A callback that closes one takes its key off the stack.
LEMMA BufferShrinks ==
  ASSUME VisitInv, BufferInv, OnEnd
  PROVE  BufferInv'
<1>1. /\ at = "inside"
      /\ open' = Front(open)
      /\ containerKeys' = Front(containerKeys)
      /\ pendingKey' = pendingKey
  BY DEF OnEnd
<1>2. /\ Len(open) \in 1..Len(open) /\ Len(open) \in Nat
      /\ Len(containerKeys) = Len(open)
      /\ MaxDepth \in Nat
  BY <1>1, Typed, VisitorAssumption DEF BufferInv
<1>3. Len(open') = Len(open) - 1
  <2>1. \A i \in 1..(Len(open) - 1) : open[i] \in Container
    BY <1>2, Typed, ElementOfSeq
  <2> QED
    BY <1>1, <1>2, <2>1, SubSeqProperties DEF Front
<1>4. /\ Len(containerKeys') = Len(open) - 1
      /\ \A i \in 1..(Len(open) - 1) : containerKeys'[i] = containerKeys[i]
  <2>1. \A i \in 1..(Len(open) - 1) : containerKeys[i] \in Texts
    BY <1>2, Typed, ElementOfSeq
  <2> QED
    BY <1>1, <1>2, <2>1, SubSeqProperties DEF Front
<1>5. \A i \in 1..(Len(open) - 1) : i \in 1..Len(containerKeys)
  BY <1>2
<1> QED
  BY <1>1, <1>2, <1>3, <1>4, <1>5 DEF BufferInv

\* The memory of the handler follows the limits and not the payload: the depth
\* bounds the stack, and the size of a key what is on it (beginContainer,
\* on_key_part).
THEOREM BufferBoundedHolds == Spec => []BufferBounded
<1>1. Init => BufferInv
  BY EmptySeq, VisitorAssumption DEF Init, BufferInv
<1>2. VisitInv /\ BufferInv /\ [Next]_vars => BufferInv'
  <2> SUFFICES ASSUME VisitInv, BufferInv, [Next]_vars PROVE BufferInv'
    OBVIOUS
  <2>1. ASSUME NEW kind \in {"Object", "Array"}, OnBegin(kind) PROVE BufferInv'
    BY <2>1, BufferGrows
  <2>2. CASE OnEnd
    BY <2>2, BufferShrinks
  <2>3. ASSUME NEW piece \in Pieces, NEW kind \in {"KeyPart", "Key"}, OnKey(kind, piece)
        PROVE  BufferInv'
    <3>1. /\ at \in {"inside", "key"}
          /\ open' = Counted /\ containerKeys' = containerKeys
          /\ pendingKey' = pendingKey \o piece
          /\ Len(text \o piece) <= MaxKeySize
      BY <2>3 DEF OnKey, KeyMayStart, Inside
    <3>2. pendingKey = text
      BY <3>1 DEF VisitInv, HandlerInv, HandlerTracksParser, NothingLeftOver
    <3> QED
      BY <3>1, <3>2, BufferKept
  <2>4. ASSUME NEW piece \in Pieces, OnStringPart(piece) PROVE BufferInv'
    BY <2>4, BufferKept DEF OnStringPart
  <2>5. ASSUME NEW piece \in Pieces, OnString(piece) PROVE BufferInv'
    BY <2>5, BufferKept DEF OnString, EmitLeaf
  <2>6. CASE OnNumberPart
    BY <2>6, BufferKept DEF OnNumberPart
  <2>7. ASSUME NEW kind \in {"Int64", "Uint64", "Double"}, OnNumber(kind)
        PROVE  BufferInv'
    BY <2>7, BufferKept DEF OnNumber, EmitLeaf
  <2>8. ASSUME NEW kind \in {"Bool", "Null"}, OnWord(kind) PROVE BufferInv'
    BY <2>8, BufferKept DEF OnWord, EmitLeaf
  <2>9. CASE ParserFails \/ Return \/ UNCHANGED vars
    BY <2>9, BufferKept DEF ParserFails, Return, vars
  <2> QED
    BY <2>1, <2>2, <2>3, <2>4, <2>5, <2>6, <2>7, <2>8, <2>9 DEF Next
<1>3. VisitInv /\ BufferInv => BufferBounded
  <2> SUFFICES ASSUME VisitInv, BufferInv PROVE BufferBounded
    OBVIOUS
  <2>1. ToSet(containerKeys) = {containerKeys[i] : i \in 1..Len(containerKeys)}
    BY Typed, LenProperties DEF ToSet
  <2> QED
    BY <2>1 DEF BufferInv, BufferBounded
<1> QED
  BY <1>1, <1>2, <1>3, VisitInvariance, PTL DEF Spec

-----------------------------------------------------------------------------
\* What an event that opens no question of its own says: the value's name and
\* the number of containers around it.
LEMMA ToldOfValue ==
  ASSUME VisitInv, at \notin {"key", "failed"},
         NEW kind, kind \notin {"ObjectEnd", "ArrayEnd", "KeyPart", "Key"},
         NEW size, NEW next, Emit(Event(kind, pendingKey, size, depth), next)
  PROVE  /\ event'.kind = kind
         /\ event'.depth = Len(open)
         /\ event'.key = name
<1>1. depth = Len(open) /\ pendingKey = name
  BY DEF VisitInv, HandlerInv, HandlerTracksParser
<1> QED
  BY <1>1, Emitted DEF Event

\* What a step may tell the check.
TellsTruth ==
  LET kind == event'.kind IN
  IF kind \in {"ObjectEnd", "ArrayEnd"}
  THEN event' = Event(EndOf[Last(open).kind], Last(open).name,
                      Last(open).members, Len(open) - 1)
  ELSE /\ event'.depth = Len(open)
       /\ event'.key = IF kind \in {"KeyPart", "Key"} THEN <<>> ELSE name
       /\ kind = "Key" => event'.size = Len(name')

\* Every event tells the check the truth about the document, although the
\* handler sees only the callbacks (emit and its callers).
THEOREM EventsTellTruthHolds == Spec => EventsTellTruth
<1>1. VisitInv /\ [Next]_vars => [~ParserFails /\ ~Return => TellsTruth]_vars
  <2> SUFFICES ASSUME VisitInv, Next, ~ParserFails, ~Return PROVE TellsTruth
    BY DEF vars
  <2>1. ASSUME NEW kind \in {"Object", "Array"}, OnBegin(kind) PROVE TellsTruth
    <3>1. at \in {"value", "inside"}
      BY <2>1 DEF OnBegin, ValueMayStart, Inside
    <3>2. BeginOf[kind] \in {"ObjectBegin", "ArrayBegin"}
      BY DEF BeginOf
    <3>3. Emit(Event(BeginOf[kind], pendingKey, 0, depth), "inside")
      BY <2>1 DEF OnBegin
    <3> QED
      BY <3>1, <3>2, <3>3, ToldOfValue DEF TellsTruth
  <2>2. CASE OnEnd
    <3>1. /\ at = "inside"
          /\ event' = Event(EndOf[Last(open).kind], Last(containerKeys),
                            Last(open).members, depth - 1)
      BY <2>2, Emitted DEF OnEnd
    <3>2. /\ Len(open) \in 1..Len(open)
          /\ Last(open) \in Container
          /\ depth = Len(open)
          /\ containerKeys = [i \in 1..Len(open) |-> open[i].name]
          /\ Len(containerKeys) = Len(open)
      BY <3>1, Typed DEF VisitInv, HandlerInv, HandlerTracksParser
    <3>3. Last(containerKeys) = Last(open).name
      BY <3>2 DEF Last
    <3>4. EndOf[Last(open).kind] \in {"ObjectEnd", "ArrayEnd"}
      BY <3>2 DEF EndOf, Container
    <3>5. event'.kind = EndOf[Last(open).kind]
      BY <3>1 DEF Event
    <3> QED
      BY <3>1, <3>2, <3>3, <3>4, <3>5 DEF TellsTruth
  <2>3. ASSUME NEW piece \in Pieces, NEW kind \in {"KeyPart", "Key"}, OnKey(kind, piece)
        PROVE  TellsTruth
    <3>1. /\ at \in {"inside", "key"}
          /\ event' = Event(kind, <<>>, Len(text \o piece), depth)
          /\ kind = "Key" => name' = text \o piece
      BY <2>3, Emitted DEF OnKey, KeyMayStart, Inside
    <3>2. depth = Len(open)
      BY <3>1 DEF VisitInv, HandlerInv, HandlerTracksParser
    <3> QED
      BY <3>1, <3>2 DEF TellsTruth, Event
  <2>4. ASSUME NEW piece \in Pieces, OnStringPart(piece) PROVE TellsTruth
    <3>1. /\ at \notin {"key", "failed"}
          /\ Emit(Event("StringPart", pendingKey, Len(text \o piece), depth), "string")
      BY <2>4 DEF OnStringPart, ValueMayStart, Inside
    <3> QED
      BY <3>1, ToldOfValue DEF TellsTruth
  <2>5. ASSUME NEW piece \in Pieces, OnString(piece) PROVE TellsTruth
    <3>1. /\ at \notin {"key", "failed"}
          /\ Emit(Event("String", pendingKey, Len(text \o piece), depth), After(open))
      BY <2>5 DEF OnString, EmitLeaf, ValueMayStart, Inside
    <3> QED
      BY <3>1, ToldOfValue DEF TellsTruth
  <2>6. CASE OnNumberPart
    <3>1. /\ at \notin {"key", "failed"}
          /\ Emit(Event("NumberPart", pendingKey, 0, depth), "number")
      BY <2>6 DEF OnNumberPart, ValueMayStart, Inside
    <3> QED
      BY <3>1, ToldOfValue DEF TellsTruth
  <2>7. ASSUME NEW kind \in {"Int64", "Uint64", "Double"}, OnNumber(kind)
        PROVE  TellsTruth
    <3>1. /\ at \notin {"key", "failed"}
          /\ Emit(Event(kind, pendingKey, 0, depth), After(open))
      BY <2>7 DEF OnNumber, EmitLeaf, ValueMayStart, Inside
    <3> QED
      BY <3>1, ToldOfValue DEF TellsTruth
  <2>8. ASSUME NEW kind \in {"Bool", "Null"}, OnWord(kind) PROVE TellsTruth
    <3>1. /\ at \notin {"key", "failed"}
          /\ Emit(Event(kind, pendingKey, 0, depth), After(open))
      BY <2>8 DEF OnWord, EmitLeaf, ValueMayStart, Inside
    <3> QED
      BY <3>1, ToldOfValue DEF TellsTruth
  <2> QED
    BY <2>1, <2>2, <2>3, <2>4, <2>5, <2>6, <2>7, <2>8 DEF Next
<1> QED
  BY <1>1, VisitInvariance, PTL DEF Spec, EventsTellTruth, TellsTruth
=============================================================================
