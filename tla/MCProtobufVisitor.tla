------------------------- MODULE MCProtobufVisitor -------------------------
(***************************************************************************)
(* Small instances of ProtobufVisitor for TLC, and a reference encoder:    *)
(* what the wire format makes of a message, written from the side of the   *)
(* sender.                                                                 *)
(***************************************************************************)
EXTENDS ProtobufVisitor, SequencesExt

\* The varint of n: its digits, the lowest first, marked but the last.
Varint(n) ==
  LET digits == CHOOSE k \in 1..MaxDigits :
                  n < Digit ^ k /\ (k = 1 \/ n >= Digit ^ (k - 1))
  IN  [i \in 1..digits |->
         ((n \div Digit ^ (i - 1)) % Digit) + (IF i < digits THEN Digit ELSE 0)]

LittleEndian(n, width) == [i \in 1..width |-> (n \div Byte ^ (i - 1)) % Byte]

\* The word that stands for a signed value.
AsWord(value, width) == IF value < 0 THEN value + Byte ^ width ELSE value

\* A sender may spin a varint out with groups that add nothing to its value.
Padded(varint, groups) ==
  IF groups = 0 THEN varint
  ELSE [varint EXCEPT ![Len(varint)] = @ + Digit]
         \o [i \in 1..groups |-> IF i < groups THEN Digit ELSE 0]

\* A field of a message: its number, its wire type, and its value, which is the
\* bytes of the body for a length-delimited one.
Encoded(f) ==
  Varint(8 * f.field + f.wire) \o
    CASE f.wire = 0 -> Padded(Varint(AsWord(f.value, Wide)), f.padding)
      [] f.wire = 1 -> LittleEndian(AsWord(f.value, Wide), Wide)
      [] f.wire = 5 -> LittleEndian(f.value, Narrow)
      [] f.wire = 2 -> Varint(Len(f.value)) \o f.value
      [] f.wire \in {3, 4} -> <<>>

\* A varint longer than a word has no value the receiver could rely on.
AnyScalar(field) == [field |-> field, kind |-> "Int64 of any value"]

Overlong(f) == f.wire = 0 /\ Len(Varint(AsWord(f.value, Wide))) + f.padding > MaxDigits

\* What a receiver is told of a field whose encoding starts at from; the marks
\* around a group say nothing of themselves.
Told(f, from) ==
  CASE f.wire = 2 ->
         <<Body(f.field, from + Len(Encoded(f)) - Len(f.value), Len(f.value))>>
    [] f.wire \in {3, 4} -> <<>>
    [] OTHER -> IF Overlong(f) THEN <<AnyScalar(f.field)>>
                ELSE <<Scalar(f.field, f.value)>>

Fields ==
  [field : {0, 5}, wire : {0}, value : {-128, -1, 0, 9, 127}, padding : {0}] \cup
  [field : {5}, wire : {0}, value : {3}, padding : {1, MaxDigits}] \cup
  [field : {0, 5}, wire : {1}, value : {-128, -1, 0, 9, 127}] \cup
  [field : {0, 5}, wire : {5}, value : {0, 15}] \cup
  [field : {0, 5}, wire : {2}, value : {<<>>, <<11>>, <<3, 0>>}] \cup
  [field : {5}, wire : {3, 4}, value : {<<>>}]

\* The inputs carry the reference: the events of the fields that are there in
\* full, and whether the payload ends with one of them.
Message(one, two) ==
  LET first == Len(Encoded(one))
      all   == Encoded(one) \o Encoded(two)
  IN  {[as |-> "message", bytes |-> SubSeq(all, 1, n),
        events |-> (IF n < first THEN <<>> ELSE Told(one, 0)) \o
                   (IF n < Len(all) THEN <<>> ELSE Told(two, first)),
        whole |-> n \in {0, first, Len(all)}] : n \in 0..Len(all)}

\* A packed field of two elements, of which the first n bytes are there.  A
\* rest too short for an element is malformed in a packed varint field only.
Packed(as, encode(_), values) ==
  LET one == encode(values[1])
      two == encode(values[2])
  IN  {[as |-> as, bytes |-> SubSeq(one \o two, 1, n),
        events |-> [i \in 1..(IF n < Len(one) THEN 0
                              ELSE IF n < Len(one \o two) THEN 1 ELSE 2) |->
                      Scalar(PackedField, values[i])],
        whole |-> as # "packedVarint" \/ n \in {0, Len(one), Len(one \o two)}] :
         n \in 0..Len(one \o two)}

Pairs(S) == [1..2 -> S]

WellFormedInputs ==
  UNION {Message(one, two) : one, two \in Fields}
  \cup {[as |-> "passthrough", bytes |-> bytes, whole |-> TRUE,
         events |-> <<Body(NoField, 0, Len(bytes))>>] : bytes \in {<<>>, <<3, 9>>}}
  \cup UNION {Packed("packedVarint", LAMBDA v : Varint(AsWord(v, Wide)), vs) :
                vs \in Pairs({-128, -1, 0, 7, 8, 127})}
  \cup UNION {Packed("int64", LAMBDA v : LittleEndian(AsWord(v, Wide), Wide), vs) :
                vs \in Pairs({-128, -1, 0, 127})}
  \cup UNION {Packed("int32", LAMBDA v : LittleEndian(AsWord(v, Narrow), Narrow), vs) :
                vs \in Pairs({-8, -1, 0, 7})}

\* A check that passes, charges, or drops.
Answers == {Admit(0), Admit(1), Drop("check", 2)}

\* The price a check sets on an event it admits is charged by the visitor that
\* has one event only; the others admit a message for nothing.
Admitted ==
  IF input.as = "passthrough" THEN {Admit(0), Admit(1)} ELSE {Admit(0)}

Agrees(event, told) ==
  \/ event = told
  \/ event.kind = "Int64" /\ told = AnyScalar(event.field)

\* The check is told what was sent, in order and nothing else; a visit it does
\* not end itself tells it everything, and drops the payload exactly when it
\* was cut off inside a field.  An overlong varint takes its own value with it
\* and nothing of what follows.  (Of any other bytes there is no sender to ask.)
ToldWhatWasSent ==
  "events" \in DOMAIN input =>
    /\ Len(seen) <= Len(input.events)
    /\ \A i \in 1..Len(seen) : Agrees(seen[i], input.events[i])
    /\ verdict \notin {Running, Drop("check", 2)} =>
         /\ Len(seen) = Len(input.events)
         /\ verdict \in IF input.whole THEN Admitted ELSE {Invalid}

\* Every payload of up to four bytes of these values, whoever made it.  Among
\* them are lengths that wrap, to the start of the payload too.
AnyBytes == {0, 1, 2, 3, 5, 8, 12, 15}
AnyInputs ==
  [as : {"message", "packedVarint", "uint32", "uint64"}, bytes : SeqOf(AnyBytes, 4)]

AllInputs == WellFormedInputs \cup AnyInputs

\* Payloads that begin with a tag that is passed over, among them one whose
\* length leads back to it: the visit goes to and fro between two offsets.
BehindOther ==
  [as : {"message"}, bytes : {<<3>> \o rest : rest \in SeqOf({2, 3, 11, 15}, 4)}]

\* A check that lets every event pass.
Passes == {Admit(0)}
=============================================================================
