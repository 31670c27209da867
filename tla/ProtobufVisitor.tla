-------------------------- MODULE ProtobufVisitor --------------------------
(***************************************************************************)
(* ProtobufVisitor.hpp: the three loops that decode a serialized protobuf  *)
(* message, or the body of a packed field, and hand each value to the      *)
(* check.  One step here is one turn of a loop.  PassthroughVisitor.hpp,   *)
(* the visitor without a loop, is one step beside them.                    *)
(*                                                                         *)
(* Widths are parameters: a varint carries digits of base Digit, a byte    *)
(* has one bit more, and the code's uint64_t and size_t hold numbers below *)
(* Word.  Arithmetic on them wraps as in the code; what is undefined there *)
(* (a shift by the width or more) is any word here.                        *)
(***************************************************************************)
EXTENDS AdmissionSpec, FiniteSetsExt

CONSTANTS
  Digit,           \* 128: the base of a varint
  Wide, Narrow,    \* 8 and 4: bytes of the fixed-width fields
  Inputs,          \* what is visited: [bytes, as], among other fields
  CheckDecisions,  \* what the check may answer
  InvalidCost,     \* options.costForInvalidPayload
  MaxSeen          \* bound: the events the history keeps, the first ones

Byte == 2 * Digit
Word == Byte ^ Wide
Bytes == 0 .. Byte - 1

ASSUME ProtobufAssumption ==
  /\ {Digit, Wide, Narrow} \subseteq Nat \ {0}
  /\ Narrow <= Wide
  /\ {InvalidCost, MaxSeen} \subseteq Nat

VARIABLES
  input,    \* the payload, and the function that visits it (input.as)
  pos,      \* the offset of the next byte
  seen,     \* history: the first MaxSeen events handed to the check
  verdict   \* what the visit returned

vars == <<input, pos, seen, verdict>>

Running == [action |-> "Running", tokenCost |-> 0, reason |-> ""]
Invalid == Drop("invalid", InvalidCost)

Size == Len(input.bytes)

\* A scalar of a field, and a length-delimited one: a span of the payload.
Scalar(field, value) == [field |-> field, kind |-> "Int64", value |-> value]
Body(field, from, length) ==
  [field |-> field, kind |-> "Bytes", from |-> from, length |-> length]

Init ==
  /\ input \in Inputs
  /\ pos = 0
  /\ seen = <<>>
  /\ verdict = Running

-----------------------------------------------------------------------------
\* static_cast to the signed integer of the same width.
AsSigned(value, width) ==
  IF 2 * value >= Byte ^ width THEN value - Byte ^ width ELSE value

\* A slip: the bytes in the order of the network.
FixedBigEndian(p, width) ==
  MapThenSumSet(LAMBDA k : input.bytes[p + k + 1] * Byte ^ (width - 1 - k),
                0 .. width - 1)

\* memcpy of width bytes at p, little-endian.
Fixed(p, width) ==
  MapThenSumSet(LAMBDA k : input.bytes[p + k + 1] * Byte ^ k, 0 .. width - 1)

\* The digits that fit into a word before the shift reaches its width.
MaxDigits == CHOOSE k \in 1 .. Word : Digit ^ k >= Word /\ Digit ^ (k - 1) < Word

\* readVarint at p: what it may return with the offset behind the varint, and
\* nothing when the varint is truncated.
Varints(p) ==
  LET lastBytes == {q \in p .. Size - 1 : input.bytes[q + 1] < Digit}
      last      == Min(lastBytes)
      digits    == last - p + 1
      value     == MapThenSumSet(
                     LAMBDA k : (input.bytes[p + k + 1] % Digit) * Digit ^ k,
                     0 .. digits - 1) % Word
  IN  IF lastBytes = {} THEN {}
      ELSE [value : IF digits <= MaxDigits THEN {value} ELSE 0 .. Word - 1,
            next  : {last + 1}]

\* The check answers; a drop ends the visit.
Report(event, next) ==
  /\ seen' = IF Len(seen) < MaxSeen THEN Append(seen, event) ELSE seen
  /\ pos' = next
  /\ \E answer \in CheckDecisions :
       verdict' = IF Dropped(answer) THEN answer ELSE Running
  /\ UNCHANGED input

Turn(as) == verdict = Running /\ pos < Size /\ input.as = as

Refuse ==
  /\ verdict' = Invalid
  /\ UNCHANGED <<input, pos, seen>>

\* A tag, as the field number and the wire type behind it.
Tags == {[field |-> tag.value \div 8, wire |-> tag.value % 8, next |-> tag.next] :
           tag \in Varints(pos)}

-----------------------------------------------------------------------------
VisitVarint ==
  /\ Turn("message")
  /\ \E tag \in Tags : \E varint \in Varints(tag.next) :
       /\ tag.wire = 0
       /\ Report(Scalar(tag.field, AsSigned(varint.value, Wide)), varint.next)

\* Both fixed widths are read into a zeroed uint64_t and then made signed.
VisitFixed(wire, width) ==
  /\ Turn("message")
  /\ \E tag \in Tags :
       /\ tag.wire = wire
       /\ tag.next + width <= Size
       /\ Report(Scalar(tag.field, AsSigned(Fixed(tag.next, width), Wide)),
                 tag.next + width)

\* The end of the body is computed in a word.
VisitLen ==
  /\ Turn("message")
  /\ \E tag \in Tags : \E length \in Varints(tag.next) :
       /\ tag.wire = 2
       /\ (length.next + length.value) % Word <= Size
       /\ Report(Body(tag.field, length.next, length.value),
                 (length.next + length.value) % Word)

\* A slip: the offset stays behind the tag that is passed over.
VisitOtherStays ==
  /\ Turn("message")
  /\ \E tag \in Tags : tag.wire \in {3, 4, 6, 7}
  /\ UNCHANGED vars

\* The switch has no case for the wire types 3, 4, 6 and 7: the tag is passed
\* over and the next turn takes what follows for a tag.
VisitOther ==
  /\ Turn("message")
  /\ \E tag \in Tags : tag.wire \in {3, 4, 6, 7} /\ pos' = tag.next
  /\ UNCHANGED <<input, seen, verdict>>

\* A tag, or what it announces, is cut off.
MessageTruncated ==
  /\ Turn("message")
  /\ \/ Tags = {}
     \/ \E tag \in Tags :
          \/ tag.wire \in {0, 2} /\ Varints(tag.next) = {}
          \/ tag.wire = 1 /\ tag.next + Wide > Size
          \/ tag.wire = 5 /\ tag.next + Narrow > Size
          \/ /\ tag.wire = 2
             /\ \E length \in Varints(tag.next) :
                  (length.next + length.value) % Word > Size
  /\ Refuse

\* visitPackedVarint: the caller's field number is reported with each element.
PackedField == 1

VisitPackedVarint ==
  /\ Turn("packedVarint")
  /\ \E varint \in Varints(pos) :
       Report(Scalar(PackedField, AsSigned(varint.value, Wide)), varint.next)

PackedTruncated == Turn("packedVarint") /\ Varints(pos) = {} /\ Refuse

\* visitPackedFixed<T>: whatever the signedness of T, PackedTrait makes the
\* element a signed integer of its own width.
ElementWidth ==
  [uint32 |-> Narrow, int32 |-> Narrow, uint64 |-> Wide, int64 |-> Wide]

VisitPackedFixed(type) ==
  /\ Turn(type)
  /\ pos + ElementWidth[type] <= Size
  /\ Report(Scalar(PackedField,
                   AsSigned(Fixed(pos, ElementWidth[type]), ElementWidth[type])),
            pos + ElementWidth[type])

\* VisitEvent::fieldNumber of an event that has none.
NoField == Word - 1

\* visitPassthrough: one event for the whole payload, an empty one too, and
\* what the check answers is the decision, with its price.
VisitWhole ==
  /\ verdict = Running /\ input.as = "passthrough"
  /\ seen' = <<Body(NoField, 0, Size)>>
  /\ verdict' \in CheckDecisions
  /\ UNCHANGED <<input, pos>>

\* The loop is over: nothing is left, or nothing that holds a whole element.
Finish ==
  /\ verdict = Running /\ input.as # "passthrough"
  /\ \/ pos >= Size
     \/ /\ input.as \in DOMAIN ElementWidth
        /\ pos + ElementWidth[input.as] > Size
  /\ verdict' = Admit(0)
  /\ UNCHANGED <<input, pos, seen>>

Next ==
  \/ VisitVarint
  \/ VisitFixed(1, Wide)
  \/ VisitFixed(5, Narrow)
  \/ VisitLen
  \/ VisitOther
  \/ MessageTruncated
  \/ VisitPackedVarint
  \/ PackedTruncated
  \/ \E type \in DOMAIN ElementWidth : VisitPackedFixed(type)
  \/ VisitWhole
  \/ Finish

Spec == Init /\ [][Next]_vars

\* The visitor is a loop nobody interrupts.
FairSpec == Spec /\ WF_vars(Next)

-----------------------------------------------------------------------------
\* "@return The check's drop, a drop for a malformed payload, or admit.": a visit
\* returns, whatever the payload is.  The code does not keep this.
VisitReturns == <>(verdict # Running)

\* The payload announces, where the visitor stands, a body whose end is beyond
\* the largest word.
LengthWraps ==
  /\ Turn("message")
  /\ \E tag \in Tags : \E length \in Varints(tag.next) :
       tag.wire = 2 /\ length.next + length.value >= Word

\* A visit that meets no such length comes to its end, whatever other bytes the
\* payload is made of: a turn of a loop that does not end it moves the offset
\* forward.
VisitEnds == []~LengthWraps => VisitReturns
=============================================================================
