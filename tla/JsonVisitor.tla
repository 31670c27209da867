---------------------------- MODULE JsonVisitor ----------------------------
(***************************************************************************)
(* JsonVisitor.hpp: the SAX handler that turns the callbacks of            *)
(* boost::json::basic_parser into events for the check of a message type,  *)
(* and visitJson, which runs the parser and settles the decision.          *)
(*                                                                         *)
(* The parser is external: it walks some document of its grammar, chosen   *)
(* as it goes along, splits keys, strings and numbers wherever it likes,   *)
(* and fails at any point.  at, open, name and text are its state, and     *)
(* what the document really says; the handler keeps depth, containerKeys   *)
(* and pendingKey, and never looks at them.  The check is the author's: it *)
(* may answer any event with any of CheckDecisions.                        *)
(***************************************************************************)
EXTENDS AdmissionSpec, SequencesExt

CONSTANTS
  Letters,         \* the characters keys and strings are made of
  CheckDecisions,  \* what the check may answer
  InvalidCost,     \* options.costForInvalidPayload
  MaxDepth,        \* options.maxDepth
  MaxArraySize, MaxObjectSize, MaxStringSize, MaxKeySize  \* VisitorOptions

ASSUME VisitorAssumption ==
  /\ {MaxDepth, MaxArraySize, MaxObjectSize, MaxStringSize, MaxKeySize} \subseteq Nat
  /\ InvalidCost \in Nat

VARIABLES
  at,             \* where the parser stands
  open,           \* the containers it is in: kind, name and members so far
  name,           \* the name of the member whose value is due or under way
  text,           \* what it has read of the current key or string
  depth,          \* depth_
  containerKeys,  \* containerKeys_
  pendingKey,     \* pendingKey_
  decision,       \* decision_, the check's most recent one
  event,          \* the last event handed to the check
  result          \* what visitJson returned

parser == <<at, open, name, text>>
vars == <<at, open, name, text, depth, containerKeys, pendingKey, decision, event, result>>

Event(kind, key, size, level) ==
  [kind |-> kind, key |-> key, size |-> size, depth |-> level]

NoEvent == Event("None", <<>>, 0, 0)
Running == [action |-> "Running", tokenCost |-> 0, reason |-> ""]

BeginOf == [Object |-> "ObjectBegin", Array |-> "ArrayBegin"]
EndOf == [Object |-> "ObjectEnd", Array |-> "ArrayEnd"]

Init ==
  /\ at = "value"
  /\ open = <<>> /\ name = <<>> /\ text = <<>>
  /\ depth = 0 /\ containerKeys = <<>> /\ pendingKey = <<>>
  /\ decision = Admit(0)
  /\ event = NoEvent
  /\ result = Running

-----------------------------------------------------------------------------
\* A piece of a key, a string, a number or a comment: some text, or none.
Pieces == {<<>>} \cup {<<c>> : c \in Letters}

\* A member may start inside a container that is not full: a key in an object,
\* a value in an array.
Inside(kind, limit) ==
  at = "inside" /\ Last(open).kind = kind /\ Last(open).members < limit

KeyMayStart == Inside("Object", MaxObjectSize)
ValueMayStart == at = "value" \/ Inside("Array", MaxArraySize)

\* The open containers once the member that starts here is counted.
Counted ==
  IF at = "inside" THEN [open EXCEPT ![Len(open)].members = @ + 1] ELSE open

\* Where the parser stands after a value, given what is still open.
After(stillOpen) == IF stillOpen = <<>> THEN "end" ELSE "inside"

\* emit: the check answers, and a drop makes the parser stop.
Emit(e, next) ==
  \E answer \in CheckDecisions :
    /\ decision' = answer
    /\ event' = e
    /\ at' = IF Dropped(answer) THEN "failed" ELSE next

\* A slip: a scalar leaves the key pending.
EmitLeafKeepsKey(kind, size) ==
  /\ Emit(Event(kind, pendingKey, size, depth), After(open))
  /\ name' = <<>>
  /\ text' = <<>>
  /\ UNCHANGED pendingKey

\* emitLeaf: a scalar takes the pending key with it.
EmitLeaf(kind, size) ==
  /\ Emit(Event(kind, pendingKey, size, depth), After(open))
  /\ pendingKey' = <<>>
  /\ name' = <<>>
  /\ text' = <<>>

-----------------------------------------------------------------------------
\* A slip: the key moved onto the stack is left pending too.
OnBeginKeepsKey(kind) ==
  /\ ValueMayStart
  /\ Len(open) < MaxDepth
  /\ open' = Append(Counted, [kind |-> kind, name |-> name, members |-> 0])
  /\ name' = <<>>
  /\ containerKeys' = Append(containerKeys, pendingKey)
  /\ depth' = depth + 1
  /\ Emit(Event(BeginOf[kind], pendingKey, 0, depth), "inside")
  /\ UNCHANGED <<text, pendingKey, result>>

\* on_object_begin and on_array_begin: beginContainer.
OnBegin(kind) ==
  /\ ValueMayStart
  /\ Len(open) < MaxDepth
  /\ open' = Append(Counted, [kind |-> kind, name |-> name, members |-> 0])
  /\ name' = <<>>
  /\ containerKeys' = Append(containerKeys, pendingKey)
  /\ pendingKey' = <<>>
  /\ depth' = depth + 1
  /\ Emit(Event(BeginOf[kind], pendingKey, 0, depth), "inside")
  /\ UNCHANGED <<text, result>>

\* A slip: the end of a container is reported before the depth is taken back.
OnEndTooDeep ==
  /\ at = "inside"
  /\ open' = Front(open)
  /\ containerKeys' = Front(containerKeys)
  /\ depth' = depth - 1
  /\ Emit(Event(EndOf[Last(open).kind], Last(containerKeys), Last(open).members, depth),
          After(Front(open)))
  /\ UNCHANGED <<name, text, pendingKey, result>>

\* on_object_end and on_array_end: endContainer.
OnEnd ==
  /\ at = "inside"
  /\ open' = Front(open)
  /\ containerKeys' = Front(containerKeys)
  /\ depth' = depth - 1
  /\ Emit(Event(EndOf[Last(open).kind], Last(containerKeys),
                Last(open).members, depth - 1),
          After(Front(open)))
  /\ UNCHANGED <<name, text, pendingKey, result>>

\* on_key_part and on_key.
OnKey(kind, piece) ==
  /\ KeyMayStart \/ at = "key"
  /\ Len(text \o piece) <= MaxKeySize
  /\ open' = Counted
  /\ pendingKey' = pendingKey \o piece
  /\ Emit(Event(kind, <<>>, Len(text \o piece), depth),
          IF kind = "KeyPart" THEN "key" ELSE "value")
  /\ IF kind = "KeyPart"
     THEN text' = text \o piece /\ name' = name
     ELSE text' = <<>> /\ name' = text \o piece
  /\ UNCHANGED <<depth, containerKeys, result>>

\* on_string_part keeps the pending key; on_string consumes it.
OnStringPart(piece) ==
  /\ ValueMayStart \/ at = "string"
  /\ Len(text \o piece) <= MaxStringSize
  /\ open' = Counted
  /\ text' = text \o piece
  /\ Emit(Event("StringPart", pendingKey, Len(text \o piece), depth), "string")
  /\ UNCHANGED <<name, depth, containerKeys, pendingKey, result>>

OnString(piece) ==
  /\ ValueMayStart \/ at = "string"
  /\ Len(text \o piece) <= MaxStringSize
  /\ open' = Counted
  /\ EmitLeaf("String", Len(text \o piece))
  /\ UNCHANGED <<depth, containerKeys, result>>

\* on_number_part keeps the pending key; on_int64, on_uint64 and on_double
\* consume it.
OnNumberPart ==
  /\ ValueMayStart \/ at = "number"
  /\ open' = Counted
  /\ Emit(Event("NumberPart", pendingKey, 0, depth), "number")
  /\ UNCHANGED <<name, text, depth, containerKeys, pendingKey, result>>

OnNumber(kind) ==
  /\ ValueMayStart \/ at = "number"
  /\ open' = Counted
  /\ EmitLeaf(kind, 0)
  /\ UNCHANGED <<depth, containerKeys, result>>

\* on_bool and on_null.
OnWord(kind) ==
  /\ ValueMayStart
  /\ open' = Counted
  /\ EmitLeaf(kind, 0)
  /\ UNCHANGED <<depth, containerKeys, result>>

\* The parser reports an error before the next callback: malformed or missing
\* input, a limit, data after the document, an exception of the check.
ParserFails ==
  /\ at # "failed"
  /\ result = Running
  /\ at' = "failed"
  /\ UNCHANGED <<open, name, text, depth, containerKeys, pendingKey,
                 decision, event, result>>

\* A slip: the error masks the drop that caused it.
ReturnErrorFirst ==
  /\ at \in {"end", "failed"}
  /\ result = Running
  /\ result' = IF at = "failed" THEN Drop("invalid", InvalidCost) ELSE decision
  /\ UNCHANGED <<at, open, name, text, depth, containerKeys, pendingKey,
                 decision, event>>

\* The end of visitJson: a drop wins over the error it caused.
Return ==
  /\ at \in {"end", "failed"}
  /\ result = Running
  /\ result' = IF Dropped(decision) THEN decision
               ELSE IF at = "failed" THEN Drop("invalid", InvalidCost)
               ELSE decision
  /\ UNCHANGED <<at, open, name, text, depth, containerKeys, pendingKey,
                 decision, event>>

Next ==
  \/ \E kind \in {"Object", "Array"} : OnBegin(kind)
  \/ OnEnd
  \/ \E piece \in Pieces : \/ \E kind \in {"KeyPart", "Key"} : OnKey(kind, piece)
                           \/ OnStringPart(piece)
                           \/ OnString(piece)
  \/ OnNumberPart
  \/ \E kind \in {"Int64", "Uint64", "Double"} : OnNumber(kind)
  \/ \E kind \in {"Bool", "Null"} : OnWord(kind)
  \/ ParserFails
  \/ Return

Spec == Init /\ [][Next]_vars

-----------------------------------------------------------------------------
Texts == Seq(Letters)

\* The values the variables range over.
TypeOK ==
  /\ at \in {"value", "inside", "key", "string", "number", "end", "failed"}
  /\ open \in Seq([kind : {"Object", "Array"}, name : Texts, members : Nat])
  /\ name \in Texts /\ text \in Texts
  /\ depth \in Int
  /\ containerKeys \in Seq(Texts)
  /\ pendingKey \in Texts
  /\ at = "inside" => open # <<>>

\* What the handler remembers is where the parser is: the depth, the names of
\* the open containers, and the name of the member under way (of which only a
\* part is known while the key is being read).
HandlerTracksParser ==
  at # "failed" =>
    /\ depth = Len(open)
    /\ containerKeys = [i \in 1..Len(open) |-> open[i].name]
    /\ pendingKey = IF at = "key" THEN text ELSE name

\* The handler's state as a whole, as the proofs carry it from step to step.
HandlerInv == TypeOK /\ HandlerTracksParser

\* Every event tells the check the truth about the document: a value and its
\* pieces carry the name of their member and the number of containers around
\* them, the end of a container repeats what its begin said, and a key counts
\* the characters read so far.
EventsTellTruth ==
  [][~ParserFails /\ ~Return =>
       LET kind == event'.kind IN
       IF kind \in {"ObjectEnd", "ArrayEnd"}
       THEN event' = Event(EndOf[Last(open).kind], Last(open).name,
                           Last(open).members, Len(open) - 1)
       ELSE /\ event'.depth = Len(open)
            /\ event'.key = IF kind \in {"KeyPart", "Key"} THEN <<>> ELSE name
            /\ kind = "Key" => event'.size = Len(name')]_vars

\* A drop of the check is the last thing it says and the answer given for the
\* payload, whatever error the parser then reports; and only a document read
\* to its end, with every container closed, is ever admitted.
VerdictSound ==
  /\ Dropped(decision) => at = "failed"
  /\ result # Running /\ Dropped(decision) => result = decision
  /\ result # Running /\ ~Dropped(result) => at = "end" /\ open = <<>>

\* What the handler buffers is bounded by the limits and not by the payload:
\* one key for every container it is in, and the pending one.
BufferBounded ==
  /\ Len(containerKeys) <= MaxDepth
  /\ \A key \in ToSet(containerKeys) \cup {pendingKey} : Len(key) <= MaxKeySize
=============================================================================
