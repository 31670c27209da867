------------------------------ MODULE Wrappers ------------------------------
(***************************************************************************)
(* What the items of a field that hold other items make of them, and what  *)
(* running a list of items does: rpcspec/FieldSpec.hpp, Section.hpp,       *)
(* IfType.hpp, WithCustomError.hpp and ServerConditional.hpp.  The nesting *)
(* of items is fixed when a spec is compiled: Inner runs the lists one     *)
(* level down, and Leaf an item that holds no others.                      *)
(***************************************************************************)
EXTENDS Validators

CONSTANTS Leaf(_, _, _), Inner(_, _, _)

IfServer(server, item, v) ==
  IF item.server = server THEN Inner(server, item.items, v) ELSE Passed(v)

IfType(server, item, v) ==
  IF Is(item.kind, v) THEN Inner(server, item.items, v) ELSE Passed(v)

\* processNested: a field of a section rewrites its own child of the value.
NestedField(server, f, v) ==
  LET nestedResult == Inner(server, f.items, Child(v, f.key))
  IN IF nestedResult.error # Fine THEN nestedResult
     ELSE Passed(Stored(v, f.key, nestedResult.value))

Section(server, item, v) ==
  IF Is("object", v)
  THEN Through(Len(item.fields), LAMBDA n, before : NestedField(server, item.fields[n], before.value),
               Passed(v))
  ELSE IF Present(v) THEN Failed("invalidParams") ELSE Passed(v)

WithCustomError(server, item, v) ==
  LET wrapped == Inner(server, <<item.inner>>, v)
  IN IF wrapped.error = Fine THEN wrapped ELSE Failed(item.code)

Process(server, item, v) ==
  LET name == item.item
  IN CASE name = "ifServer"        -> IfServer(server, item, v)
       [] name = "ifType"          -> IfType(server, item, v)
       [] name = "section"         -> Section(server, item, v)
       [] name = "withCustomError" -> WithCustomError(server, item, v)
       [] OTHER                    -> Leaf(server, item, v)

RunProcessors(server, items, v) ==
  Through(Len(items), LAMBDA n, before : Process(server, items[n], before.value), Passed(v))
=============================================================================
