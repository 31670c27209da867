------------------------------- MODULE Fields -------------------------------
(***************************************************************************)
(* The fields of a spec and what parsing a request by one does:            *)
(* rpcspec/Typed.hpp, RpcSpec.hpp and VersionedSpec.hpp.  A field is bound *)
(* to a member of the handler's Input, or only validated.  A parse is a    *)
(* record [error, root, input]: the code it fails with, the request as the *)
(* modifiers left it, and the members assigned so far.                     *)
(***************************************************************************)
EXTENDS Items, LedgerSelector, OverridePlan

Seqs == INSTANCE SequencesExt

\* A field whose items end in no converter, and the converter the ledger selector has.
Unbound == as("validate only")
Selector == as("ledgerSelector")

boundAs(key, member, items, conv) ==
  [key |-> key, member |-> member, items |-> items, conv |-> conv, alternate |-> key]

bound(key, items, conv)  == boundAs(key, key, items, conv)
validated(key, items)    == boundAs(key, key, items, Unbound)
ledgerSelector           == boundAs("ledger_index", "ledger", <<>>, Selector)

\* A field that a request may carry under another name.
alias(alternateKey, f) == [f EXCEPT !.alternate = alternateKey]

extend(base, extra) == base \o extra

\* The spec of an API version: the last one for a version out of range.
SelectedSpec(specs, apiVersion) ==
  IF apiVersion \in DOMAIN specs THEN specs[apiVersion] ELSE specs[Len(specs)]

----------------------------------------------------------------------------
\* A slip: the alternate name of a field not read.
OwnKey(f, root) == f.key

\* The key a field reads, its alternate one when the request carries that.
SelectedKey(f, root) == IF Present(Child(root, f.alternate)) THEN f.alternate ELSE f.key

TooManyFields(f, root) ==
  f.alternate # f.key /\ Present(Child(root, f.alternate)) /\ Present(Child(root, f.key))

\* A slip: the guards of a field not consulted.
NeverSkipped(server, f, root) == FALSE

Skipped(server, f, root) == SkipsField(server, f.items, root)

Processed(server, f, root) == RunProcessors(server, f.items, Child(root, SelectedKey(f, root)))

\* The request once the items of a field have rewritten it.
Rewritten(f, root, v) == Stored(root, SelectedKey(f, root), v)

\* A slip: no default given.
NotDefaulted(f, input) == input

\* The members a field assigns when the request leaves it out.
Defaulted(f, input) ==
  LET defaults == {item \in Seqs!ToSet(f.items) : item.item = "default"}
  IN IF defaults = {} THEN input ELSE [input EXCEPT ![f.member] = (CHOOSE d \in defaults : TRUE).value]

\* What a field makes of a parse that has gone well so far: its result assigned, what
\* follows its items, and the whole of it.
Refusal(parse, code) == [parse EXCEPT !.error = code]

Assigned(f, parse, result) ==
  IF result.error # Fine THEN Refusal(parse, result.error)
  ELSE [parse EXCEPT !.input[f.member] = result.value]

Converted(server, f, parse, v) ==
  IF f.conv = Unbound THEN parse
  ELSE IF Present(v) THEN Assigned(f, parse, Convert(server, f.conv, v))
  ELSE [parse EXCEPT !.input = Defaulted(f, parse.input)]

Settled(server, f, parse, processed) ==
  IF processed.error # Fine THEN Refusal(parse, processed.error)
  ELSE Converted(server, f, [parse EXCEPT !.root = Rewritten(f, parse.root, processed.value)],
                 processed.value)

ParseInto(server, f, parse) ==
  IF TooManyFields(f, parse.root) THEN Refusal(parse, "invalidParams")
  ELSE IF Skipped(server, f, parse.root) THEN parse
  ELSE IF f.conv = Selector THEN Assigned(f, parse, LedgerFromRequest(server, parse.root))
  ELSE Settled(server, f, parse, Processed(server, f, parse.root))

\* InputT out{}.
Blank(plan) == [member \in {f.member : f \in FieldsOf(plan)} |-> Unset]

Started(plan, request) == [error |-> Fine, root |-> request, input |-> Blank(plan)]

\* forEachEffectiveField: a key runs where it first stands.
Visited(server, effective, parse) ==
  IF effective.shouldRun THEN ParseInto(server, effective.field, parse) ELSE parse

\* A whole parse: the fields of a plan in order, up to the first that fails.
Parse(server, plan, request) ==
  Through(Len(plan), LAMBDA n, parse : Visited(server, plan[n], parse), Started(plan, request))

\* The fields a request is warned about: check() follows the same plan and guards.
Warnings(server, plan, request) ==
  {f \in FieldsOf(plan) :
     /\ f.conv \in {Unbound, Selector} \/ ~Skipped(server, f, request)
     /\ Warns(server, f.items, Child(request, SelectedKey(f, request)))}
=============================================================================
