------------------------------ MODULE SpecDump ------------------------------
(***************************************************************************)
(* The schema dump of a spec, a second walk over the plan a parse follows: *)
(* rpcspec/SpecDump.hpp, SpecDumpWriter.hpp and the dump members of        *)
(* Typed.hpp and Ledger.hpp.  A dump is an outline: a bullet is a text and *)
(* the bullets written one level deeper below it, and what stands at the   *)
(* margin is what says which field of the request the rest belongs to.     *)
(***************************************************************************)
EXTENDS Fields

\* A group writes its name, and its body one level deeper.
bulletGroup(name, body) == [text |-> name, below |-> body]

bullet(name) == bulletGroup(name, <<>>)
param(text)  == bullet(text)

\* The parameters an item describes itself by; the streams a server knows beside the
\* common ones go by another word on each server.
ParamsOf ==
  [ type |-> <<"of">>, min |-> <<"bound">>, minArrayLength |-> <<"bound">>,
    maxArrayLength |-> <<"bound">>, clamp |-> <<"lo", "hi">>, clampAs |-> <<"target">>,
    timeFormat |-> <<"format">>, notSupportedIf |-> <<"value">>, oneOf |-> <<"values">>,
    between |-> <<"lo", "hi">>, default |-> <<"value">>, nullAs |-> <<"value">>,
    ifAbsent |-> <<"key">>, ifType |-> <<"type">>, withCustomError |-> <<"message">>,
    kSubscribeStreamValidator |-> <<"oneOf", "others">> ]

describeParams(name) ==
  IF name \notin DOMAIN ParamsOf THEN <<>>
  ELSE [i \in DOMAIN ParamsOf[name] |-> param(ParamsOf[name][i])]

\* A wrapper of ifServer shows nothing of what it wraps; the other wrappers list it, Nested
\* being how the items one level down are written.
dumpItem(item, Nested(_)) ==
  LET name == item.item
  IN CASE name = "section" ->
            bulletGroup(name, [i \in DOMAIN item.fields |->
                                 bulletGroup(item.fields[i].key, Nested(item.fields[i].items))])
       [] name = "ifType"          -> bulletGroup(name, describeParams(name) \o Nested(item.items))
       [] name = "withCustomError" -> bulletGroup(name, describeParams(name) \o Nested(<<item.inner>>))
       [] name = "ifServer"        -> bullet("custom")
       [] OTHER                    -> bulletGroup(name, describeParams(name))

dumpNested(items, Nested(_)) == [i \in DOMAIN items |-> dumpItem(items[i], Nested)]

\* As deep as the specs nest their items.
dumpLeaves(items) == dumpNested(items, LAMBDA deeper : <<>>)
dumpInner(items)  == dumpNested(items, dumpLeaves)
dumpOuter(items)  == dumpNested(items, dumpInner)
dumpItems(items)  == dumpNested(items, dumpOuter)

dumpFieldSpec(f) == bulletGroup(f.key, dumpItems(f.items))

\* The converter of a bound field is listed below its items.
dumpBound(f) == bulletGroup(f.key, Append(dumpItems(f.items), bullet(f.conv.conv)))

\* A slip: the alternate name of an aliased field left out.
OwnNameOnly(f) == <<dumpBound(f)>>

dumpAliased(f) ==
  IF f.alternate = f.key THEN <<dumpBound(f)>>
  ELSE <<dumpBound(f), dumpBound([f EXCEPT !.key = f.alternate])>>

\* The selector lists two keys, on both servers.
dumpSelector ==
  << bulletGroup("ledger_hash", <<bullet("uint256Hex")>>),
     bulletGroup("ledger_index", <<bullet("uint32 or shortcut")>>) >>

dumpOne(f) ==
  IF f.conv = Selector THEN dumpSelector
  ELSE IF f.conv = Unbound THEN <<dumpFieldSpec(f)>> ELSE dumpAliased(f)

\* What a dump writes at each place of the plan.
dump(fields) ==
  LET plan == EffectiveFields(fields)
  IN [i \in DOMAIN plan |-> IF plan[i].shouldRun THEN dumpOne(plan[i].field) ELSE <<>>]

----------------------------------------------------------------------------
\* What a reader of a dump takes for the keys of a request, the texts at its margin.
Margin(written) == {place \in (DOMAIN written) \X {1, 2} : place[2] \in DOMAIN written[place[1]]}

KeyAt(written, place) == written[place[1]][place[2]].text

ListedKeys(written) == {KeyAt(written, place) : place \in Margin(written)}

ListedOnce(written) ==
  \A place, other \in Margin(written) :
    KeyAt(written, place) = KeyAt(written, other) => place = other
=============================================================================
