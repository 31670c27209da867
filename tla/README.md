# A model of rpc-spec

rpc-spec is a header-only library with two halves that share nothing but their users. `admissionspec`
decides, before and while a payload is parsed, whether a connection may spend tokens on it. `rpcspec`
parses the request of an RPC handler against a spec and gives the handler a typed `Input`, on two servers
(Clio and xrpld) from one text. Paths below are relative to `src/include/`.

Both halves are modelled. The first is a system of threads that share state: its modules are state machines
with interleavings, and its safety is proved. The second is a pure function, large and full of rules that
constrain each other: its modules are operators translated from the code, and one state machine relates
the answer to one request to the answers to others.

## Inventory

### admissionspec

| component | state | operations | hard behaviour | what makes it correct |
|---|---|---|---|---|
| token bucket (`TokenBucket.hpp`, `folly/TokenBucket.hpp`) | one atomic `zeroTime_` | `consume`, `consumeOrDrain`, `consumeWithBorrowNonBlocking`, `returnTokens`, `available` | two loads and a compare-and-exchange loop, in two forms; spurious failures; times behind one another; debts run up between a look and the loop | a consume and a return look atomic, and a drain strays in one known way; no window is granted more than a burst and its refill; draws, debts and returns balance but for what a drain writes off; every call returns |
| connection limiter (`ConnectionLimiter.hpp`) | a bounded map of buckets and stamps behind a mutex | `admitPre`, `admit`, `onDisconnect`, `sweepIdle`, `size` | two critical sections per frame; `now` read before the mutex; eviction, sweep and disconnect between them | the cap holds; nobody spends beyond his budget while tracked; one connection never touches another's tokens; a silent connection is forgotten in the end |
| policy (`AdmissionSpec.hpp`, `Types.hpp`, `Resolver.hpp`) | a resolved bag of tunables | `costFor`, `preAdmit`, `resolve`, `makeChecker` | bounds of tiers, empty ramps, config against defaults | the price is that of the smallest tier that fits; an oversize payload still pays; an override is honoured |
| JSON visitor (`JsonVisitor.hpp`) | depth, pending key, keys of open containers, decision | the callbacks of a SAX parser, `visitJson` | keys and strings in pieces; drops that reach the parser as errors; exceptions | events tell what the document says; the verdict is the check's, or "invalid" |
| protobuf visitor (`ProtobufVisitor.hpp`) | offset | `visitProtobuf`, `visitPackedVarint`, `visitPackedFixed` | truncation at every byte, widths, overlong varints, wrap-around | the check is told what was sent; no span leaves the payload; a visit ends |
| passthrough visitor (`PassthroughVisitor.hpp`) | none | one call of the check | none | the answer of the check is the decision |

A server calls `limiter.admitPre<T>(conn, frame, now)`, which asks the policy for a price and debits
the bucket of the connection; then `limiter.admit<T>(conn, visitor, now)`, whose visitor feeds a fresh checker with
events and whose decision is charged, or applied as a penalty, in a second critical section.

### rpcspec

| component | state | operations | hard behaviour | what makes it correct |
|---|---|---|---|---|
| field views (`backends/BoostJson.hpp`, `Concepts.hpp`) | the request | `is`, `as…`, `child`, `element`, `set` | a read view and a write view of the same field; casts of integers | a modifier's rewrite is what the next reader reads |
| readers of texts (`detail/XrplParse.hpp`, `LedgerTypes.hpp`, `TxTypes.hpp`) | none | parse an account, an id, a time | C strings against whole strings; strict against lenient readers | a `…FromValidated` reader is only called on what a validator has read |
| validators, modifiers (`Validators.hpp`) | none | `verify`, `modify` | order of the items of a field; widths | see the properties |
| converters (`Converters.hpp`, `handlers/*/Spec.hpp`) | none | `parse` | rely on the validators before them | never throw; integers are exact |
| combinators (`Aliases.hpp`, `Section.hpp`, `IfType.hpp`, `WithCustomError.hpp`, `ServerConditional.hpp`, `FieldSpec.hpp`) | none | nesting, one server only, another code | nested items rewrite nested values | the two servers agree |
| ledger selector (`Ledger.hpp`) | none | one field from up to three keys | precedence and strictness differ between the servers | the two servers agree |
| engine (`Typed.hpp`, `RpcSpec.hpp`, `VersionedSpec.hpp`) | the `Input` under construction | plan, `parse`, `check` | a key defined twice; aliases; guards; defaults | a retightened field replaces exactly one; an alias is a renaming |
| 34 handler specs (`handlers/*/Spec.hpp`) | none | – | every combination above | every property below, for each of them |
| entry point (`HandlerFor.hpp`, `HandlerForDefs.hpp`) | none | `parseInput` | version out of range | as above |
| schema dump (`SpecDump*.hpp`, `dump` of `Typed.hpp`, `Ledger.hpp`) | the level of indentation | text of a spec | a second walk over the plan, with its own code for aliases, overrides and the selector | what it lists is what a parse reads |
| type-erased view (`RpcSpecView.hpp`) | none | forwards `process`, `check`, `dump` | none | not modelled |

`HandlerFor::parseInput` asks `VersionedSpec` for the spec of the version, builds the override plan, and runs each
effective field in turn: guard, alias, items (validators and modifiers, on the view of the request), converter,
member of the `Input`. The first Status ends the parse.

## Modules

| module | models | how it corresponds |
|---|---|---|
| `TokenBucket` | the arithmetic of `folly::TokenBucket` | one number `zeroTime`; operators named after the functions |
| `BucketCalls` | the calls on a shared bucket | a call is a record of what the caller is doing, its time and its cost; `Drawn` and `Stored` are the callbacks of the two loops, `RefusedAtOnce` the looks before them, `Continued` what follows a round |
| `AtomicTokenBucket` | what a shared bucket promises | abstract: a round of a call takes effect in one step (`TakeEffect`, `TakeNothing`); with `DrainsRace`, also the one step the code takes that no atomic call does (`WriteOff`) |
| `SharedTokenBucket` | `BasicDynamicTokenBucket` and `TokenBucketStorage`: consume, drain, borrow, return | one action per access of the atomic: `CheckBalance`, `Load`, `ExchangeSucceeds`, `ExchangeFails` |
| `ConnectionLimiter` | `ConnectionLimiter.hpp` | one action per critical section; the reading of the clock is a step before it |
| `AdmissionSpec` | decisions, ramps, `resolve`, `preAdmit` | pure operators |
| `AdmissionGate` | a server that prices payloads | `GateResolved` with a bag it resolved itself, `GateDefault` as `preAdmit<T>` does |
| `JsonVisitor` | the handler of the SAX parser and `visitJson` | one action per callback; the parser is the environment |
| `ProtobufVisitor` | the three decoding loops | one step per turn of a loop; `VisitWhole` is the passthrough visitor |
| `Json` | `BoostJsonFieldView` | a JSON value is a record with one field, named for its kind |
| `XrplTexts` | the readers of texts, those of libxrpl as external | a text is a name of a class; a reader is a function of classes |
| `Validators`, `Checks` | `Validators.hpp`; the validators of single handlers | an operator takes a value, gives a code and the value it leaves |
| `Converters` | `Converters.hpp` and the converters of single handlers | an operator gives a typed value, a code, or `Threw` |
| `Items` | items and their constructors, guards | a spec is data: an item is a record; `Leaf`, and `Verify` and `Modify` below it, interpret it |
| `Wrappers` | sections, conditionals, replaced errors | what an item makes of the items it holds, over the interpreter of the level below; `Items` instantiates it once per level of nesting |
| `ItemShapes` | what can be told of a list of items without running it | which items surely run on a field of a kind, which never rewrite it, which nested fields a section looks at; one level of nesting over the level below, as `Wrappers` |
| `SpecContracts` | what the items of a field owe its converter and its member | the tests `VouchedFor` asks of the items before each converter, which fields set a member and which bound it; assumptions about the tables, not code |
| `LedgerSelector` | `LedgerSelectorField` on both servers | operators named after the functions |
| `OverridePlan` | `buildOverridePlan`, `forEachEffectiveField` | which definition of a key runs, and where |
| `Fields` | fields, aliases, parse, warnings | `Parse` is a fold over the effective fields |
| `HandlerSpecs`, `LedgerEntrySpec` | the spec of every handler | one constant definition per handler: its versions, each a sequence of fields in the order of the code |
| `SpecDump` | the dump of a spec | an outline: a bullet is a text and the bullets below it |
| `HandlerFor` | `parseInput` | one request, `Accept` or `Refuse`; the properties compare it with other parses |

`MCSharedTokenBucket`, `MCConnectionLimiter`, `MCAdmissionGate`, `MCJsonVisitor`, `MCProtobufVisitor` and `MCHandlerFor`
hold the finite instances; `MCBorrowPromise` adds to the lock-free bucket the history of what borrowers were promised. `TokenBucketProofs`, `SharedTokenBucketProofs` (of the abstract bucket too), `ConnectionLimiterProofs`,
`AdmissionGateProofs`, `JsonVisitorProofs` and `HandlerForProofs` hold the theorems about the specifications they are named after, and `RequestProofs`
those about operators of `rpcspec`; `WrapperProofs` those about one level of wrappers. A definition whose comment begins "A slip:" is a
plausible bug of the definition after it: a property is only kept when a slip breaks it.

## Abstractions

- **Time and tokens** are integers. The code keeps `zeroTime` in seconds as a double; here it is kept in
  tokens (seconds times rate), so the arithmetic is exact and rounding is not modelled.
- **History variables**: `window`, `ledger`, `writtenOff`, `promised`, the fields `since`, `spent` and `latest` of an entry, `owed`, `seen`, and the
  name and the text the JSON parser really reads. None of them guards an action.
  Two are kept finite by a bound of their own: `seen` keeps the first `MaxSeen` events, and a debt of an account in `owed` beyond `MaxDebt` tokens is let go,
  which makes the account richer and `RefusalsEarned` harder to keep.
- **Message types.** The limiter is modelled with one: a second type on the same connection brings other prices and decisions, and those are
  arbitrary members of `Payloads` and `CheckDecisions` already.
- **The check of a message type** is arbitrary: any of a set of decisions, at every event. What the code compiles
  (`FixedString`, tuples of tunables, `static_assert`) has no state.
- **Widths**: the protobuf model takes the base of a varint digit and the number of bytes of a word as
  parameters; JSON integers have their four widths as parameters `MaxInt32 < MaxUint32 < MaxInt64 < MaxUint64`.
- **Texts** are names of the classes the readers tell apart: `"hex192~"` stands for a text of 48 hexadecimal digits
  followed by a NUL and more, `"huge"` for a decimal beyond 32 bits, `"hexNone"` for one that no width fits.
- **A Status is its code.** Wording is left out, and so is a `withCustomError` that changes wording alone.
- **A parse is one step.** It is a call of a function on a request it owns; nothing else can see it half done. The
  modifications it makes to the request are in the answer (`root`).
- **A dump** is an outline of names: the values of parameters are left out, and since the specs here merge neighbouring
  wrappers of one server and leave out wording, the number of its `custom` and `withCustomError` lines is not the code's.
- **Both builds in one model**: `kIsClioBuild` is a variable that never changes.

## Runs

| run | question | instance | what it shows |
|---|---|---|---|
| `shared_bucket` | do calls on the lock-free bucket look atomic, balance, and return? | 2 threads, 2 calls each of any of the four operations, capacity 2, rate 1, clock 1 to 3 | `OnlyDrainsStray`, `WindowBound`, `LedgerBound`, `SharedInv`, `CallsReturn` |
| `limiter_serial` | whom do eviction and sweep forget when sections run in order, what does it cost him, and are the silent forgotten? | 3 connections, map of 2, one thread, clock to 2, accounts in debt up to 2 | `RefusalsEarned`, `SweepSparesSeen`, `SweepForgivesNothing`, `EvictsQuietest`, `SilentIsForgotten` |
| `limiter_threads` | what survives when they do not? | 3 connections, map of 2, 2 threads, clock to 2, symmetric | `BudgetInv`, `SizeBounded`, `WithinBudget`, `DebtKept`, `OthersUntouched` |
| `admission_gate` | are payloads priced as the policy says? | every config of up to two tiers in either order, absent, and present without a tier; sizes 0 to 6 | `PricedByTightestTier`, `OversizePaysMost`, `NothingIsFree` |
| `json_visitor` | is the check told what the document says? | two levels, two members each, keys of up to two letters, every split | `HandlerInv`, `VerdictSound`, `BufferBounded`, `EventsTellTruth` |
| `protobuf_visitor` | the same for a protobuf message, and does a visit end? | messages of two fields, varints padded and overlong among them, packed fields of two elements, whole payloads; all cut at every byte. And every payload of up to four bytes out of eight values, by each loop | `ToldWhatWasSent`, `VisitEnds` |
| `handler_requests` | what does the answer to one request say of another? | 34 handlers, both servers, every version, requests one or two changes from an accepted one | the ten properties of `HandlerFor` |
| `config_ignored` | violation | as `admission_gate` | `ConfigHonoured` fails |
| `sweep_of_seen` | violation | 2 connections, 2 threads | `SweepSparesSeen` fails |
| `debt_written_off` | violation | 2 threads that drain and borrow, 2 calls each | `DebtRespected` fails |
| `visit_loops` | violation | messages of up to five bytes that begin with a tag that is passed over | `VisitReturns` fails |
| `mpt_id_with_nul` | violation | `book_offers` | `MptBranchUnreachable` fails |

### Bounds and why they are enough

- **Bucket.** Two threads and two calls each give every overlap of the looks, loads and exchanges of any two operations, with one
  thread's exchange failing because of the other. A consume of the whole bucket, a drain of more than it holds, a borrow
  that ends in debt and a return that overfills it are one request each. A second call of a thread starts
  on what the first left, so a debt run up between the look and the loop of a drain happens: `OnlyDrainsStray` with `DrainsRace` false fails here, and
  `debt_written_off` is where it hurts.
  `MaxTime` and `MaxCalls` bound the clock and the calls.
- **Limiter.** Three connections in a map of two is the smallest world in which an eviction has a choice. `IdleFor` times the
  rate is the capacity, where `SweepForgivesNothing` is tightest. With one thread the order of the sections is the
  order of their times, which its properties rely on (`sweep_of_seen` shows one of them fail without it); with two it is not.
  With one thread the clock runs to 2: a connection spends at 0, is evicted and comes back at 0 or 1 to a full bucket, is refused and served again, and whoever was silent since 0 is swept at 2.
  An account may owe a whole bucket.
- **Gate.** Sizes run over and one beyond every bound, caps lie below and above the ramp.
- **JSON.** Two levels are what it takes for a key to survive on the stack of keys while a nested container ends;
  two members for the second to start after the first. The limits of `basic_parser` are the bounds.
- **Protobuf.** Digits of three bits, bytes of four and words of eight keep varints of two bytes
  and wrap-around within reach. Tags, lengths and values need one or two bytes, as in the code; a padded varint
  goes on as far as the last group a word has room for, and one group beyond. Four arbitrary bytes hold a tag and a length of three digits, enough for a length
  that wraps; the values among them make every wire type, varints cut off and overlong, and lengths within and beyond the payload.
- **Requests.** For every handler a request it accepts, and around it: each key of the spec, and each key of each nested
  object, left out or replaced by each of a pool of about seventy values (every JSON kind, integers on both sides of every
  width, texts of every class, arrays of one, two and too many). Keys that read each other (`account` and
  `ident`, the ledger keys, an alias and its field) are varied together, and keys that some handlers read (`SharedKeys`) are given to all. Except for `ledger_entry`, whose keys name
  unrelated entries, any two keys are given any two of six values. The rules of the items concern one value or a pair of keys,
  so these changes reach every item with every class of value. The ledger
  selector is one definition in all specs and its keys are varied in `book_changes` alone. Version 0 stands for one out of range. Three
  widths of 1000, 2000, 4000 and 8000 keep the order of the real ones and of their halves.

`CHECK_DEADLOCK FALSE` is said where the bounds end the behaviour, or where there is nothing left to do: a payload is
visited once, a request is parsed once, the clock stops at `MaxTime`.

### Fairness

Three properties need it.

- `CallsReturn`. A thread inside a call keeps running: weak fairness of `CheckBalance`, `Load` and of
  the failing exchange. A weak exchange may fail spuriously but not for ever on a value that stays what it expects: strong
  fairness of `ExchangeSucceeds`. No fairness of the clock, of callers or of the observer is assumed. The calls of the other threads
  are finitely many, which `MaxCalls` says and the property needs: the loop is lock-free, not wait-free.
- `SilentIsForgotten`. A thread that has begun a frame or a sweep finishes it, and time passes: weak fairness of the critical sections and of `Tick`.
  That sweeps are begun at all is up to the server, whose code is elsewhere: nothing in the library calls `sweepIdle`, and
  strong fairness of `BeginSweep` by some thread is the assumption that the server does, again and again. The property says what a server that sweeps can rely on. Which frames arrive is not assumed.
- `VisitEnds` (and `VisitReturns`, which fails). A visit is a loop in one thread, which keeps running: weak fairness of `Next`.

### The properties of `HandlerFor`

They are relations between parses, since what one parse does is the definition itself.

- `NeverThrows`: no request reaches an accessor or a `…FromValidated` helper with a value it does not expect.
- `NormalFormStable`: the request as the modifiers left it is accepted again, as the same `Input`, with the same warnings, and is not changed again.
- `MembersPopulated`: a member that is not optional is set in every accepted `Input`.
- `IntegersAreExact`: an integer in the `Input` is the one the request spelled, at every depth.
- `VersionTwoTightensBools`: version 2 differs from version 1 in the bools it retightens and nowhere else.
- `ServersAgree`: a request both servers accept has the same `Input` on both, up to what xrpld leaves to its handlers.
- `AliasIsRenaming`, `IdentYieldsToAccount`: what two names of one field mean, together and alone.
- `SchemaListsWhatIsRead`: the schema dump lists a key once, and taking out of a request every key it does not list changes neither
  the answer nor the warnings, but for the `ledger` of xrpld (below).
- `LimitWithinPolicy`: a limit Clio hands over lies in the handler's range, and xrpld hands over no zero.

## Where code and documentation differ

1. `config_ignored`: `preAdmit<T>` and `makeChecker<T>` resolve the compile-time defaults
   (`admissionspec/AdmissionSpec.hpp:319`), so a frame that goes through `ConnectionLimiter` is never judged by a
   config, although the header says thresholds are overridable.
2. `sweep_of_seen`: `touchBucket` overwrites `lastSeen` with an older time (`admissionspec/ConnectionLimiter.hpp:170`), and a sweep then removes
   a connection seen within `idleFor`.
3. `visit_loops`: the end of a length-delimited field is computed as `pos + len`, which wraps for lengths near 2^64. Such a length passes the check of the bound
   (`admissionspec/ProtobufVisitor.hpp:217`), the span reported lies outside the payload (`:222`), and the offset (`:223`) can lead back to bytes already visited: a visit whose check admits
   them never returns, although the header names three things it returns (`:147`). `VisitEnds` says that there is no other way not to end.
4. `debt_written_off`: `consumeOrDrain` looks at the balance once (`admissionspec/folly/TokenBucket.hpp:389`) and reads it again in the loop, which takes
   the smaller of the cost and the balance and does not ask for its sign (`:393-396`). When a borrow has taken the tokens and run the bucket into debt in between, the
   drain draws a negative count, returns it, and leaves the bucket empty instead of in debt. A call made before the borrowed tokens have come in is then granted tokens, against `:423-424`:
   "any regular consume or consumeOrDrain calls will fail to allocate any tokens until the future time is reached". The same happens without a borrow when a call with a
   later time has emptied the bucket: measured at the drain's earlier time the balance is below zero, and tokens already granted come back.
5. `mpt_id_with_nul`: the branch called unreachable (`rpcspec/handlers/book_offers/Spec.hpp:64`) is reached by a text with a NUL,
   since the section reads it as a C string and the converter as a whole.

Noted while modelling, with no run of its own:

- Clio takes an `oracle_document_id` spelled as a text (`rpcspec/handlers/ledger_entry/Spec.hpp:1121-1125`) beside a
  comment that says it takes an unsigned integer only (`:1119-1120`).
- A packed `uint32_t` element from 2^31 on is reported as a negative number (`admissionspec/ProtobufVisitor.hpp:32`, `:321`), although the header says that the element type fixes
  the signedness (`:294`). `VisitPackedFixed` does as the code; the packed inputs `ToldWhatWasSent` is asked about are signed.
- A config array that is present but has no tier is treated as absent (`admissionspec/Resolver.hpp:48`), although the header says that an array is read if present (`:31-32`). What
  the code does is the safer of the two: `NothingIsFree` rests on it.
- The dump of the ledger selector (`rpcspec/Ledger.hpp:448`) lists `ledger_hash` and `ledger_index` so that the selector is discoverable, on both servers;
  xrpld also reads `ledger`, and of the shortcuts it shows (validated, current, closed) Clio takes `validated` alone.
- An item in `ifServerClio` or `ifServerXrpld` appears in a dump as `custom`, since the wrapper has neither a name nor sub-items.
- The visitors that decode drop the price of an admitting answer of the check, `visitPassthrough` keeps it.

And, smaller: a cap of zero still tracks one connection (`ConnectionLimiter.hpp:158-169`;
`SizeBounded` says so); a penalty larger than the balance is not taken at all (`:199`, as its comment says); a wire type that
is none of the known ones is skipped without an event (`ProtobufVisitor.hpp:185`); the shift in
`readVarint` is undefined from the eleventh byte on (`:109`; the model takes any word, and `ToldWhatWasSent` asks nothing of it).

## Proofs

All theorems hold for every value of the constants that the named assumptions allow: positive capacity and rate, costs, caps and
bounds that are natural numbers, bags and configs that are well formed (`GateAssumption`), limits of the
JSON parser that are natural numbers (`VisitorAssumption`), widths in the order of the real ones (`WidthsGrow`). Five theorems of the limiter have a hypothesis beside them, `OneThread`, and two of the bucket have `Undrained` (both below).

### The bucket

- **One round**. What a round may do to the bucket, whatever the operation: it raises `zeroTime` by at least what it draws (`StoredBounds`),
  a drain or a consume draws no more than a balance that never exceeds the capacity (`DrawnBounds`), what is left of a call is a call
  (`ContinuedCall`), and a refusal at the first look is one the loop would have made (`RefusalsAgree`).
- **The window bound** (`WindowBounded`). The tokens granted to calls made since some moment say nothing
  of the bucket by themselves. `WindowInv` adds what does: `zeroTime` has risen, from that of a bucket full when the window opened, by at least
  what was granted, and while only grants have moved it, it does not lie in the future of the clock. A grant made with a time behind the clock keeps it, because the
  balance is capped at the capacity. A debt, a return or a write-off of a drain closes the window: after any of them the bucket may grant more than a burst and its refill, and the
  bound promises nothing of it until an observer opens another.
- **The books** (`LedgerBounded`). The same invariant says that `zeroTime` has risen since the start by at least the ledger less what drains have written off: whatever
  is drained, borrowed, owed and handed back, what was drawn in all is at most a bucket, the refill, the debt on record and `writtenOff`. A write-off is booked there and nowhere
  else: nobody handed those tokens back.
- **Refinement in full** (`SharedStraysByDrains`). `AtomicTokenBucket` is instantiated twice. In `Atomic` calls take effect at one instant, and a drain of a bucket without tokens
  takes nothing. In `Racing` there is one more action, `WriteOff`. `SharedInv` says that a thread between load and
  exchange has something to draw from the value it expects. Then each step is a step of `Racing` or a stutter: a
  successful exchange is `TakeEffect`, since the value is still there, unless a drain finds a negative balance, when it is `WriteOff`; a load that draws nothing, or a first look that
  refuses, is `TakeNothing`. So the racing drain is the only way in which the lock-free bucket is not linearizable. The window bound and the books follow (`SharedWindowBounded`, `SharedLedgerBounded`).
- **Callers that neither drain nor borrow** (`Undrained`). Nobody reaches `WriteOff` then, and the bucket implements `Atomic` (`SharedImplementsAtomic`). Nobody runs it into debt either, so
  the books close without allowances: what is granted less what is given back is at most one burst and the refill (`NeverOverdrawnHolds`, from `NoDebt`: `zeroTime` is not ahead of the clock). This is how
  `admissionspec` uses the bucket, which consumes only. Neither theorem has a run of its own: `shared_bucket` is asked for `OnlyDrainsStray` and `LedgerBound`, which say the same of any call once nothing is
  written off and there is no debt.

### The limiter

- **The budget of a connection** (`ConnectionLimiterProofs!WithinBudgetHolds`). `BudgetInv` relates the bucket of an entry to the time
  it was created, the latest time it was touched with, and what was spent. It is stated per entry, so eviction, sweep and disconnect keep it by removing
  entries; a touch keeps it by creating a full one; a debit keeps it by `DebitBounds`. No order of the times is assumed.
- **The cap** (`SizeBoundedHolds`): the map is finite and makes room before it inserts.
- **What one step may do** (`DebtKeptHolds`, `OthersUntouchedHolds`). Both follow from `BudgetInv` and what a critical section does, stated once in
  `DebitEffect` for `charge` and `penalize` and in `StageEffect` for the actions around them: the connection of the frame gets an entry and pays from it, every other
  entry stays or, at most one of them and only of a full map, leaves.
- **One thread** (`SerialInvariance`, and from it `RefusalsEarnedHolds`, `SweepSparesSeenHolds`, `SweepForgivesNothingHolds`, `EvictsQuietestHolds`).
  `SerialInv` says that the stamp of an entry is the latest time a frame of it carried, that a bucket owes no more than the account
  that has paid for all its connection was granted, *or* was full at that stamp, and that no stamp lies after the time the thread has read. The second alternative is what an entry created after an
  eviction satisfies, and the account catches up with it as soon as it pays (`PaidAlike`); the last part makes it stay true, because a later time only makes a full bucket
  emptier by comparison (`FullLater`). It needs critical sections in the order of their times, hence `OneThread`; `sweep_of_seen` shows what two threads do to it.
  `RefusalsEarned` is not a comparison with a limiter that never forgets. Such a limiter refuses costs that this one grants out of a bucket re-created full, keeps its tokens, and may
  then grant a cost that this one refuses: of capacity 2 and rate 1, spend 2 at time 0, be evicted, ask for 2 at time 1 and for 1 after it. The account pays for what was granted, into
  debt when it must, so the property says that a refusal is always backed by tokens the connection did get: at the moment a frame is charged its bucket holds no less than the account does.
- **Types** (`TypeCorrect`, and the type invariants inside `SharedInv` and `WindowInv`).

### The gate

`GateInv` says that the last payload was decided by the bag the config resolves to and that the dearest price is that of a size within the cap. Beside
it stand facts about the walk over the ramp. `DecidingTier` finds the tier that decides, as the least of the positions that reach (a set of naturals
that is not empty has a least element, `LeastNatural`). On a ramp that ascends it is the tightest one (`PricedByTightestTierHolds`), a
larger payload never costs less (`LargerNeverCheaper`), so one beyond the cap pays the most (`OversizePaysMostHolds`). No
payload is free when no tier of the type and of the config is (`NothingIsFreeHolds`): resolution leaves the ramp a tier, and some tier prices every size (`SomeTierPrices`), those beyond the last one too.

### The JSON visitor

- `VisitInv` is `HandlerInv`, the agreement of the handler's stacks with the containers the parser is in, and that nothing is left over of the text or the name before: a key
  starts from nothing, so its pieces add up. A callback inside a member (`MemberStep`) keeps it; beginning and ending a container are inverse (`BeginStep`, `EndStep`).
- `VerdictInv` adds to `VerdictSound` that the parser has stopped before the visit answers, and that a document read to its end has nothing open.
- `BufferInv` bounds the buffer after a failure too, where `HandlerInv` says nothing: one key per open container, and a parser that opens no more than it may.
- `EventsTellTruthHolds`, an action property, follows from `VisitInv`: what the event carries is read from the handler, what it should carry from the document.

### Requests

What one item does to one value holds of every value, of every length and at every depth where it is applied (`RequestProofs`). The theorems that say most:

- **A validator vouches for its converter** (`TextsVouchedFor`, `ArraysVouchedFor`, `BooksVouchedFor`, `EntryPartsVouchedFor`, `OraclesVouchedFor`): a
  `…FromValidated` helper or an accessor behind a validator that has passed never throws. This is `NeverThrows`, pair by pair; below it is proved of whole requests.
  The only assumption about a value is that an array is a sequence and holds no absent value.
- **Integers** (`SpelledNumbersAreExact`, `BoundsSaturate`, `SelectorIsExact`): what `IntegersAreExact` checks, for each way a number takes into an `Input`, and for every width.
- **The ledger** (`SelectorNeverThrows`, `SelectorsAgree`): the selectors of the two servers are written apart, and name the same ledger when both accept and `ledger` is absent.
- **The override plan** (`KeysRunOnce`): each key runs once, first place, last definition. The two searches are over finite sets of positions, so no induction over the fields is needed.
- **Normal form** (`ModifiersSettle`): a modifier run again changes nothing, which is `NormalFormStable` modifier by modifier.

### Whole requests

`HandlerForProofs` is about `HandlerFor!Spec`, for any table of handlers and any requests. Seven assumptions say what the tables keep to beside
their types, and TLC evaluates them on the real ones: a spec is a sequence of fields (`SpecsAreVersioned`), fields with different keys share no name
(`NamesApart`), a guard names a field of the same spec and only a bound field has an alternate name (`OwnNames`); a request is an object of JSON values
(`CallsAreRequests`); the items of a field vouch for its converter (`ConvertersVouchedFor`), a member that is not optional is set by its fields
(`PlainMembersAreSet`), and a field bound to a limit ends in an item that bounds it (`LimitsAreBounded`), all three below.

- **A parse is its steps** (`ParseUnrolls`, `ParseStages`). A parse is a fold over the plan. It has a value after every step, each following from the one before; the
  existence of those values is the one induction needed, and the least step that had none would refute it (`AllStages`).
- **Two parses side by side** (`SameReadsSameParse`). Two plans whose fields are the same but for their names, and two requests that hold the same under paired
  names, give the same answer. A field reads and rewrites the request under its own names alone (`FieldFrame`, `ChildAfterWrite`), so requests that agree at the start agree as far as they are still to be read.
- **The schema is complete** (`SchemaIsComplete`). The plan runs each key once (`PlanRuns`), the dump walks the same plan (`DumpLists`), and what it lists is what a field reads;
  so a request and its restriction to the listed keys are walked side by side.
- **Aliases** (`AliasesRename`). A request that uses the other name is walked beside the renamed one; one that uses both names reaches the field with both still there
  (`UntilItsTurn`) and is refused, as no earlier field can take one of them away.
- **Nothing throws** (`NothingThrows`, which states `NeverThrows`). A converter calls accessors that throw on a value of another kind, and relies on the items before it; nothing
  in the types of a spec says which items those must be. `SpecContracts!VouchedFor` writes it down, converter by converter, for the server at hand: `asAccountIdVec` needs an
  `accountIdArray` that surely runs and a field no item rewrites, an `entry` a section that looks at each part with the test that part needs, and so on. The assumption
  `ConvertersVouchedFor` asks it of every field of every table on both servers. It speaks of the items of a spec and of no request, so TLC evaluates it in full on the specs of the
  34 handlers. The argument goes up from the leaves:
    1. a check or a modifier answers a code that is not an exception, whatever the value (`ChecksSafe`, `VerifySafe`, `ModifySafe`);
    2. one level of wrappers over a level of which this is known keeps it, and a list that passes has passed each test that surely runs, left alone what it never rewrites, and looked at
       each part of a section (`WrapperProofs`);
    3. the three levels of nesting are instances of that step (`Level0` to `Level2`, `ItemsRun`, `ItemsSafe`);
    4. so a converter that is vouched for does not throw on what the items have left (`ConvertSafe`, with one lemma per kind of converter, on the pairs of `RequestProofs`);
    5. a field finds the request as it was sent under its names, since no other field has one of them (`NamesApart`), so the value it reads is a value of JSON, and neither its items nor its converter throw
       (`FieldSafe`); a parse is a walk over such fields (`ParseSafe`).
- **What an accepted request leaves** (`FieldOutcome`, `AcceptedStages`). Each field that runs has one of five outcomes: it is skipped, is the selector, is not bound, has no value and puts its
  default, or puts the value it converted. No outcome adds a member or touches another (`MembersStay`, `OutcomeUnder`).
- **Members that are not optional** (`MembersAlwaysPopulated`, which states `MembersPopulated`). `PlainMembersAreSet` asks of a plan that each such member has a field that requires or defaults it, or two,
  the first guarded by the key of the second (`ident` beside `account` on xrpld). If the guard skips the first field, the second finds the key the guard saw, as no field
  between them has that name, so it sets the member (`SetInTheEnd`). Nothing sets it back: the converters of its fields never return an unset value (`ConvertersPopulate`).
- **Limits** (`LimitsWithinPolicy`, which states `LimitWithinPolicy`). `LimitsAreBounded` asks that the items of such a field, as they run on the server, hold a `clamp` or a `min` whose
  bounds lie in the range, with nothing behind it that rewrites the field, and that its default lies in the range. What passes the last bound is what the converter reads (`LastWord`, `ItemsWithin`), and
  it converts the number it reads (`NumberConverted`). Clio's bounds often stand inside an `IfServer`, so the argument is made at two levels of nesting.

### Model-checked only

- Liveness: `CallsReturn`, `SilentIsForgotten`, `VisitEnds`. What fails has a run only: the counterexamples of the five violations.
- `ToldWhatWasSent`. The conversions of the protobuf visitor are sums over the bytes of a word, and what the reference encoder writes is a sum over digits; that they agree is an induction over
  the number of bytes.
- `NormalFormStable`, `IntegersAreExact`, `VersionTwoTightensBools`, `ServersAgree` and `IdentYieldsToAccount`, as properties of whole parses. The theorems of `RequestProofs` prove most of them
  item by item. Each compares two runs of the items of the same field, or of two fields, on different values, servers or tables, and what makes them agree differs from field to
  field among some 240: for `NeverThrows`, `MembersPopulated` and `LimitWithinPolicy` it could be written down once, for these it would be the table again.

## Not modelled

- `reset`, `setCapacity` and the assignment of `folly::TokenBucket`, which the code declares not thread safe and which change the rate or throw the books
  away; the sleep of `consumeWithBorrowAndWait`, and the load that tells how long to sleep.
- Rounding of doubles.
- `AccountTypeValidator`, `LedgerEntryTypeValidator` and `LedgerIndexValidator` (`rpcspec/Validators.hpp:793-846`), which no spec names.
- The type-erased view of a spec, three function pointers that forward; what `consteval` refuses, and the concepts.
- The enumerations and structs of `handlers/*/Types.hpp` beyond the members of an `Input` and of its parts.
- When a server sweeps, and what it does with a refused frame: that code is elsewhere.
- Whether the text of an address, a currency or a time is well formed: libxrpl decides it, the model takes each answer.

## Plan

Written so far, in this order: bucket, limiter, policy, visitors, then the engine of `rpcspec` from the values up to the handlers; then every operation of the bucket
that threads may share, liveness of the limiter and of the protobuf visits, the passthrough visitor and the schema dump; then the proofs, from single items to whole requests, and last what the items of a field owe its converter and its member. Next:

1. the remaining properties of `HandlerFor` as theorems, field by field;
2. that the offset of the protobuf visitor never leaves a payload whose lengths do not wrap, and that every turn moves it.
