# A TLA+ verification of dexvm

dexvm is an interpreter for Dalvik bytecode, written in Rust. A host program
embeds it to run the extensions of the mihon/Tachiyomi manga readers: the
extension's own code runs in the interpreter, and what it expects of Android,
Java, Kotlin, okhttp, RxJava and jsoup is provided by natives written in Rust.

This directory holds TLA+ modules that model the core of that program, TLC
configurations that check them on small instances, and proofs, checked by
TLAPS, that hold for instances of every size. `PROJECT.json` maps each
definition to the lines it models and lists runs, mutants, hazards, findings
and theorems.

## 1. Inventory

A `Context` (context.rs) owns one `Vm` (vm/mod.rs) and is used by one thread.
A host call enters the interpreter; natives called by guest code may enter it
again; nothing else is concurrent. What is hard is therefore not threads but
re-entrancy, error paths that leave several activations at once by `?`, state
that is cached or half-built while other code runs, long sequences of legal
calls, and what a crash leaves in a file.

| component | state | operations | correct when | modelled by |
|---|---|---|---|---|
| heap and collector (vm/object.rs, `Vm::gc`) | arena slots, free list, interned strings, class mirrors, monitors, statics | alloc, reclaim, mark, sweep, guest reads and writes, `Context::{gc, call, invoke, invoke_on}` | what can be reached is never reused; marking is exact; interning keeps identity; collections end | `Heap` |
| interpreter (vm/interpret.rs) | frames, Rust activations, `recursion_depth`, `budget`, `clinit_state`, pending exceptions | run, push_frame, run_loop, step, unwind, ensure_class_initialized, call_target | exceptions reach the nearest handler; every error restores the state; every call returns | `Interp` |
| class table (vm/mod.rs, vm/class.rs) | classes, `class_by_desc`, `loading`, `host_natives`, dispatch tables, field offsets | ensure_class_*, load_dex_class, load_shim_class, register_native, resolve_target, is_assignable | supertypes first, each class once, dispatch and casts as declared, host APIs callable | `ClassTable` |
| preferences in memory (native/android/mod.rs, context.rs) | values per file and key, loaded flag, editors, update callback | get, edit, put, remove, clear, apply, commit, update_setting, seed, get_settings | acknowledged values survive, the last edit wins, the host hears of puts | `Preferences` |
| preferences file (native/android/mod.rs) | file, temporary file, directory entry | persist, load | a crash never tears the file; reported success is durable | `PrefsFile`, `DurableCell` |
| Keiyoushi bridge (keiyoushi.rs, native/keiyoushi.rs) | source handles, the running operation | sources, popular, latest, search, details, chapters, pages, filters, image_data, the coroutine entry points, preference_definitions | every operation is answered, by its own path or with the error that stopped it; handles stay valid | `Bridge`, `Sources` |
| okhttp (native/okhttp) | interceptor chains, clients, builders, messages | newCall, execute, enqueue, proceed, build, newBuilder, header operations | every interceptor before the host, no request without a grant, the last header written is the one read | `OkHttp`, `Messages` |
| RxJava (native/rx.rs) | items, error, callable and operators of an Observable | just, from, map, flatMap, toList, onError*, zip, concat, subscribe, first | an Observable denotes one stream | `Rx` |
| collections (native/java/util) | vectors, iterators and entries that are positions in them | add, remove, put, sort, iterator, next, entrySet, setValue | one entry per key, positions keep their meaning while nothing before them moves | `Containers` |
| permissions (permission.rs, context.rs) | grants | grant, revoke, has | deny by default, revoke is effective | `Capabilities`, `Permissions` |
| host classes and natives (vm/class.rs, native/) | SHIM_CLASSES, 111 native tables, cargo features | load on demand, alloc, throw, static fields, resolve | complete in every build: parents present, exceptions catchable, calls by name resolved | `ShimTable`, `NativesJava`, `NativesKotlin`, `NativesAndroid`, `NativesWeb`, `HostTables`, `Shims` |
| dex reader, text, time, JSON, protobuf, jsoup, crypto, manifest, CLI | little or none | parsing, formatting, conversion | as their formats say | not modelled |

Interactions. `Context::call` collects garbage when no frame is active, so the
interpreter leaving `frames` empty on every path (`IdleIsClean`) is what the
heap's collector relies on. The interpreter asks the class table for classes
while it executes; the class table runs no guest code while it
loads. `commit()` reports what `persist_shared_preferences` returned, so the
meaning of `acked` in `Preferences` is what `PrefsFile` shows of a reported
success. The bridge invokes methods of a source; these call okhttp, whose
chains invoke guest interceptors, which may call okhttp again; every path to
the network ends in the permission check. The bridge reads the Observables that
`Rx` describes, and its handles are the objects that `Sources` follows through
the collections of `Heap`. Containers call the guest's `equals`, `hashCode` and
comparators in the middle of their operations.

## 2. Modules

* `Heap`, `MCHeap`, `HeapProofs`. Arena and collector. `objects` and `free` are
  `Arena.objects` and `Arena.free`; an id is its index plus one and 0 is null.
  The collector's loop is split into `GcMark` (one object popped) and `GcSweep`
  (one slot), with `marks` and `grey` the mark bits and the work list. An
  object's fields and payload are reduced to the references in them. Those in
  `Unreported` are the payload edges that `collect_refs` leaves out and natives
  follow all the same (section 6). `held` is the handle the host last obtained;
  with `KeepsHandles` the host may use it after a collection, as `Context::call`
  does with the arguments its caller built. `clean` is true until a collection
  starts with reclaimed slots still unused or overlooks something: a cached class
  mirror, the handle the host kept, what an unreported edge of a kept object
  refers to. From then on the code may reuse slots that are in use.
* `Interp`, `MCInterp`, `InterpProofs`. The control of the interpreter. `stack`
  is the Rust call stack: activations of `run`, natives and initialisers.
  `frames` is `Vm.frames`. An instruction is reduced to what it does to control:
  continue, jump, throw, fail, call, read a static (which initialises the
  class), return. Natives choose freely whether to call back, throw, fail or
  return.
* `ClassTable`, `MCClassTable`, `ClassTableProofs`. The recursion of class
  loading is a stack of activations; one step resolves one superclass or
  interface, enters the class in the table, or fills it in, so that the
  half-linked states are visible. `world` is what dex files and built-in tables
  say and is chosen at the start.
* `Preferences`, `MCPreferences`, `PreferencesProofs`. Values, editors and host
  calls; a persist succeeds or fails as a whole here. `acked` records what the
  caller was told.
* `PrefsFile`, `PrefsFileProofs`. One persist, system call by system call, each
  of which may fail, with the page cache, the directory entry, kills and power
  losses around it. `MCPreferences` checks it beside the values: the initial
  state picks one of the two, and only its variables change afterwards.
* `DurableCell`. The abstract specification of a persisted value: a write takes
  effect or not, and once success is reported it survives every crash.
  `PrefsFile` is shown to implement it under the mapping at its end.
* `OkHttp` and `Bridge`. One thread of nested invocations: `stack` holds guest
  methods, interceptors and natives that wait; `result` is what the last one
  returned: a value, a throwable, or a VM error that guest code cannot catch.
  `OkHttp` has clients, `CallExecute`, `ChainProceed`, the pass-through stubs,
  the wrappers of a call (await, asObservable, enqueue), the natives that drop
  VM errors (`Lossy`) and the check in front of the host's callback. `sent` is
  history: the request the host got last, with the interceptor frames that were
  handling it. `Bridge` has each operation of the typed API as the
  sequence of methods it invokes, with its fallbacks, and the `HttpSource`
  defaults. Guest code may call, proceed, return or throw anything its API
  allows. What the readers copy out of a model object is reduced to whether it
  is an object of the kind they need. Headers and bodies are left to `Messages`.
* `Sources`, `MCSources`. Which source objects are alive: only `Context::call`
  collects, and of what the bridge holds only `last_instance` is a root.
* `Messages`. Headers of requests, responses and `Headers`, and their builders;
  `want` is history, the value last written under each name.
* `Rx`. An Observable is data; `RxEvaluated` is the code's loop over the
  operators, `Feed` its inner loops over the items. `RefStreams` is an independent
  definition of the stream an Observable denotes after each operator.
* `Containers`. A container is a vector. An operation that calls the guest is
  two steps, `ContBegin` (the copy is taken) and a commit, and whatever the
  callbacks do to the container happens between them.
* `Capabilities`, `Permissions`. The covering relation with
  its path and host matching, shared with `OkHttp`; the grant store with a
  history of the host's calls.
* `ShimTable`, `NativesJava`, `NativesKotlin`, `NativesAndroid`, `NativesWeb`.
  `SHIM_CLASSES` and the native tables, entry by entry, as sets. Kept of an entry
  is what loading and resolution look at: name, superclass, interfaces, whether
  it is an interface, classes of reference-typed static fields, feature; class
  and member. The function a native entry names, its static flag and the order
  of the tables are left out: no key is registered twice, so the order cannot
  be seen.
* `HostTables`. What these tables say in a build: which classes there are, what
  each extends, which class answers a call, what host code calls and throws.
* `Shims`. Loading classes from the tables, step by step, and making, throwing
  and reading objects by class name. `ShimsProofs` proves its properties from
  `HostTableFacts`, the facts of the tables they need.
* `Vectors`. `Vec::retain`, shared by `Containers` and `Messages`.
* `LibraryProofs`. The proofs about `Permissions`, `Sources`, `Rx`, `OkHttp` and
  `Bridge`, `Messages` and `Containers`, each from that module's own
  specification.
* `InductionFacts`. Induction and recursion over intervals of the naturals, as
  facts about sets and functions; the other proof modules extend it.
* `MCLibrary` puts these modules in one run: the initial state picks a subject,
  and only the variables of that subject change afterwards.

An operator introduced by the comment "Mutant:" is a plausible mistake in the
definition that follows it. It is used only to show that a property can fail.

## 3. Runs

| run | distinct states | question |
|---|---|---|
| `heap` | 674 000 | Does marking compute what `collect_refs` reports on every graph, does every collection end and keep the monitors, and is the free list disjoint from what can be reached? |
| `interp` | 453 000 | Do exceptions reach the nearest enclosing handler, does every error path restore frames, initialisation states and entry count, and does every host call return? |
| `classes` | 278 000 | In whatever order classes are asked for and natives registered, is the table sound, and does loading fail only for a cause in the dex files? |
| `prefs` | 187 000 | Do acknowledged settings survive failures and restarts, does the last edit win, does the host hear of every put? Does the persist routine implement a durable cell, and is the file never torn? |
| `library` | 908 000 | The modules from `OkHttp` on, one subject per behaviour: is every operation of the bridge answered with its own result or error, is a request at the host being handled by every interceptor up to the first retry, and covered by a grant, do handles, positions, headers and streams keep their meaning, and are the tables complete in every build? |
| `heap_dangle` | violation | "handles never dangle" (object.rs:1184): collecting twice in a row aliases slots. |
| `heap_payload` | violation | "every object id referenced from this object" (object.rs:877): what only an unreported payload edge refers to is swept. |
| `interp_handler` | violation | "the nearest enclosing handler" (interpret.rs:631): a stale pending exception is delivered instead. |
| `interp_depth` | violation | "each entry = one Rust stack level" (mod.rs:133): native paths of `run` leak an entry. |
| `classes_fields` | violation | "inherit super's offsets, then assign own" (mod.rs:546): a hiding field leaves the object one slot short. |
| `prefs_update` | violation | "Updates one setting" (context.rs:450): before the first load it drops the others. |
| `sources_handles` | violation | "arena id stable for the context lifetime" (keiyoushi.rs:36): a second `sources()` collects, and sources of the first are reclaimed. |

Bounds and why they are enough.

* `heap`: two slots, two registers, one field and one unreported payload edge
  per object, a host that may keep its handle across a collection, one
  application class, one literal, monitors entered at most once. Two slots give
  every shape of a graph that matters to marking: an edge, a self-loop, a cycle,
  an unreachable cycle, a chain from a root. `MaxFree = 0` lets a collection
  start only when no reclaimed slot is unused; the histories this leaves out are
  those in which `clean` is false, where only `TypeOK`, `MarksAreReachable` and
  `GcKeepsMonitors` say anything, and these are proved without the bound. The
  bound `AfterLoss = FALSE` ends a history in the same way once a collection has
  overlooked something. `heap_dangle` uses `MaxFree = 1`, `AfterLoss = TRUE` and
  no unreported edge, so that the collections themselves are what it refutes.
  The arena really stops growing at `MaxSlots`, a bound of the model, so a
  behaviour may end: deadlock is not checked.
* `interp`: 464 programs of two methods and an initialiser. They contain each way
  to throw (instruction, trap, native, callee, initialiser), each kind of
  handler (typed, unresolvable type, catch-all, several try items, none),
  handlers that end a try range exactly at the call, self and mutual recursion,
  loops, and calls of methods without code. Depth limit 2, budget 5 and Rust
  stack 4 let each limit be hit; a native calls back at most once.
* `classes`: five descriptors and 432 worlds: B extends A or A and B extend each
  other; J extends I, is a shim, or is undefined until the host registers a
  native; class constants lead nowhere, forward or back. Two natives, each
  registrable before, between and after the loads.
* `prefs`: one file, two keys and two values (interchangeable), one editor with
  up to two edits that is used again after apply. For the file: three contents,
  so that the one in the file, the one a crash would leave and the one being
  written can all differ.
* `library`. Permissions: eleven capabilities of all kinds, a link and a path
  with `..`, three host calls, which is a grant, a broader or narrower one, and
  a revoke. Sources: four objects, so that two calls of `sources()` can each
  return two. Rx: three operators, so that an error can be raised, pass one
  operator and be handled; Observables returned by callbacks have neither
  operators nor a callable of their own; at most two items to start with, and a
  callback that fails for the second of them. Bridge: one client with a stub
  (the code has three that are alike), an application and a network interceptor,
  one client without any; `MaxFuel = 2` guest calls per operation, which allows
  a retry, a call nested in an interceptor, and a call after a call; wrapped
  calls and natives that drop VM errors are entered by the source's own method,
  nested calls are plain `execute()`. The host starts with `allow_all()`, as
  `Keiyoushi` does, and revokes and grants between operations. Containers: two
  elements, two items, an operation inside an operation; iterators and entries
  are made outside callbacks. Messages: three objects, two headers each, one
  name in two cases. Shims: nine builds (no feature, each alone, okhttp with
  tachiyomi, all); `MaxAsked = 1`, so that each behaviour loads one of the 603
  classes the tables name into a fresh VM, and then what its static fields need;
  the proofs are for any number of loads. Host calls end, Observables are
  consumed and a builder has no more room: deadlock is not checked.

Fairness. `Heap` assumes weak fairness of the collector's steps: `Vm::gc` is one
uninterrupted loop. `Interp` (`FairSpec`) assumes weak fairness of everything
but the host's calls: the interpreter is a loop on one thread, and a native
returns; the natives in the repository wait for nothing but the host's
callbacks. `Bridge` (`BrFairness`) assumes weak fairness of the running
operation, guest code and bridge together: it is one synchronous call on the
host's thread, and `MaxFuel` stands for guest code that terminates. What the
host does between operations is not assumed. Nothing else assumes fairness.

## 4. Properties

* Heap: `ReachableIsNotFree`, `LiveCountExact` and `InternedIdentity` hold while
  `clean`; the first follows unreported edges too, so it says that nothing is
  lost in any other way than those `clean` names. `MarksAreReachable` compares
  the marks with reachability defined independently, as the least set closed
  under the edges that `collect_refs` reports; `GcKeepsMonitors`, `GcTerminates`.
  `KeptRefersToKept`, that the sweep keeps what kept objects refer to, is the
  documented promise of `collect_refs` that `heap_payload` refutes.
* Interp: `UnwindSound` computes from the frames at the throw which handler must
  run, by the order of the dex format, and compares the state after unwinding
  with it. Its proviso, that handlers begin with move-exception, is what
  `interp_handler` drops. `IdleIsClean`, `InitializingIsActive` and
  `EntriesWithinLimit` relate frames, initialisation states and the entry
  counter to the Rust stack. `EveryCallReturns` is liveness.
* ClassTable: `SupersFirst` is what lets the walks over the table do without
  bounds checks and cycle checks. `LoadedOnce`, `AssignableAsDeclared` and
  `LayoutSound` hold unless a class constant leads back to the class that
  declares it (`ConstantsSafe`); and as the code remembers only dex classes
  while they load, `LoadedOnce` leaves out shims that are their own supertypes
  (`ShimCycle`; the tables have none, which is part of `LoadsInEveryBuild`).
  `MethodsOfSupertypes`, `HostApiCallable` and `LoadFailsForCause` hold without
  a proviso, the last for the first failure.
* Preferences: `AckedSettingsSurvive` holds unless something was written between
  configuring the file and loading it; `LastEditWins` and `PutsAreMirrored`
  are action properties stated from the edits, not from the code's fold.
* PrefsFile: `NeverTorn` and the refinement `Atomic`.
* Bridge: `AllBeforeHost` and `HostReachedOnlyWithGrant` look at each request as
  the host gets it, whatever interceptors did to chain and URL on the way.
  `AllBeforeHost` asks that every interceptor of the client is on the stack, each
  waiting for the next, in the order they were added. Its proviso is that none of
  those on the way has proceeded before: after a retry the code skips
  interceptors (section 6), so nothing is claimed there.
  `NoErrorLost` follows VM errors from where they are raised to the answer. What
  it leaves out is named in `Survivable`: the three places where the bridge means
  to go on, one of them wider than it looks, and errors raised below a native
  that drops them (both in section 6). `EveryCallAnswered` is liveness.
* Sources: `LatestHandlesLive`; `AllHandlesLive` is the documented promise that
  `sources_handles` refutes.
* Rx: `RxMatchesStream` compares the loop with the stream, for Observables that
  materialise without an error. Two places where the code departs from the
  stream are left out by name: items before an error that a handler meets
  (`ErrorsComeFirst`), which the code drops, and a doOnTerminate action that
  throws (`QuietTerminate`).
* Containers: `MapKeysDistinct`, `PositionsStand`, with guest callbacks that use
  the container they are called for, as long as `equals` and `hashCode` return.
* Messages: `LastHeaderStands`, across all copies and in any case of letters.
* Permissions: `NothingBeyondGrants` is stated over the history of host calls.
* Shims: `LoadsInEveryBuild` (no cycle, no class loaded twice, no parent missing
  in some build), `HostCallsResolve` (what host code calls by name exists on
  what it is called on; of a source, all but `LeftToExtension`, 16 methods in no
  table of HttpSource, which the extension has to define), `ThrownIsCaught` (a
  native's exception is of the class it names and below Throwable).

## 5. Proofs

All proofs are for every value of the constants, under the named assumptions of
the modules, which TLC evaluates on the instances. The assumptions are types of
the constants and, where a proof needs more, facts the code has by
construction: an interceptor is none of the other pieces of code
(`InterceptorAssumption`), a header has a value (`HeaderAssumption`), Object is
no interface, has no supertypes and is defined (`ClassTableAssumption`).
`TablesAssumption` of `HostTableFacts` is of another kind: it is about the tables
as they are, without a parameter, and TLC evaluates it over all 64 choices of
features. `MCClassTable` extends that module for this purpose.

* `HeapProofs`. The inductive invariant is `TypeOK`, what marking guarantees of
  marks and work list in each phase (`MarkOK`), that a collection runs while
  no register holds a reference (`QuietOK`), that in clean histories the free
  list is without duplicates and nothing in use, unreported edges and the host's
  handle included, refers to it (`CleanOK`), and `InternedIdentity`. Reachability is
  a least fixed point, so the central lemmas say that closed sets that contain
  the roots contain what is reachable, and that marking ends with a closed set.
  Theorems: `TypeCorrect`, `MarkingExact`, `MonitorsKept`, `NoDangling`,
  `InterningSound`, `LiveCountIsExact`. `CollectionsAdvance` is the part of
  `GcTerminates` that needs no fairness: until a collection is over only its own
  steps happen, and each marks one more slot, or shortens the work list with
  the marks as they are, or moves on in the sweep.
* `InterpProofs`. `Core` relates the Rust stack to everything the code keeps
  beside it: a run entry that waits has fetched an instruction, an initialiser
  runs on behalf of a run, the outermost run found no frames, the counter is at
  least the number of runs, and state 1 is the initialisers on the stack. It
  gives `TypeCorrect` (no unsigned counter underflows), `HostCallsLeaveNothing`,
  `InitializersAreActive` and `DepthBoundsEntries`. `UnwindingSound` needs a
  second invariant, `LineInv`: unwind trusts the `err` and `pending` fields of
  every frame it meets, so the invariant says what they are in each place a
  frame can be (running, in `Vm.frames`, taken aside by a nested run, below a
  native, below an initialiser), and during an unwinding that the frames are a
  prefix of those at the throw and that the dropped ones do not catch.
  `FrameCatch` shows that the nested loops of unwind compute the first
  handler in the order of the dex format.
* `ClassTableProofs`. The invariant `FullInv` has four parts. `IInv`: types, and
  that the ids an activation obtained and the descriptors still to do add up to
  the dependencies of its class, without which `SupersFirst` is not inductive.
  `HierInv`: table and activations agree with the declared hierarchy, and each
  activation waits for the one above it. `RunInv`: `Vm.loading` is what failed
  loads left behind, all of it blocked, followed by the dex classes on the
  stack; this is what makes every failure of a clean history one with a cause.
  `SafeInv`: if constants are safe, unlinked classes are exactly those at work,
  fields are where the layout says, and no class is loaded twice. The parts are
  operators on the tables, so a step is a lemma about values. The walks over
  the hierarchy (`Assignable`, the method searches, `Closure`) are recursive
  functions and least closed sets; that they agree is proved by induction on
  ids, which `SupersFirst` makes decreasing. Theorems: `TypeCorrect`,
  `SupersComeFirst`, `HostApisStayCallable`, `FailuresHaveCauses`,
  `ClassesLoadedOnce`, `LayoutsSound`, `AssignableIsDeclared`,
  `MethodsFromSupertypes`.
* `PrefsFileProofs`. The invariant adds to `TypeOK` and `NeverTorn` what the
  routine has achieved at each of its steps (`Progress`): from the rename on
  the temporary file was whole and synced. `FileNeverTorn` follows, and
  `Refinement` maps every step to a step or a stutter of `DurableCell`.
* `PreferencesProofs`. `AckedSurvive` needs that a file not yet loaded has no
  values in memory (`UnloadedIsEmpty`). `LastEditDecides` and `HostMirrorsPuts`
  rest on what the fold over an editor's edits computes: for each key the last
  edit of it (`ReplayLast`). With `TypeCorrect`.
* `LibraryProofs`. `BridgeInv` says of each chain how the frames that handle its
  request lie on the stack (`PathsOK`). A native or an interceptor that has not
  yet proceeded is the innermost of them, and as long as the others have
  proceeded once they form a `Line`: next to each other, in the order of the
  client, up to the chain's position. This is what makes the frames at the host
  all of them. Further, each stage of an operation has at the bottom of the
  stack the code that its answer is read from, and a pending VM error is the
  result on its way, with no native below it that drops VM errors (`Lossless`),
  or was raised where the code goes on. Theorems: `HostNeedsGrant`,
  `ErrorsReachHost`, `InterceptorsSeeAll`. `MsgInv` compares the headers of
  every message and builder with its history (`HeadersStand`). `ContInv` adds to
  distinct keys and standing positions what the operations in progress still
  mean after the callbacks (`OneEntryPerKey`, `PositionsKept`). `SrcInv` adds
  what the last instance keeps alive (`LatestHandlesStayLive`).
  `NothingBeyondGrants` speaks of what the store allows; the inductive invariant
  `GrantsStand` speaks of the grants themselves, each of which is a standing
  entry of the history. The proof never opens `Covers`, so it does not depend on
  path and host matching, which need not be transitive for it
  (`NothingBeyondGrantsThm`). `ObservablesAreStreams` has a plain state
  invariant, that the Observable under construction is well formed; the argument
  is two inductions over data. Over the operators: an evaluation `Tracks` its
  stream, which means that the VM failed, or the loop was left with an error, or
  items and error are those of the stream so far. Over the items of one
  operator: what `Feed` has collected is what the streams of the items fed so
  far add up to, until the first that fails. `RxCallsReply`, its hypothesis,
  says that a callback returns, throws or fails in the VM, that no error has one
  of the three names the model uses for the absence of one, and that a callback
  of flatMap or onErrorResumeNext returns an Observable with a sequence of
  items. It speaks of every argument, so TLC cannot evaluate it; the callbacks
  of `MCLibrary` satisfy it.
* `ShimsProofs`. `ShInv`: classes in the table are there in this build and
  distinct; a load under way is of a class that the build has and that is not
  loaded; the parents it still needs are there, and nearer to Object than it is
  (`Height`, from the tables). Each load is nearer to Object than the load that
  waits for it by as many steps as they are apart, which is why none meets its
  own class, and why the last class defined is that of no other load.
  Theorems: `LoadsInEveryBuildThm`, `LoadsNestBounded` (`load_shim_class` nests at
  most seven deep), `HostCallsResolveThm`, `ThrownIsCaughtThm`.

Induction over data. The library's induction theorems have an operator as a
parameter, which the provers cannot instantiate. `InductionFacts` restates what
is needed with a set or a function in its place: a set that contains 0 and with
each number the next contains the interval; a step function has an iterate;
a definition by course of values has a solution. A recursive function of the
model is then shown equal to the one the lemma provides.

Only model-checked: liveness (`GcTerminates`, `EveryCallReturns`,
`EveryCallAnswered`), which needs fairness and ENABLED. Every other property of a
passing run is a theorem. That the facts in `TablesAssumption` hold is evaluated,
not proved: they are finite statements about tables of 603 classes.

## 6. Departures noticed while modelling

Besides the seven violations above, reading the code for the models showed the
following, which no run is about.

* Heap: the payload edges that `collect_refs` leaves out are Response.prior
  (object.rs:1007), ResponseBuilder.prior (1001), SFilter.options (1022),
  SerialDescriptor.element_annotations (1040) and JsonDecoder.module (1043);
  natives read them back, `response_prior_response` for one. Arguments that the
  caller of `Context::call` built are no roots of the collection it starts with,
  and may be reclaimed before the call. A second collection counts reclaimed
  slots again in its result, and `live_count` may then underflow. The mirror
  cached in `class_obj` is not a root, so a class's identity may change at a
  collection. `get_all_setting_definitions` scans slots that were reclaimed.
* Interpreter: frames pushed by `Flow::Call` do not count against `depth_limit`;
  the budget is never refilled over the life of a VM; an exception of `<clinit>`
  leaves past the handlers of the frame that triggered it; `new-instance` and
  direct constructors do not initialise the class, and initialising a class
  does not initialise its superclass.
* Classes: after a failed load the classes that waited stay in `loading`, so the
  next attempt reports a cyclic hierarchy; a class whose constant fails stays
  half-linked in the table. "A real DEX declaration always wins" (mod.rs:654)
  does not hold for `register_native` on a loaded class. `search_interfaces`
  looks at the interfaces of the receiver's class and not at those of its
  superclasses. Shims that are interfaces are not assignable to Object. Array
  classes are cached per dex file.
* Preferences: a removal is not reported to the host; seeding is overwritten by a
  later lazy load; editors keep their edits after apply; the callback does not
  say which file; a path without a directory part skips the directory sync.
* Bridge and okhttp: a `Resolution` error from anywhere below a fetch override
  is taken for a missing override, and the operation runs again through request
  and parse. An `UnsupportedOperationException` is meant to be taken for one too
  (keiyoushi.rs:435), but line 471 compares
  `Ljava/lang/UnsupportedOperationException;` with the dotted name that
  `class_desc_str` returns (vm/mod.rs:274), so it is answered as any other
  throwable. A second `proceed` on a chain (a retry) continues after the
  interceptors of the first attempt, as position and request belong to the
  chain, which all interceptors share: the new request reaches the host without
  the later interceptors having seen it, while keiyoushi.rs:1098 says that they
  "run exactly like in mihon". `response.newBuilder()` does not copy the body;
  `Request.Builder.headers(h)` adds to the headers instead of replacing them;
  `newBuilder()` of a client starts from the default stubs and forgets the
  client's interceptors.
* Natives that drop VM errors, a spent budget among them: `subscribe` and its
  kin, when `onError` of a failed Observable fails (rx.rs:306-313, 325-332);
  `java_equals`, `java_hash`, `java_cmp` and `to_string_of` (native/mod.rs:902-965),
  and with them whatever compares or prints elements; `launch` and `async`
  (kotlinx/coroutines.rs:93, 150); `thread` (kotlin/support.rs:92); the sorts, which
  keep the error of the last comparison only (arraylist.rs:398, arrays.rs:154,
  sequences.rs:159, java/util/collections.rs:41) or none (kotlin/collections.rs:66,
  855, 1323). The guest goes on in each case; its next instruction may then fail
  for the same reason.
* The bridge calls `getFilterList` (keiyoushi.rs:572) and `getMangaUpdate` (1052) on
  every source. HttpSource's native table has neither, so an extension that
  relies on a default gets a `Resolution` error.
* RxJava: an error leaves the loop at the first operator that handles no errors,
  and the handlers behind that operator are skipped. A handler replaces the items
  that came before the error too. `zip`, `combineLatest` and
  `concat` run their inputs when they are built and throw their errors.
* Collections: `java_equals` takes any failure of `equals` for false, a VM error
  too, and `java_hash` for 0, so a key whose `equals` fails may be stored twice.
  `list_remove_obj` and `set_remove` use a position found in a copy on the
  vector as it is after the callbacks: past its end `Vec::remove` panics. A set
  made from a list, or extended by `Collections.addAll`, keeps duplicates.
  `addAll(int, coll)` of a list is registered to the native of `addAll(coll)`.
  The map iterators of iterator.rs are never made.
* Host classes: two exceptions that natives throw,
  `kotlin.UninitializedPropertyAccessException` and
  `java.lang.NoSuchFieldException`, are in no table, and `throwable_of` makes an
  Object of them. Natives allocate objects of classes that no table has
  (rx.rs:284 `rx.Scheduler`, android/mod.rs:1637, 1697 and 1755,
  graphics.rs:713, serialization.rs:2039), which fails. The table has natives
  of `NoWhenBranchMatchedException` without an entry for the class, which then
  extends Object, and `CompressionInterceptor$DecompressionAlgorithm` as a class
  without a superclass.

## 7. Plan

Done: `Heap`, `Interp`, `PrefsFile` over `DurableCell`, `Preferences`,
`ClassTable`; then `Capabilities` and `Permissions`, `OkHttp` and `Bridge`,
`Sources`, `Rx`, `Containers`, `Messages`, `Shims` with its tables; proofs of
every safety property. Left:

1. An abstract specification of one bridge operation (one answer from one path,
   or one error) that `Bridge` implements, and the proof of it.
2. Array classes in `ClassTable`; buffers of okio and java.nio, which share a
   cursor; Lazy values and sequences.

## 8. Not modelled

For the host library beyond the modules above the tables are modelled and the
functions behind them are not. Not modelled are: parsing and formatting (dex,
binary XML, JSON, protobuf, HTML, dates, numbers, regular expressions),
arithmetic of individual instructions, cryptography, bitmaps, logging, and the
command-line tool: functions of their input without state that several steps
share. `Thread.start` runs its body at once on the caller's stack, and locks,
conditions and latches never block, so there are no guest threads to interleave.

