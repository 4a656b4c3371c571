-------------------------------- MODULE Heap --------------------------------
(***************************************************************************)
(* The object heap of dexvm and the top-level entry points that use it:    *)
(* the growing arena with its free list (vm/object.rs), the mark-sweep     *)
(* collector (Vm::gc), the interning and mirror caches that hand out       *)
(* object ids (alloc_string, class_obj), and Context::{gc, call, invoke,   *)
(* invoke_on}, between which the guest runs and mutates the object graph.  *)
(*                                                                         *)
(* An object id is its arena index plus one, so Null is 0.                 *)
(***************************************************************************)
EXTENDS Integers, Sequences, FiniteSets

CONSTANTS
    AppClass,     \* classes whose instances the guest and the host create
    StringClass,  \* java.lang.String
    ClassClass,   \* java.lang.Class
    Field,        \* reference slots of an object: fields and payload edges
    Unreported,   \* the payload edges that collect_refs leaves out
    Lit,          \* string literals
    Reg,          \* the registers of the running guest code
    KeepsHandles, \* whether the host may hold a handle across a collection
    AfterLoss,    \* bound: whether a history goes on once it is no longer clean
    MaxSlots,     \* bound: slots the arena may grow to
    MaxFree,      \* bound: entries the free list may hold at the start of a gc
    MaxLock       \* bound: entries of one monitor

ASSUME HeapAssumption ==
    /\ MaxSlots \in Nat /\ MaxFree \in Nat /\ MaxLock \in Nat
    /\ StringClass \notin AppClass
    /\ ClassClass \notin AppClass
    /\ StringClass # ClassClass
    /\ Unreported \subseteq Field 
    /\ KeepsHandles \in BOOLEAN /\ AfterLoss \in BOOLEAN

VARIABLES
    objects,      \* Arena.objects: the slots, reclaimed ones included
    free,         \* Arena.free: a stack, the next slot to reuse is its last
    statics,      \* one static reference field per class
    strings,      \* string_objs and runtime_strings: literal -> String object
    classObj,     \* Class.class_obj: the cached java.lang.Class mirror
    monitors,     \* entry count per object, 0 when the key is absent
    lastInstance, \* Context.last_instance
    held,         \* the handle the host last obtained since a collection
    regs,         \* references the guest code holds while it runs
    phase,        \* idle, mark, sweep, enter (Context::call after gc) or run
    entry,        \* the host operation under way and its argument
    marks, grey,  \* the mark bits and the marking work list of Vm::gc
    next,         \* the next slot the sweep looks at
    clean         \* history: no collection has yet started with slots still
                  \* on the free list, nor Overlooked an object still named

heapVars == <<objects, free>>
rootVars == <<statics, strings, classObj, monitors>>
gcVars == <<marks, grey, next, clean>>
vars == <<objects, free, statics, strings, classObj, monitors, lastInstance,
          held, regs, phase, entry, marks, grey, next, clean>>

Null == 0
Id == 1..MaxSlots
Ref == Id \cup {Null}
Slots == 1..Len(objects)
Class == AppClass \cup {StringClass, ClassClass}
Nothing == "nothing"
JObject == [class : Class, fields : [Field -> Ref],
            native : Lit \cup AppClass \cup {Nothing}]
NoEntry == [op |-> "none", arg |-> Null]

FreeSlots == {free[i] : i \in 1..Len(free)}

\* What an object refers to: its fields, and the references its native payload
\* keeps and hands out again (a Response gives its prior response back).
References(id) == {objects[id].fields[f] : f \in Field} \ {Null}

\* collect_refs: what the collector is told of them. Response.prior and its
\* builder's, SFilter.options, JsonDecoder.module and the annotations of a
\* SerialDescriptor's elements are left out.
CollectRefs(id) == {objects[id].fields[f] : f \in Field \ Unreported} \ {Null}

Bare(c, nat) == [class |-> c, fields |-> [f \in Field |-> Null], native |-> nat]

\* Mutant: the interned strings are not seeded.
RootsWithoutStrings == ({statics[c] : c \in AppClass}
            \cup {id \in Slots : monitors[id] > 0} \cup {lastInstance}) \ {Null}

\* Mutant: the monitor keys are not seeded.
RootsWithoutMonitors == ({strings[l] : l \in Lit} \cup {statics[c] : c \in AppClass}
            \cup {lastInstance}) \ {Null}

\* The collector's seeds: strings, statics, monitor keys and last_instance.
\* class_obj is not one of them.
Roots == ({strings[l] : l \in Lit} \cup {statics[c] : c \in AppClass}
            \cup {id \in Slots : monitors[id] > 0} \cup {lastInstance}) \ {Null}

\* Everything guest or host code can name at this moment.
Named == (Roots \cup {held} \cup {regs[r] : r \in Reg}) \ {Null}

Init ==
    /\ objects = <<>> /\ free = <<>>
    /\ statics = [c \in AppClass |-> Null]
    /\ strings = [l \in Lit |-> Null]
    /\ classObj = [c \in AppClass |-> Null]
    /\ monitors = [i \in Id |-> 0]
    /\ lastInstance = Null /\ held = Null
    /\ regs = [r \in Reg |-> Null]
    /\ phase = "idle" /\ entry = NoEntry
    /\ marks = {} /\ grey = {} /\ next = 1 /\ clean = TRUE

-----------------------------------------------------------------------------
(* Arena *)

\* Mutant: the reused slot stays on the free list.
AllocWithoutPop(id, o) ==
    \/ /\ free # <<>>
       /\ id = free[Len(free)]
       /\ objects' = [objects EXCEPT ![id] = o]
       /\ UNCHANGED free
    \/ /\ free = <<>>
       /\ Len(objects) < MaxSlots
       /\ id = Len(objects) + 1
       /\ objects' = Append(objects, o)
       /\ UNCHANGED free

\* Mutant: the id of a fresh slot is one too large.
AllocOffByOne(id, o) ==
    /\ Len(objects) < MaxSlots
    /\ id = Len(objects) + 2
    /\ objects' = Append(objects, o)
    /\ UNCHANGED free

\* Arena::alloc: reuse the most recently reclaimed slot, else grow.
Alloc(id, o) ==
    \/ /\ free # <<>>
       /\ id = free[Len(free)]
       /\ objects' = [objects EXCEPT ![id] = o]
       /\ free' = SubSeq(free, 1, Len(free) - 1)
    \/ /\ free = <<>>
       /\ Len(objects) < MaxSlots
       /\ id = Len(objects) + 1
       /\ objects' = Append(objects, o)
       /\ UNCHANGED free

\* Arena::reclaim pushes the id whatever is already on the list.
Reclaim(id) == free' = Append(free, id)

\* Mutant: the reclaimed slots are not subtracted.
LiveCountOfSlots == Len(objects)

\* Arena::live_count: the subtraction of two lengths.
LiveCount == Len(objects) - Len(free)

-----------------------------------------------------------------------------
(* Collection: Vm::gc, run to completion before anything else happens. *)

\* Seeding the mark bits and the work list from the roots. The host may still
\* hold a handle, an argument of the call that collects or a result it kept:
\* the collector does not know of it.
GcStart ==
    /\ Len(free) <= MaxFree
    /\ marks' = Roots /\ grey' = Roots /\ next' = 1
    /\ phase' = "mark"
    /\ held' \in IF KeepsHandles THEN {held, Null} ELSE {Null}
    /\ clean' = (clean /\ free = <<>>)

\* The bound on histories: with AfterLoss FALSE the host goes no further once a
\* collection has overlooked something.
GoesOn == clean \/ AfterLoss

\* Context::gc called by the host.
HostGc ==
    /\ phase = "idle" /\ GoesOn
    /\ entry' = [op |-> "gc", arg |-> Null]
    /\ GcStart
    /\ UNCHANGED <<heapVars, rootVars, lastInstance, regs>>

\* Mutant: the references of a marked object are not marked.
GcMarkRootsOnly(id) ==
    /\ phase = "mark" /\ id \in grey
    /\ grey' = grey \ {id}
    /\ UNCHANGED <<heapVars, rootVars, lastInstance, held, regs, phase, entry,
                   marks, next, clean>>

\* Mutant: the work list is never popped.
GcMarkWithoutPop(id) ==
    /\ phase = "mark" /\ id \in grey
    /\ marks' = marks \cup CollectRefs(id)
    /\ grey' = grey \cup CollectRefs(id)
    /\ UNCHANGED <<heapVars, rootVars, lastInstance, held, regs, phase, entry,
                   next, clean>>

\* Popping one object off the work list and seeding what it refers to.
GcMark(id) ==
    /\ phase = "mark" /\ id \in grey
    /\ marks' = marks \cup CollectRefs(id)
    /\ grey' = (grey \ {id}) \cup (CollectRefs(id) \ marks)
    /\ UNCHANGED <<heapVars, rootVars, lastInstance, held, regs, phase, entry,
                   next, clean>>

\* What code can still name although neither a root nor a reported edge leads
\* to it: cached class mirrors, the host's handle, and what a kept object's
\* payload refers to in secret.
Overlooked ==
    ({classObj[c] : c \in AppClass} \cup {held}
       \cup UNION {{objects[id].fields[f] : f \in Unreported} : id \in marks}) \ {Null}

GcMarked ==
    /\ phase = "mark" /\ grey = {}
    /\ phase' = "sweep"
    /\ clean' = (clean /\ Overlooked \subseteq marks)
    /\ UNCHANGED <<heapVars, rootVars, lastInstance, held, regs, entry, marks,
                   grey, next>>

\* Every unmarked slot is reclaimed, the ones already reclaimed included.
GcSweep ==
    /\ phase = "sweep" /\ next <= Len(objects)
    /\ IF next \in marks THEN UNCHANGED free ELSE Reclaim(next)
    /\ next' = next + 1
    /\ UNCHANGED <<objects, rootVars, lastInstance, held, regs, phase, entry,
                   marks, grey, clean>>

\* monitors.retain, then back to the caller: Context::gc or Context::call.
GcDone ==
    /\ phase = "sweep" /\ next > Len(objects)
    /\ monitors' = [id \in Id |-> IF id \in marks THEN monitors[id] ELSE 0]
    /\ phase' = IF entry.op = "gc" THEN "idle" ELSE "enter"
    /\ entry' = IF entry.op = "gc" THEN NoEntry ELSE entry
    /\ marks' = {} /\ grey' = {} /\ next' = 1
    /\ UNCHANGED <<heapVars, statics, strings, classObj, lastInstance, held,
                   regs, clean>>

-----------------------------------------------------------------------------
(* Host entry points *)

\* Entering guest code with the receiver in one register, an argument in
\* another (the registers not assigned by make_regs hold Null).
Enter(this, arg) ==
    \E r \in Reg, s \in Reg :
        /\ r # s
        /\ regs' = [x \in Reg |-> IF x = r THEN this ELSE IF x = s THEN arg ELSE Null]
        /\ phase' = "run"

\* Context::call, up to the collection it runs first.
HostCall(c, isStatic) ==
    /\ phase = "idle" /\ GoesOn
    /\ entry' = [op |-> IF isStatic THEN "callStatic" ELSE "call", arg |-> c]
    /\ GcStart
    /\ UNCHANGED <<heapVars, rootVars, lastInstance, regs>>

\* Context::call after it: the retained instance is reused when its class is
\* the class called, otherwise a fresh one is allocated and retained. The
\* arguments are interned strings, or a handle the caller held all along.
CallEnter ==
    /\ phase = "enter" /\ GoesOn
    /\ UNCHANGED <<rootVars, held, entry, marks, grey, next, clean>>
    /\ \E arg \in {strings[l] : l \in Lit} \cup {held, Null} :
        \/ /\ entry.op = "callStatic"
           /\ Enter(Null, arg)
           /\ UNCHANGED <<heapVars, lastInstance>>
        \/ /\ entry.op = "call"
           /\ lastInstance # Null
           /\ objects[lastInstance].class = entry.arg
           /\ Enter(lastInstance, arg)
           /\ UNCHANGED <<heapVars, lastInstance>>
        \/ /\ entry.op = "call"
           /\ lastInstance # Null => objects[lastInstance].class # entry.arg
           /\ \E id \in Id :
                /\ Alloc(id, Bare(entry.arg, Nothing))
                /\ lastInstance' = id
                /\ Enter(id, arg)

\* Context::invoke on the retained instance; no collection.
HostInvoke ==
    /\ phase = "idle" /\ GoesOn /\ lastInstance # Null
    /\ entry' = [op |-> "invoke", arg |-> lastInstance]
    /\ \E arg \in {held, Null} : Enter(lastInstance, arg)
    /\ UNCHANGED <<heapVars, rootVars, lastInstance, held, gcVars>>

\* Context::invoke_on an object the host holds; no collection.
HostInvokeOn(obj) ==
    /\ phase = "idle" /\ GoesOn /\ obj \in {held, lastInstance} \ {Null}
    /\ entry' = [op |-> "invoke_on", arg |-> obj]
    /\ \E arg \in {held, Null} : Enter(obj, arg)
    /\ UNCHANGED <<heapVars, rootVars, lastInstance, held, gcVars>>

\* The bridge allocating an argument object straight in the arena.
HostAlloc(c) ==
    /\ phase = "idle" /\ GoesOn
    /\ \E id \in Id : Alloc(id, Bare(c, Nothing)) /\ held' = id
    /\ UNCHANGED <<rootVars, lastInstance, regs, phase, entry, gcVars>>

\* The entry returns v: invoke retains a non-String result, invoke_on its
\* receiver, call nothing more.
Return(v) ==
    /\ phase = "run"
    /\ v \in {regs[r] : r \in Reg} \cup {Null}
    /\ lastInstance' =
         IF entry.op = "invoke_on" THEN entry.arg
         ELSE IF entry.op = "invoke" /\ v # Null
              THEN IF objects[v].class # StringClass THEN v ELSE lastInstance
              ELSE lastInstance
    /\ held' = v
    /\ regs' = [r \in Reg |-> Null]
    /\ phase' = "idle" /\ entry' = NoEntry
    /\ UNCHANGED <<heapVars, rootVars, gcVars>>

\* The entry fails: Uncaught carries a throwable's id to the host.
Fail(v) ==
    /\ phase = "run"
    /\ v \in {regs[r] : r \in Reg} \cup {Null}
    /\ held' = v
    /\ regs' = [r \in Reg |-> Null]
    /\ phase' = "idle" /\ entry' = NoEntry
    /\ UNCHANGED <<heapVars, rootVars, lastInstance, gcVars>>

-----------------------------------------------------------------------------
(* Guest instructions that touch the heap *)

GuestFrame == UNCHANGED <<lastInstance, held, phase, entry, gcVars>>

\* NewInstance
GuestNew(r, c) ==
    /\ phase = "run"
    /\ \E id \in Id :
         Alloc(id, Bare(c, Nothing)) /\ regs' = [regs EXCEPT ![r] = id]
    /\ GuestFrame /\ UNCHANGED rootVars

\* ConstString through alloc_string: the interned object, created on first use.
GuestString(r, l) ==
    /\ phase = "run"
    /\ \/ /\ strings[l] # Null
          /\ regs' = [regs EXCEPT ![r] = strings[l]]
          /\ UNCHANGED <<heapVars, strings>>
       \/ /\ strings[l] = Null
          /\ \E id \in Id :
               /\ Alloc(id, Bare(StringClass, l))
               /\ strings' = [strings EXCEPT ![l] = id]
               /\ regs' = [regs EXCEPT ![r] = id]
    /\ GuestFrame /\ UNCHANGED <<statics, classObj, monitors>>

\* ConstClass through class_obj: the cached mirror, created on first use.
GuestClass(r, c) ==
    /\ phase = "run"
    /\ \/ /\ classObj[c] # Null
          /\ regs' = [regs EXCEPT ![r] = classObj[c]]
          /\ UNCHANGED <<heapVars, classObj>>
       \/ /\ classObj[c] = Null
          /\ \E id \in Id :
               /\ Alloc(id, Bare(ClassClass, c))
               /\ classObj' = [classObj EXCEPT ![c] = id]
               /\ regs' = [regs EXCEPT ![r] = id]
    /\ GuestFrame /\ UNCHANGED <<statics, strings, monitors>>

\* IGet and IPut of a reference, and the natives that read and store a payload's:
\* strings and class mirrors have neither.
GuestGet(r, s, f) ==
    /\ phase = "run" /\ regs[s] # Null /\ objects[regs[s]].class \in AppClass
    /\ regs' = [regs EXCEPT ![r] = objects[regs[s]].fields[f]]
    /\ GuestFrame /\ UNCHANGED <<heapVars, rootVars>>

GuestPut(r, s, f) ==
    /\ phase = "run" /\ regs[s] # Null /\ objects[regs[s]].class \in AppClass
    /\ objects' = [objects EXCEPT ![regs[s]].fields[f] = regs[r]]
    /\ GuestFrame /\ UNCHANGED <<free, rootVars, regs>>

\* SGet and SPut of a reference
GuestSGet(r, c) ==
    /\ phase = "run"
    /\ regs' = [regs EXCEPT ![r] = statics[c]]
    /\ GuestFrame /\ UNCHANGED <<heapVars, rootVars>>

GuestSPut(r, c) ==
    /\ phase = "run"
    /\ statics' = [statics EXCEPT ![c] = regs[r]]
    /\ GuestFrame /\ UNCHANGED <<heapVars, strings, classObj, monitors, regs>>

\* MonitorEnter and MonitorExit: counts per object, the exit saturating at 0.
GuestMonitorEnter(r) ==
    /\ phase = "run" /\ regs[r] # Null
    /\ monitors[regs[r]] < MaxLock
    /\ monitors' = [monitors EXCEPT ![regs[r]] = @ + 1]
    /\ GuestFrame /\ UNCHANGED <<heapVars, statics, strings, classObj, regs>>

GuestMonitorExit(r) ==
    /\ phase = "run" /\ regs[r] # Null
    /\ monitors' = [monitors EXCEPT ![regs[r]] = IF @ = 0 THEN 0 ELSE @ - 1]
    /\ GuestFrame /\ UNCHANGED <<heapVars, statics, strings, classObj, regs>>

GcStep == (\E id \in grey : GcMark(id)) \/ GcMarked \/ GcSweep \/ GcDone

HostStep ==
    \/ HostGc \/ CallEnter \/ HostInvoke
    \/ \E c \in AppClass, b \in BOOLEAN : HostCall(c, b)
    \/ \E obj \in Id : HostInvokeOn(obj)
    \/ \E c \in AppClass : HostAlloc(c)
    \/ \E v \in Ref : Return(v) \/ Fail(v)

GuestStep ==
    \E r \in Reg :
        \/ \E c \in AppClass : GuestNew(r, c)
        \/ \E l \in Lit : GuestString(r, l)
        \/ \E c \in AppClass : GuestClass(r, c)
        \/ \E s \in Reg, f \in Field : GuestGet(r, s, f) \/ GuestPut(r, s, f)
        \/ \E c \in AppClass : GuestSGet(r, c) \/ GuestSPut(r, c)
        \/ GuestMonitorEnter(r) \/ GuestMonitorExit(r)

Next == GcStep \/ HostStep \/ GuestStep

\* Nothing else runs while Vm::gc does: the collection is one call.
Spec == Init /\ [][Next]_vars /\ WF_vars(GcStep)

-----------------------------------------------------------------------------
(* Properties *)

\* Every id the program holds names an existing slot, so that no index into
\* the arena (objects[id as usize] throughout vm/) is out of range.
TypeOK ==
    /\ objects \in Seq(JObject) /\ Len(objects) <= MaxSlots
    /\ \A id \in Slots : References(id) \subseteq Slots
    /\ free \in Seq(Slots)
    /\ statics \in [AppClass -> Slots \cup {Null}]
    /\ strings \in [Lit -> Slots \cup {Null}]
    /\ classObj \in [AppClass -> Slots \cup {Null}]
    /\ monitors \in [Id -> Nat]
    /\ \A id \in Id : monitors[id] > 0 => id \in Slots
    /\ lastInstance \in Slots \cup {Null}
    /\ held \in Slots \cup {Null}
    /\ regs \in [Reg -> Slots \cup {Null}]
    /\ phase \in {"idle", "mark", "sweep", "enter", "run"}
    /\ entry \in [op : {"none", "gc", "call", "callStatic", "invoke", "invoke_on"},
                 arg : AppClass \cup Ref]
    /\ entry.op \in {"call", "callStatic"} => entry.arg \in AppClass
    /\ entry.op = "invoke_on" => entry.arg \in Slots
    /\ marks \subseteq Slots /\ grey \subseteq marks
    /\ next \in 1..(Len(objects) + 1)
    /\ clean \in BOOLEAN

\* What the collector can reach from a set of ids: the least set above it that
\* is closed under the edges collect_refs reports.
Closed(S) == \A id \in S : CollectRefs(id) \subseteq S
Reachable(from) ==
    {id \in Slots : \A S \in SUBSET Slots :
                      (from \subseteq S /\ Closed(S)) => id \in S}

\* What code can reach: the same, under every reference.
ClosedForCode(S) == \A id \in S : References(id) \subseteq S
Accessible(from) ==
    {id \in Slots : \A S \in SUBSET Slots :
                      (from \subseteq S /\ ClosedForCode(S)) => id \in S}

\* Until a collection starts with reclaimed slots still unused, or overlooks
\* an object still named, no object that guest or host code can get at, through
\* fields or through payloads, is on the free list, where Arena::alloc would
\* overwrite it: the roots, the marking, the sweep and the reuse of slots lose
\* nothing for any other reason.
ReachableIsNotFree == clean => Accessible(Named) \cap FreeSlots = {}

\* In the same histories live_count is the number of slots in use.
LiveCountExact == clean => LiveCount = Cardinality(Slots \ FreeSlots)

\* When Vm::gc starts to sweep, exactly the objects reachable from the roots
\* are marked, however often the heap has been collected before.
MarksAreReachable == phase = "sweep" => marks = Reachable(Roots)

\* In the same histories an interned literal keeps denoting its own string.
InternedIdentity ==
    clean => \A l \in Lit : strings[l] # Null =>
        /\ objects[strings[l]].class = StringClass
        /\ objects[strings[l]].native = l

\* A collection never forgets an entered monitor (monitors.retain in Vm::gc
\* drops nothing, the keys being roots).
GcKeepsMonitors == [][phase = "sweep" => monitors' = monitors]_vars

\* A collection that starts comes to its end.
GcTerminates == phase = "mark" ~> phase \notin {"mark", "sweep"}

\* The unqualified claim of object.rs: whatever code can reach is in use.
HandlesNeverDangle == Accessible(Named) \cap FreeSlots = {}

\* What collect_refs promises ("every object id referenced from this object"),
\* where it matters: an object the sweep keeps refers to kept objects only.
KeptRefersToKept == phase = "sweep" => \A id \in marks : References(id) \subseteq marks
=============================================================================
