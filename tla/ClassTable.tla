----------------------------- MODULE ClassTable -----------------------------
(***************************************************************************)
(* The class table of dexvm (vm/mod.rs): classes are loaded on demand from *)
(* the dex files or from the host's shims, superclass and interfaces       *)
(* first; loading lays out fields and builds the dispatch table in which   *)
(* resolve_target finds methods; the host may register natives any time.   *)
(*                                                                         *)
(* The recursion of ensure_class_by_desc_id, load_dex_class and            *)
(* load_shim_class is a stack of activations, so that the tables can be    *)
(* looked at between its steps.  Of several dex files that define a class  *)
(* the first wins (class_location): a descriptor has one definition.       *)
(* Array classes are left out.                                             *)
(***************************************************************************)
EXTENDS Integers, Sequences, FiniteSets

CONSTANTS
    Desc,     \* class descriptors
    Object,   \* Ljava/lang/Object;
    Key,      \* method name and signature
    Field,    \* field name and type
    None,     \* Option::None
    Worlds,   \* the dex files and built-in tables to start from
    Offered,  \* natives the host may register
    MaxHost   \* bound: how many of them it registers

(***************************************************************************)
(* What the dex files and the host's static tables say of a descriptor:    *)
(* defined in a dex, a shim, or neither; const is the class named by an    *)
(* encoded static value, natives the built-in entries.                     *)
(***************************************************************************)
Impl == [kind : {"code", "abstract", "jni", "native"}, static : BOOLEAN]
Native == [key : Key, static : BOOLEAN]
Definition ==
    [src : {"dex", "shim", "none"}, super : Desc \cup {None}, ifaces : Seq(Desc),
     iface : BOOLEAN, fields : Seq(Field), methods : [Key -> Impl \cup {None}],
     const : Desc \cup {None}, natives : Seq(Native)]

ASSUME ClassTableAssumption ==
    /\ Object \in Desc /\ None \notin Desc \cup Impl
    /\ \A w \in Worlds :
         /\ w \in [Desc -> Definition]
         /\ w[Object].src # "none" /\ w[Object].super = None
         /\ w[Object].ifaces = <<>> /\ w[Object].const = None /\ ~w[Object].iface
    /\ Offered \subseteq [cls : Desc, native : Native] /\ MaxHost \in Nat

VARIABLES
    world,       \* fixed at the start
    classes,     \* Vm.classes
    byDesc,      \* Vm.class_by_desc, 0 for no class (class_by_type agrees)
    loading,     \* Vm.loading
    hostNatives, \* Vm.host_natives
    stack,       \* activations of load_dex_class and load_shim_class
    clean        \* history: no load has failed yet

vars == <<world, classes, byDesc, loading, hostNatives, stack, clean>>

Ids == 1..Len(classes)
Known(d) == byDesc[d] # 0
NoField == -1

Class == [desc : Desc, super : Nat, ifaces : Seq(Nat), iface : BOOLEAN,
          layout : Seq(Field), offsets : [Field -> Int],
          dispatch : [Key -> Impl \cup {None}], linked : BOOLEAN]

(* id is 0 until the class is in the table; todo are the descriptors still *)
(* to be resolved and got the ids of those that were.                      *)
Activation == [desc : Desc, todo : Seq(Desc), got : Seq(Nat), id : Nat]

(* shim_or_native *)
ShimOrNative(d) ==
    \/ world[d].src = "shim" \/ world[d].natives # <<>>
    \/ \E i \in 1..Len(hostNatives) : hostNatives[i].cls = d

(* The superclass, if there is one, then the interfaces.  Shims that are   *)
(* interfaces have no superclass.                                          *)
Super(d) ==
    IF world[d].super # None \/ world[d].src = "shim" \/ d = Object
    THEN world[d].super
    ELSE Object

(* Mutant: the superclass is looked up even if there is none. *)
DepsUnchecked(d) == <<world[d].super>> \o world[d].ifaces

Deps(d) == (IF Super(d) = None THEN <<>> ELSE <<Super(d)>>) \o world[d].ifaces

Init ==
    /\ world \in Worlds
    /\ classes = <<>>
    /\ byDesc = [d \in Desc |-> 0]
    /\ loading = <<>> /\ hostNatives = <<>> /\ clean = TRUE
    /\ stack = <<>>

-----------------------------------------------------------------------------
(* Loading *)

Last(s) == s[Len(s)]
Front(s) == SubSeq(s, 1, Len(s) - 1)

(* Mutant: the id is read after the class was pushed. *)
NewIdAhead == Len(classes) + 2

NewId == Len(classes) + 1

Activated(d) == [desc |-> d, todo |-> Deps(d), got |-> <<>>, id |-> 0]

InProgress(d) == \E i \in 1..Len(loading) : loading[i] = d

(* Every error leaves all activations by `?`: nothing is undone. *)
Fail ==
    /\ stack' = <<>> /\ clean' = FALSE
    /\ UNCHANGED <<classes, byDesc, loading>>

(* Mutant: the class being loaded is remembered only when it is done. *)
BeginUnguarded(s, d) ==
    IF world[d].src = "dex" \/ ShimOrNative(d)
    THEN stack' = Append(s, Activated(d)) /\ UNCHANGED <<classes, byDesc, loading, clean>>
    ELSE Fail

(* Mutant: a class only the host's natives define is not found. *)
BeginDexOnly(s, d) ==
    IF world[d].src = "dex" /\ ~InProgress(d)
    THEN /\ stack' = Append(s, Activated(d))
         /\ loading' = Append(loading, d)
         /\ UNCHANGED <<classes, byDesc, clean>>
    ELSE IF world[d].src = "shim"
    THEN stack' = Append(s, Activated(d)) /\ UNCHANGED <<classes, byDesc, loading, clean>>
    ELSE Fail

(* ensure_class_by_desc_id of a class that is not in the table, with the   *)
(* activations s waiting for it.                                           *)
Begin(s, d) ==
    IF world[d].src = "dex"
    THEN IF InProgress(d) THEN Fail
         ELSE /\ stack' = Append(s, Activated(d))
              /\ loading' = Append(loading, d)
              /\ UNCHANGED <<classes, byDesc, clean>>
    ELSE IF ShimOrNative(d)
    THEN stack' = Append(s, Activated(d)) /\ UNCHANGED <<classes, byDesc, loading, clean>>
    ELSE Fail

(* The host or the guest names a class; Object is loaded by Vm::new. *)
Load(d) ==
    /\ stack = <<>>
    /\ classes = <<>> => d = Object
    /\ IF Known(d) THEN UNCHANGED <<classes, byDesc, loading, stack, clean>>
       ELSE Begin(<<>>, d)
    /\ UNCHANGED <<world, hostNatives>>

Top == Last(stack)

(* The next descriptor is in the table. *)
Resolve ==
    /\ stack # <<>> /\ Top.todo # <<>>
    /\ Known(Head(Top.todo))
    /\ stack' = [stack EXCEPT ![Len(stack)] =
                   [Top EXCEPT !.todo = Tail(@), !.got = Append(@, byDesc[Head(Top.todo)])]]
    /\ UNCHANGED <<world, classes, byDesc, loading, hostNatives, clean>>

(* The next descriptor must be loaded first. *)
Descend ==
    /\ stack # <<>> /\ Top.todo # <<>>
    /\ ~Known(Head(Top.todo))
    /\ Begin(stack, Head(Top.todo))
    /\ UNCHANGED <<world, hostNatives>>

(* The class enters the table, still without fields and methods. *)
Enter ==
    /\ stack # <<>> /\ Top.todo = <<>> /\ Top.id = 0
    /\ LET d == Top.desc
           id == NewId
           hasSuper == Super(d) # None
       IN  /\ classes' = Append(classes,
                [desc |-> d,
                 super |-> IF hasSuper THEN Top.got[1] ELSE 0,
                 ifaces |-> IF hasSuper THEN Tail(Top.got) ELSE Top.got,
                 iface |-> world[d].iface,
                 layout |-> <<>>, offsets |-> [f \in Field |-> NoField],
                 dispatch |-> [k \in Key |-> None],
                 linked |-> FALSE])
           /\ byDesc' = [byDesc EXCEPT ![d] = id]
           /\ stack' = [stack EXCEPT ![Len(stack)] =
                [desc |-> d, id |-> id, got |-> <<>>,
                 todo |-> IF world[d].src = "dex" /\ world[d].const # None
                          THEN <<world[d].const>> ELSE <<>>]]
    /\ UNCHANGED <<world, loading, hostNatives, clean>>

Max(S) == CHOOSE i \in S : \A j \in S : j <= i

(* The entries for method k of d: built-in and global tables, the host's. *)
TableEntries(d, k) == {i \in 1..Len(world[d].natives) : world[d].natives[i].key = k}
HostEntries(d, k) ==
    {i \in 1..Len(hostNatives) : hostNatives[i].cls = d /\ hostNatives[i].native.key = k}
EntryKeys(d) == {k \in Key : TableEntries(d, k) \cup HostEntries(d, k) # {}}

(* The one registered last wins. *)
LastEntry(d, k) ==
    IF HostEntries(d, k) # {} THEN hostNatives[Max(HostEntries(d, k))].native
    ELSE world[d].natives[Max(TableEntries(d, k))]
AsNative(n) == [kind |-> "native", static |-> n.static]

(* The methods of a dex class win; entries fill the holes and implement    *)
(* the methods declared native.                                            *)
DexDispatch(d) ==
    LET ms == world[d].methods
    IN  [k \in Key |->
           IF /\ k \in EntryKeys(d)
              /\ \/ ms[k] = None
                 \/ ms[k].kind = "jni" /\ LastEntry(d, k).static = ms[k].static
           THEN AsNative(LastEntry(d, k))
           ELSE ms[k]]
ShimDispatch(d) ==
    [k \in Key |-> IF k \in EntryKeys(d) THEN AsNative(LastEntry(d, k)) ELSE None]

Layout(c) == IF c = 0 THEN <<>> ELSE classes[c].layout
Offsets(c) == IF c = 0 THEN [f \in Field |-> NoField] ELSE classes[c].offsets

(* Mutant: own fields are numbered from zero. *)
OwnOffsetsFromZero(c, fields) ==
    [f \in Field |->
       IF \E i \in 1..Len(fields) : fields[i] = f
       THEN (CHOOSE i \in 1..Len(fields) : fields[i] = f) - 1
       ELSE Offsets(c)[f]]

(* field_offsets of a class with superclass c and the given own fields. *)
OwnOffsets(c, fields) ==
    [f \in Field |->
       IF \E i \in 1..Len(fields) : fields[i] = f
       THEN Len(Layout(c)) + (CHOOSE i \in 1..Len(fields) : fields[i] = f) - 1
       ELSE Offsets(c)[f]]

(* Fields and methods are filled in, the activation returns. *)
Finish ==
    /\ stack # <<>> /\ Top.todo = <<>> /\ Top.id # 0
    /\ LET d == Top.desc
           c == classes[Top.id].super
           dex == world[d].src = "dex"
       IN  /\ classes' = [classes EXCEPT ![Top.id] =
                [@ EXCEPT !.layout = Layout(c) \o world[d].fields,
                          !.offsets = OwnOffsets(c, world[d].fields),
                          !.dispatch = IF dex THEN DexDispatch(d) ELSE ShimDispatch(d),
                          !.linked = TRUE]]
           /\ loading' = IF dex THEN Front(loading) ELSE loading
    /\ stack' = Front(stack)
    /\ UNCHANGED <<world, byDesc, hostNatives, clean>>

-----------------------------------------------------------------------------
(* Mutant: only classes loaded later see the native. *)
PatchedLater(h) == classes

(* The class of h, if it is already in the table, gets the method. *)
Patched(h) ==
    IF Known(h.cls)
    THEN [classes EXCEPT ![byDesc[h.cls]].dispatch =
            [@ EXCEPT ![h.native.key] = AsNative(h.native)]]
    ELSE classes

(* Vm::register_native *)
RegisterNative(h) ==
    /\ stack = <<>> /\ classes # <<>>
    /\ Len(hostNatives) < MaxHost
    /\ hostNatives' = Append(hostNatives, h)
    /\ classes' = Patched(h)
    /\ UNCHANGED <<world, byDesc, loading, stack, clean>>

Next ==
    \/ \E d \in Desc : Load(d)
    \/ Resolve \/ Descend \/ Enter \/ Finish
    \/ \E h \in Offered : RegisterNative(h)

Spec == Init /\ [][Next]_vars

-----------------------------------------------------------------------------
(* Reading the tables *)

Provides(c, k) == classes[c].dispatch[k] # None

(* resolve_target's walk up the superclasses; 0 when no class has the key. *)
FindInSupers(c0, k) ==
    LET find[c \in Ids] ==
          IF Provides(c, k) THEN c
          ELSE IF classes[c].super # 0 THEN find[classes[c].super]
          ELSE IF classes[c].iface THEN find[byDesc[Object]]
          ELSE 0
    IN  find[c0]

(* Mutant: interfaces that no other class implements are searched too. *)
SearchInterfacesAll(c0, k) ==
    LET hits == {c \in Ids : classes[c].iface /\ Provides(c, k)}
    IN  IF hits = {} THEN 0 ELSE Max(hits)

(* search_interfaces: the interfaces of c0 itself, the last declared first *)
(* and each with its own superinterfaces before the next.                  *)
SearchInterfaces(c0, k) ==
    LET search[c \in Ids] ==
          LET is == classes[c].ifaces
              hits == {j \in 1..Len(is) : search[is[j]] # 0}
          IN  IF Provides(c, k) THEN c
              ELSE IF hits = {} THEN 0 ELSE search[is[Max(hits)]]
    IN  search[c0]

(* The class whose method an invoke on an object of class c0 runs. *)
ResolveTarget(c0, k) ==
    IF FindInSupers(c0, k) # 0 THEN FindInSupers(c0, k) ELSE SearchInterfaces(c0, k)

(* Mutant: only the interfaces of the class itself count. *)
IsAssignableShallow(c0, t) ==
    LET up[c \in Ids] == c = t \/ (classes[c].super # 0 /\ up[classes[c].super])
    IN  up[c0] \/ \E j \in 1..Len(classes[c0].ifaces) : classes[c0].ifaces[j] = t

(* is_assignable, within its limits on depth. *)
IsAssignable(c0, t) ==
    LET assignable[c \in Ids] ==
          \/ c = t
          \/ \E j \in 1..Len(classes[c].ifaces) : assignable[classes[c].ifaces[j]]
          \/ classes[c].super # 0 /\ assignable[classes[c].super]
    IN  assignable[c0]

(* The fields new-instance allocates. *)
FieldsOf(c) == {f \in Field : Offsets(c)[f] # NoField}
NewInstanceSlots(c) == Cardinality(FieldsOf(c))

-----------------------------------------------------------------------------
(* Properties *)

(* The tables have the shape of their Rust counterparts. *)
TypeOK ==
    /\ world \in Worlds
    /\ classes \in Seq(Class) /\ byDesc \in [Desc -> Nat]
    /\ loading \in Seq(Desc) /\ hostNatives \in Seq(Offered)
    /\ stack \in Seq(Activation)
    /\ clean \in BOOLEAN

(* Every id in use names a class that is in the table, and the superclass  *)
(* and interfaces of a class are older than the class: field_offset,       *)
(* resolve_target, search_interfaces and is_assignable index the table     *)
(* unchecked and walk it without a guard against cycles.                   *)
SupersFirst ==
    /\ \A d \in Desc : Known(d) => /\ byDesc[d] \in Ids
                                /\ classes[byDesc[d]].desc = d
    /\ \A i \in 1..Len(stack) :
         /\ stack[i].id # 0 => /\ stack[i].id \in Ids
                              /\ classes[stack[i].id].desc = stack[i].desc
         /\ \A j \in 1..Len(stack[i].got) : stack[i].got[j] \in Ids
    /\ \A c \in Ids :
         /\ classes[c].super < c
         /\ \A j \in 1..Len(classes[c].ifaces) : classes[c].ifaces[j] < c

(* What d needs according to the dex files: supertypes, and for loading    *)
(* also class constants.                                                   *)
Needs(d, consts) ==
    {Deps(d)[i] : i \in 1..Len(Deps(d))}
      \cup (IF consts THEN {world[d].const} \ {None} ELSE {})
Closed(S, consts) == \A d \in S : Needs(d, consts) \subseteq S
Closure(D, consts) ==
    {d \in Desc : \A S \in SUBSET Desc : D \subseteq S /\ Closed(S, consts) => d \in S}

(* d needs one of the classes in U, or classes that all need each other. *)
Blocked(d, U) ==
    LET all == Closure({d}, TRUE)
    IN  \/ all \cap U # {}
        \/ \E S \in (SUBSET all) \ {{}} : \A e \in S : Needs(e, TRUE) \cap S # {}

Undefined == {d \in Desc : world[d].src # "dex" /\ ~ShimOrNative(d)}
Unbundled == {d \in Desc : world[d].src = "none" /\ world[d].natives = <<>>}

(* No class constant leads back to the class that declares it or to one    *)
(* that only the host may define later.                                    *)
ConstantsSafe == \A d \in Desc : world[d].const # None => ~Blocked(d, Unbundled)

(* Only dex classes are remembered while they load: a class of the host's  *)
(* tables that is its own supertype is loaded again and again.             *)
ShimCycle(d) == world[d].src # "dex" /\ d \in Closure(Needs(d, FALSE), FALSE)

(* A descriptor is loaded at most once, also when classes need each other: *)
(* the recursion is bounded by the number of classes, and class identity   *)
(* (checks by id) is descriptor identity.                                  *)
LoadedOnce ==
    \/ /\ \A i, j \in 1..Len(stack) :
            stack[i].desc = stack[j].desc => i = j \/ ShimCycle(stack[i].desc)
       /\ \A b, c \in Ids : classes[b].desc = classes[c].desc => b = c
    \/ ~ConstantsSafe

(* instance-of and check-cast, computed on the class table, agree with the *)
(* hierarchy the dex files and shims declare, in whatever order and with   *)
(* whatever failures the classes were loaded.                              *)
AssignableAsDeclared ==
    stack = <<>> =>
      \/ \A c \in Ids :
           LET supertypes == Closure({classes[c].desc}, FALSE)
           IN  \A t \in Ids : IsAssignable(c, t) <=> classes[t].desc \in supertypes
      \/ ~ConstantsSafe

(* The method an invoke finds belongs to a supertype of the receiver's     *)
(* class, or to Object.                                                    *)
MethodsOfSupertypes ==
    stack = <<>> => \A c \in Ids, k \in Key :
      LET t == ResolveTarget(c, k)
      IN  t \notin {0, byDesc[Object]} =>
            classes[t].desc \in Closure({classes[c].desc}, FALSE)

(* Without a field that hides an inherited one, an object made by          *)
(* new-instance has a slot for every field and inherited fields are where  *)
(* the superclass's methods expect them.                                   *)
Hiding(c) ==
    \E i, j \in 1..Len(classes[c].layout) :
        i # j /\ classes[c].layout[i] = classes[c].layout[j]
LaidOut(c) ==
    LET s == classes[c].super
    IN  /\ NewInstanceSlots(c) = Len(classes[c].layout)
        /\ \A i \in 1..Len(classes[c].layout) :
             classes[c].offsets[classes[c].layout[i]] = i - 1
        /\ s # 0 => /\ classes[s].linked
                    /\ \A f \in FieldsOf(s) : Offsets(c)[f] = Offsets(s)[f]
LayoutSound ==
    \/ \A c \in Ids : (classes[c].linked /\ ~Hiding(c)) => LaidOut(c)
    \/ ~ConstantsSafe

(* A host API can be called whether it was registered before its class was *)
(* loaded, after, or after loading the class failed: the key is in the     *)
(* dispatch table of its class.                                            *)
HostApiCallable ==
    \A i \in 1..Len(hostNatives) :
      LET h == hostNatives[i]
      IN  (Known(h.cls) /\ classes[byDesc[h.cls]].linked) =>
            Provides(byDesc[h.cls], h.native.key)

(* The first load to fail has a reason in the dex files: a class nobody    *)
(* defines, or a cycle.                                                    *)
LoadFailsForCause ==
    [][(clean /\ ~clean') =>
         \E d \in (IF stack = <<>> THEN Desc ELSE {stack[1].desc}) : Blocked(d, Undefined)]_vars

(* The comment in load_dex_class: "inherit super's offsets, then assign    *)
(* own"; an object has a slot for each of them.                            *)
InheritsSuperOffsets ==
    \A c \in Ids : classes[c].linked =>
      /\ \A f \in FieldsOf(classes[c].super) :
           Offsets(c)[f] = Offsets(classes[c].super)[f]
      /\ \A f \in FieldsOf(c) : Offsets(c)[f] < NewInstanceSlots(c)
=============================================================================
