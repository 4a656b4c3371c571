------------------------- MODULE ClassTableProofs ---------------------------
(***************************************************************************)
(* Proofs about ClassTable, for every set of dex files, every class        *)
(* hierarchy and every order of loading and registering: the table is      *)
(* well-formed, superclasses come first, and host APIs can be called.      *)
(***************************************************************************)
EXTENDS ClassTable, InductionFacts

-----------------------------------------------------------------------------
(* Facts about the helpers *)

(* A set of naturals below a bound has a largest element. *)
LEMMA MaxInSet ==
    ASSUME NEW n \in Nat, NEW S \in SUBSET (1..n), S # {}
    PROVE  Max(S) \in S
  <1> DEFINE Above(i) == {j \in S : i < j}
             T == {Above(i) : i \in S}
  <1>1. IsWellFoundedOn(StrictSubsetOrdering(S), SUBSET S)
    <2>1. IsFiniteSet(1..n)
      BY FS_Interval
    <2>2. IsFiniteSet(S)
      BY <2>1, FS_Subset
    <2> QED
      BY <2>2, FS_FiniteSubsetsOfFinite, FS_StrictSubsetOrderingWellFounded, Zenon
  <1>2. T \subseteq SUBSET S /\ T # {}
    OBVIOUS
  <1>3. \E x \in T : \A y \in T : ~(<<y, x>> \in StrictSubsetOrdering(S))
    <2> HIDE DEF T
    <2> QED
      BY <1>1, <1>2, WFMin, Zenon
  <1>4. PICK i \in S : \A y \in T : ~(<<y, Above(i)>> \in StrictSubsetOrdering(S))
    BY <1>3
  <1>5. \A j \in S : ~(i < j)
    <2> SUFFICES ASSUME NEW j \in S, i < j
                 PROVE  FALSE
      OBVIOUS
    <2>1. Above(j) \in T
      OBVIOUS
    <2>2. Above(j) \subseteq Above(i) /\ j \in Above(i) /\ j \notin Above(j)
      <3>1. i \in Int /\ \A x \in S : x \in Int
        OBVIOUS
      <3>2. \A x \in S : j < x => i < x
        BY <3>1
      <3>3. ~(j < j)
        BY <3>1
      <3> QED
        BY <3>2, <3>3
    <2>3. Above(j) \in SUBSET S /\ Above(i) \in SUBSET S /\ Above(j) # Above(i)
      BY <2>2
    <2>4. <<Above(j), Above(i)>> \in StrictSubsetOrdering(S)
      <3> HIDE DEF Above
      <3> QED
        BY <2>2, <2>3 DEF StrictSubsetOrdering
    <2> QED
      BY <1>4, <2>1, <2>4
  <1>6. \A j \in S : j <= i
    BY <1>5
  <1> QED
    BY <1>6 DEF Max

(* What the dex files and tables say has the declared types. *)
LEMMA DefinitionFacts ==
    ASSUME world \in Worlds, NEW d \in Desc
    PROVE  /\ world[d].super \in Desc \cup {None}
           /\ world[d].ifaces \in Seq(Desc)
           /\ world[d].iface \in BOOLEAN
           /\ world[d].fields \in Seq(Field)
           /\ world[d].methods \in [Key -> Impl \cup {None}]
           /\ world[d].const \in Desc \cup {None}
           /\ world[d].natives \in Seq(Native)
  BY ClassTableAssumption DEF Definition

(* The descriptors a class depends on, the superclass first. *)
LEMMA DepsFacts ==
    ASSUME world \in Worlds, NEW d \in Desc
    PROVE  /\ Super(d) \in Desc \cup {None}
           /\ Deps(d) \in Seq(Desc)
           /\ Super(d) # None => Len(Deps(d)) >= 1
  <1>1. Super(d) \in Desc \cup {None}
    BY DefinitionFacts, ClassTableAssumption DEF Super
  <1>2. world[d].ifaces \in Seq(Desc)
    BY DefinitionFacts
  <1>3. CASE Super(d) = None
    <2>1. Deps(d) = <<>> \o world[d].ifaces
      BY <1>3 DEF Deps
    <2> QED
      BY <1>1, <1>2, <1>3, <2>1
  <1>4. CASE Super(d) # None
    <2>1. Deps(d) = <<Super(d)>> \o world[d].ifaces /\ <<Super(d)>> \in Seq(Desc)
      BY <1>1, <1>4 DEF Deps
    <2> QED
      BY <1>1, <1>2, <2>1
  <1> QED
    BY <1>3, <1>4

(* The entry that wins is a native. *)
LEMMA EntryFacts ==
    ASSUME TypeOK, NEW d \in Desc, NEW k \in EntryKeys(d)
    PROVE  LastEntry(d, k) \in Native
  <1>1. CASE HostEntries(d, k) # {}
    <2>1. Max(HostEntries(d, k)) \in HostEntries(d, k)
      <3>1. Len(hostNatives) \in Nat
        BY DEF TypeOK
      <3>2. HostEntries(d, k) \in SUBSET (1..Len(hostNatives))
        BY DEF HostEntries
      <3> QED
        BY <1>1, <3>1, <3>2, MaxInSet
    <2>2. hostNatives[Max(HostEntries(d, k))] \in Offered
      BY <2>1 DEF HostEntries, TypeOK
    <2> QED
      BY <1>1, <2>2, ClassTableAssumption DEF LastEntry
  <1>2. CASE HostEntries(d, k) = {}
    <2>1. TableEntries(d, k) # {}
      BY <1>2 DEF EntryKeys
    <2>2. world[d].natives \in Seq(Native)
      BY DefinitionFacts DEF TypeOK
    <2>3. TableEntries(d, k) \in SUBSET (1..Len(world[d].natives))
      BY DEF TableEntries
    <2>4. Max(TableEntries(d, k)) \in TableEntries(d, k)
      <3>1. Len(world[d].natives) \in Nat
        BY <2>2
      <3> QED
        BY <2>1, <2>3, <3>1, MaxInSet
    <2>5. Max(TableEntries(d, k)) \in 1..Len(world[d].natives)
      BY <2>3, <2>4
    <2>6. world[d].natives[Max(TableEntries(d, k))] \in Native
      BY <2>2, <2>5
    <2> QED
      BY <1>2, <2>6 DEF LastEntry
  <1> QED
    BY <1>1, <1>2

(* Native entries make methods. *)
LEMMA AsNativeType == \A n \in Native : AsNative(n) \in Impl
  BY DEF AsNative, Native, Impl

(* The dispatch tables that loading builds. *)
LEMMA DispatchFacts ==
    ASSUME TypeOK, NEW d \in Desc
    PROVE  /\ DexDispatch(d) \in [Key -> Impl \cup {None}]
           /\ ShimDispatch(d) \in [Key -> Impl \cup {None}]
           /\ \A k \in EntryKeys(d) : DexDispatch(d)[k] # None /\ ShimDispatch(d)[k] # None
  <1>1. \A k \in EntryKeys(d) : k \in Key /\ AsNative(LastEntry(d, k)) \in Impl
    BY EntryFacts, AsNativeType DEF EntryKeys
  <1>2. world[d].methods \in [Key -> Impl \cup {None}]
    BY DefinitionFacts DEF TypeOK
  <1>3. None \notin Impl
    BY ClassTableAssumption
  <1> HIDE DEF TypeOK
  <1> QED
    BY <1>1, <1>2, <1>3 DEF DexDispatch, ShimDispatch

-----------------------------------------------------------------------------
(***************************************************************************)
(* The inductive invariant.  Its parts are stated as operators on the      *)
(* tables.  What SupersFirst and HostApiCallable lack is that an           *)
(* activation has got the superclass of its class when it enters the       *)
(* class: the ids it has and the descriptors to do add up to what the      *)
(* class depends on.                                                       *)
(***************************************************************************)
DepsOf(w, d) ==
    LET super == IF w[d].super # None \/ w[d].src = "shim" \/ d = Object
                 THEN w[d].super ELSE Object
    IN  (IF super = None THEN <<>> ELSE <<super>>) \o w[d].ifaces

FrameOK(a, cls, w) ==
    /\ a.id # 0 => a.id \in 1..Len(cls) /\ cls[a.id].desc = a.desc
    /\ \A j \in 1..Len(a.got) : a.got[j] \in 1..Len(cls)
    /\ a.id = 0 => Len(a.got) + Len(a.todo) = Len(DepsOf(w, a.desc))

ClassesOK(cls, by) ==
    /\ \A d \in Desc : by[d] # 0 => by[d] \in 1..Len(cls) /\ cls[by[d]].desc = d
    /\ \A c \in 1..Len(cls) :
         /\ cls[c].super < c
         /\ \A j \in 1..Len(cls[c].ifaces) : cls[c].ifaces[j] < c

HostOK(cls, by, hs) ==
    \A i \in 1..Len(hs) :
      (by[hs[i].cls] # 0 /\ cls[by[hs[i].cls]].linked = TRUE) =>
        cls[by[hs[i].cls]].dispatch[hs[i].native.key] # None

StackOK == \A i \in 1..Len(stack) : FrameOK(stack[i], classes, world)
IInv == TypeOK /\ ClassesOK(classes, byDesc) /\ StackOK
          /\ HostOK(classes, byDesc, hostNatives)

LEMMA DepsOfDeps == \A d : Deps(d) = DepsOf(world, d)
  BY DEF Deps, Super, DepsOf

(* Activations stay well-formed while the table grows. *)
LEMMA FrameKept ==
    ASSUME NEW cls, NEW cls2, NEW w, NEW a,
           Len(cls) \in Nat, Len(cls2) \in Nat, Len(cls) <= Len(cls2),
           \A c \in 1..Len(cls) : cls2[c].desc = cls[c].desc,
           FrameOK(a, cls, w)
    PROVE  FrameOK(a, cls2, w)
  <1>1. \A i \in 1..Len(cls) : i \in 1..Len(cls2) /\ cls2[i].desc = cls[i].desc
    OBVIOUS
  <1> QED
    BY <1>1, Zenon DEF FrameOK

LEMMA InitInv == Init => IInv
  <1> SUFFICES ASSUME Init
               PROVE  IInv
    OBVIOUS
  <1>1. TypeOK
    BY DEF Init, TypeOK
  <1>2. ClassesOK(classes, byDesc) /\ StackOK /\ HostOK(classes, byDesc, hostNatives)
    BY DEF Init, ClassesOK, StackOK, HostOK
  <1> QED
    BY <1>1, <1>2 DEF IInv

(* Starting to load a class, or failing to. *)
LEMMA BeginInv ==
    ASSUME IInv, NEW d \in Desc, UNCHANGED <<world, hostNatives>>,
           Begin(<<>>, d) \/ Begin(stack, d)
    PROVE  IInv'
  <1> DEFINE A == Activated(d)
  <1>1. A \in Activation /\ FrameOK(A, classes, world)
    <2>1. Deps(d) \in Seq(Desc) /\ Deps(d) = DepsOf(world, d)
      BY DepsFacts, DepsOfDeps DEF IInv, TypeOK
    <2> QED
      BY <2>1 DEF Activated, Activation, FrameOK
  <1> HIDE DEF A
  <1>2. classes' = classes /\ byDesc' = byDesc
    BY DEF Begin, Fail
  <1>3. loading' \in Seq(Desc) /\ clean' \in BOOLEAN
    <2>1. loading' = loading \/ loading' = Append(loading, d)
      BY DEF Begin, Fail
    <2>2. clean' = FALSE \/ clean' = clean
      BY DEF Begin, Fail
    <2>3. loading' \in Seq(Desc)
      <3>1. loading \in Seq(Desc)
        BY DEF IInv, TypeOK
      <3> QED
        BY <2>1, <3>1
    <2>4. clean' \in BOOLEAN
      BY <2>2, Zenon DEF IInv, TypeOK
    <2> QED
      BY <2>3, <2>4
  <1>4. stack' = <<>> \/ stack' = Append(<<>>, A) \/ stack' = Append(stack, A)
    BY DEF Begin, Fail, A
  <1>5. /\ stack' \in Seq(Activation)
        /\ \A i \in 1..Len(stack') : FrameOK(stack'[i], classes, world)
    <2>1. CASE stack' = <<>>
      BY <2>1
    <2>2. CASE stack' = Append(<<>>, A)
      <3>1. stack' = <<A>>
        BY <2>2
      <3> QED
        BY <1>1, <3>1
    <2>3. CASE stack' = Append(stack, A)
      <3>1. stack \in Seq(Activation) /\ \A i \in 1..Len(stack) : FrameOK(stack[i], classes, world)
        BY DEF IInv, TypeOK, StackOK
      <3>2. /\ stack' \in Seq(Activation) /\ Len(stack') = Len(stack) + 1
            /\ \A i \in 1..Len(stack) : stack'[i] = stack[i]
            /\ stack'[Len(stack) + 1] = A
        BY <1>1, <2>3, <3>1
      <3>3. \A i \in 1..Len(stack') : i \in 1..Len(stack) \/ i = Len(stack) + 1
        BY <3>1, <3>2
      <3> QED
        BY <1>1, <3>1, <3>2, <3>3
    <2> QED
      BY <1>4, <2>1, <2>2, <2>3
  <1> QED
    BY <1>2, <1>3, <1>5 DEF IInv, TypeOK, StackOK

LEMMA LoadInv == ASSUME IInv, NEW d \in Desc, Load(d) PROVE IInv'
  <1>1. CASE Known(d)
    <2>1. UNCHANGED vars
      BY <1>1 DEF Load, vars
    <2> QED
      BY <2>1 DEF vars, IInv, TypeOK, StackOK
  <1>2. CASE ~Known(d)
    BY <1>2, BeginInv DEF Load
  <1> QED
    BY <1>1, <1>2

(* The activation at the top. *)
LEMMA TopFacts ==
    ASSUME IInv, stack # <<>>
    PROVE  /\ Len(stack) \in Nat \ {0}
           /\ Top = stack[Len(stack)]
           /\ Top \in Activation
           /\ Top.desc \in Desc /\ Top.todo \in Seq(Desc)
           /\ Top.got \in Seq(Nat) /\ Top.id \in Nat
           /\ FrameOK(Top, classes, world)
  <1>1. Len(stack) \in Nat \ {0} /\ Top = stack[Len(stack)] /\ Top \in Activation
    BY DEF IInv, TypeOK, Top, Last
  <1>2. FrameOK(Top, classes, world)
    BY <1>1 DEF IInv, StackOK
  <1>3. /\ Top.desc \in Desc /\ Top.todo \in Seq(Desc)
        /\ Top.got \in Seq(Nat) /\ Top.id \in Nat
    BY <1>1 DEF Activation
  <1> QED
    BY <1>1, <1>2, <1>3

LEMMA DescendInv == ASSUME IInv, Descend PROVE IInv'
  <1>1. Head(Top.todo) \in Desc
    BY TopFacts DEF Descend
  <1> QED
    BY <1>1, BeginInv DEF Descend

(* Replacing the activation at the top by a well-formed one. *)
LEMMA TopReplaced ==
    ASSUME IInv, stack # <<>>, NEW a \in Activation, NEW cls,
           stack' = [stack EXCEPT ![Len(stack)] = a],
           FrameOK(a, cls, world),
           Len(cls) \in Nat, Len(classes) <= Len(cls),
           \A c \in 1..Len(classes) : cls[c].desc = classes[c].desc
    PROVE  /\ stack' \in Seq(Activation)
           /\ \A i \in 1..Len(stack') : FrameOK(stack'[i], cls, world)
  <1>1. Len(stack) \in Nat \ {0} /\ stack \in Seq(Activation)
    BY TopFacts DEF IInv, TypeOK
  <1>2. stack' \in Seq(Activation) /\ Len(stack') = Len(stack)
    BY <1>1
  <1>3. \A i \in 1..Len(stack) : FrameOK(stack[i], cls, world)
    <2>1. Len(classes) \in Nat
      BY DEF IInv, TypeOK
    <2> QED
      BY <2>1, FrameKept DEF IInv, StackOK
  <1>4. \A i \in 1..Len(stack) : stack'[i] = a \/ stack'[i] = stack[i]
    BY <1>1
  <1> QED
    BY <1>2, <1>3, <1>4

LEMMA ResolveInv == ASSUME IInv, Resolve PROVE IInv'
  <1> DEFINE e == Head(Top.todo)
             a == [Top EXCEPT !.todo = Tail(Top.todo), !.got = Append(Top.got, byDesc[e])]
  <1>1. stack # <<>> /\ Top.todo # <<>> /\ UNCHANGED <<world, classes, byDesc, loading, hostNatives, clean>>
    BY DEF Resolve
  <1>2. stack' = [stack EXCEPT ![Len(stack)] = a]
    BY Zenon DEF Resolve, Top, Last
  <1>3. e \in Desc /\ byDesc[e] \in 1..Len(classes) /\ byDesc[e] \in Nat
    <2>1. e \in Desc
      BY <1>1, TopFacts
    <2> QED
      BY <2>1 DEF Resolve, Known, IInv, TypeOK, ClassesOK
  <1>4. /\ a.desc = Top.desc /\ a.id = Top.id
        /\ a.todo = Tail(Top.todo) /\ a.got = Append(Top.got, byDesc[e])
        /\ a \in Activation
    <2>1. Tail(Top.todo) \in Seq(Desc) /\ Append(Top.got, byDesc[e]) \in Seq(Nat)
      BY <1>1, <1>3, TopFacts
    <2> QED
      BY <1>1, <2>1, TopFacts DEF Activation
  <1>5. FrameOK(a, classes, world)
    <2>1. Len(a.got) + Len(a.todo) = Len(Top.got) + Len(Top.todo)
      <3>1. Len(a.got) = Len(Top.got) + 1 /\ Len(a.todo) = Len(Top.todo) - 1
        BY <1>1, <1>3, <1>4, TopFacts
      <3>2. Len(Top.got) \in Nat /\ Len(Top.todo) \in Nat
        BY <1>1, TopFacts
      <3>3. \A m, n \in Nat : (m + 1) + (n - 1) = m + n
        OBVIOUS
      <3> HIDE DEF a
      <3> QED
        BY <3>1, <3>2, <3>3, Zenon
    <2>2. \A j \in 1..Len(a.got) : a.got[j] \in 1..Len(classes)
      BY <1>1, <1>3, <1>4, TopFacts DEF FrameOK
    <2> HIDE DEF a
    <2> QED
      BY <1>1, <1>4, <2>1, <2>2, TopFacts DEF FrameOK
  <1> HIDE DEF a
  <1>6. Len(classes) \in Nat
    BY DEF IInv, TypeOK
  <1>7. /\ stack' \in Seq(Activation)
        /\ \A i \in 1..Len(stack') : FrameOK(stack'[i], classes, world)
    <2>1. Len(classes) <= Len(classes)
      BY <1>6
    <2> QED
      BY <1>1, <1>2, <1>4, <1>5, <1>6, <2>1, TopReplaced
  <1> QED
    BY <1>1, <1>7 DEF IInv, TypeOK, StackOK
(* A class enters the table. *)
LEMMA EnterInv == ASSUME IInv, Enter PROVE IInv'
  <1> DEFINE d == Top.desc
             id == Len(classes) + 1
             hasSuper == Super(d) # None
             new == [desc |-> d,
                     super |-> IF hasSuper THEN Top.got[1] ELSE 0,
                     ifaces |-> IF hasSuper THEN Tail(Top.got) ELSE Top.got,
                     iface |-> world[d].iface,
                     layout |-> <<>>, offsets |-> [f \in Field |-> NoField],
                     dispatch |-> [k \in Key |-> None],
                     linked |-> FALSE]
             todo == IF world[d].src = "dex" /\ world[d].const # None
                     THEN <<world[d].const>> ELSE <<>>
             a == [desc |-> d, id |-> id, got |-> <<>>, todo |-> todo]
  <1>1. /\ stack # <<>> /\ Top.todo = <<>> /\ Top.id = 0
        /\ UNCHANGED <<world, loading, hostNatives, clean>>
    BY DEF Enter
  <1>2. classes' = Append(classes, new) /\ byDesc' = [byDesc EXCEPT ![d] = id]
    BY DEF Enter, NewId
  <1>3. stack' = [stack EXCEPT ![Len(stack)] = a]
    BY DEF Enter, NewId, Top, Last
  <1>4. d \in Desc /\ Top.got \in Seq(Nat) /\ world \in Worlds /\ classes \in Seq(Class)
    BY <1>1, TopFacts DEF IInv, TypeOK
  <1>5. hasSuper => Len(Top.got) >= 1
    <2>1. Len(Top.got) + Len(Top.todo) = Len(Deps(d))
      BY <1>1, TopFacts, DepsOfDeps DEF FrameOK
    <2>2. Len(Top.got) + 0 = Len(Deps(d))
      BY <1>1, <2>1
    <2> QED
      BY <1>4, <2>2, DepsFacts
  <1>6. \A j \in 1..Len(Top.got) : Top.got[j] \in 1..Len(classes)
    BY <1>1, TopFacts DEF FrameOK
  <1>7. /\ new.super \in Nat /\ new.super < id
        /\ new.ifaces \in Seq(Nat)
        /\ \A j \in 1..Len(new.ifaces) : new.ifaces[j] < id
    <2>1. Len(classes) \in Nat
      BY <1>4
    <2>2. CASE hasSuper
      <3>1. new.super = Top.got[1] /\ new.ifaces = Tail(Top.got)
        BY <2>2
      <3>2. Top.got[1] \in Nat /\ Top.got[1] < id
        BY <1>4, <1>5, <1>6, <2>1, <2>2
      <3>3. Tail(Top.got) \in Seq(Nat)
            /\ \A j \in 1..Len(Tail(Top.got)) : Tail(Top.got)[j] < id
        BY <1>4, <1>5, <1>6, <2>1, <2>2
      <3>4. new.super \in Nat /\ new.super < id
        BY <3>1, <3>2
      <3>5. /\ new.ifaces \in Seq(Nat)
            /\ \A j \in 1..Len(new.ifaces) : new.ifaces[j] < id
        <4> HIDE DEF new, id
        <4> QED
          BY <3>1, <3>3
      <3> QED
        BY <3>4, <3>5
    <2>3. CASE ~hasSuper
      <3>1. new.super = 0 /\ new.ifaces = Top.got
        BY <2>3
      <3>2. new.super \in Nat /\ new.super < id
        BY <2>1, <3>1
      <3>3. \A j \in 1..Len(Top.got) : Top.got[j] < id
        BY <1>4, <1>6, <2>1
      <3>4. /\ new.ifaces \in Seq(Nat)
            /\ \A j \in 1..Len(new.ifaces) : new.ifaces[j] < id
        <4> HIDE DEF new, id
        <4> QED
          BY <1>4, <3>1, <3>3
      <3> QED
        BY <3>2, <3>4
    <2> QED
      BY <2>2, <2>3
  <1>8. new \in Class /\ new.desc = d /\ new.linked = FALSE
    <2>1. world[d].iface \in BOOLEAN
      BY <1>4, DefinitionFacts
    <2>2. [f \in Field |-> NoField] \in [Field -> Int]
      BY DEF NoField
    <2> QED
      BY <1>4, <1>7, <2>1, <2>2 DEF Class
  <1>9. todo \in Seq(Desc)
    BY <1>4, DefinitionFacts
  <1>10. /\ a \in Activation /\ a.desc = d /\ a.id = id /\ a.got = <<>>
    <2>1. id \in Nat
      BY <1>4
    <2> HIDE DEF todo, id
    <2> QED
      BY <1>4, <1>9, <2>1 DEF Activation
  <1> HIDE DEF new, a, todo
  <1>11. /\ classes' \in Seq(Class) /\ Len(classes') = id
         /\ \A c \in 1..Len(classes) : classes'[c] = classes[c]
         /\ classes'[id] = new
    BY <1>2, <1>4, <1>8
  <1>12. FrameOK(a, classes', world)
    BY <1>4, <1>8, <1>10, <1>11 DEF FrameOK
  <1>13. /\ stack' \in Seq(Activation)
         /\ \A i \in 1..Len(stack') : FrameOK(stack'[i], classes', world)
    <2>1. Len(classes') \in Nat /\ Len(classes) <= Len(classes')
      BY <1>4, <1>11
    <2> QED
      BY <1>1, <1>3, <1>10, <1>11, <1>12, <2>1, TopReplaced
  <1>14. byDesc' \in [Desc -> Nat]
    BY <1>2, <1>4 DEF IInv, TypeOK
  <1>15. ClassesOK(classes', byDesc')
    <2>1. \A e \in Desc : byDesc'[e] # 0 =>
            byDesc'[e] \in 1..Len(classes') /\ classes'[byDesc'[e]].desc = e
      BY <1>2, <1>4, <1>8, <1>11 DEF IInv, TypeOK, ClassesOK
    <2>2. \A c \in 1..Len(classes') :
            /\ classes'[c].super < c
            /\ \A j \in 1..Len(classes'[c].ifaces) : classes'[c].ifaces[j] < c
      <3>1. \A c \in 1..Len(classes') : c \in 1..Len(classes) \/ c = id
        BY <1>4, <1>11
      <3> QED
        BY <1>7, <1>11, <3>1 DEF IInv, ClassesOK
    <2> QED
      BY <2>1, <2>2 DEF ClassesOK
  <1>16. HostOK(classes', byDesc', hostNatives)
    <2> SUFFICES ASSUME NEW i \in 1..Len(hostNatives), NEW h, h = hostNatives[i],
                        byDesc'[h.cls] # 0, classes'[byDesc'[h.cls]].linked = TRUE
                 PROVE  classes'[byDesc'[h.cls]].dispatch[h.native.key] # None
      BY DEF HostOK
    <2>1. h.cls \in Desc
      BY ClassTableAssumption DEF IInv, TypeOK
    <2>2. h.cls # d
      BY <1>2, <1>4, <1>8, <1>11 DEF IInv, TypeOK
    <2>3. byDesc'[h.cls] = byDesc[h.cls] /\ byDesc[h.cls] \in 1..Len(classes)
      BY <1>2, <2>1, <2>2 DEF IInv, TypeOK, ClassesOK
    <2> QED
      BY <1>11, <2>3 DEF IInv, HostOK
  <1> QED
    BY <1>1, <1>11, <1>13, <1>14, <1>15, <1>16 DEF IInv, TypeOK, StackOK
(* What does not move a class or change its supertypes keeps the table. *)
LEMMA ClassesKept ==
    ASSUME NEW cls, NEW cls2, NEW by, ClassesOK(cls, by), Len(cls2) = Len(cls),
           \A c \in 1..Len(cls) : /\ cls2[c].desc = cls[c].desc
                                  /\ cls2[c].super = cls[c].super
                                  /\ cls2[c].ifaces = cls[c].ifaces
    PROVE  ClassesOK(cls2, by)
  BY Zenon DEF ClassesOK

(* All but the last element of a sequence. *)
LEMMA FrontFacts ==
    ASSUME NEW S, NEW s \in Seq(S)
    PROVE  /\ Front(s) \in Seq(S)
           /\ s # <<>> => Len(Front(s)) = Len(s) - 1
           /\ \A i \in 1..Len(Front(s)) : i \in 1..Len(s) /\ Front(s)[i] = s[i]
  <1>1. CASE s = <<>>
    <2>1. Front(s) = <<>>
      BY <1>1 DEF Front
    <2> QED
      BY <1>1, <2>1
  <1>2. CASE s # <<>>
    <2>1. Len(s) \in Nat /\ Len(s) > 0
      BY <1>2
    <2>2. Front(s) = [i \in 1..(Len(s) - 1) |-> s[i]]
      BY <2>1 DEF Front
    <2> QED
      BY <2>1, <2>2
  <1> QED
    BY <1>1, <1>2

(* Fields and methods are filled in. *)
LEMMA FinishInv == ASSUME IInv, Finish PROVE IInv'
  <1> DEFINE d == Top.desc
             id == Top.id
             c == classes[id].super
             layout == Layout(c) \o world[d].fields
             offsets == OwnOffsets(c, world[d].fields)
             dispatch == IF world[d].src = "dex" THEN DexDispatch(d) ELSE ShimDispatch(d)
             new == [classes[id] EXCEPT !.layout = layout, !.offsets = offsets,
                                        !.dispatch = dispatch, !.linked = TRUE]
  <1>1. /\ stack # <<>> /\ id # 0 /\ stack' = Front(stack)
        /\ loading' = Front(loading) \/ loading' = loading
        /\ UNCHANGED <<world, byDesc, hostNatives, clean>>
    BY DEF Finish
  <1>2. classes' = [classes EXCEPT ![id] = new]
    BY DEF Finish
  <1>3. /\ d \in Desc /\ world \in Worlds /\ classes \in Seq(Class)
        /\ id \in 1..Len(classes) /\ classes[id].desc = d
    BY <1>1, TopFacts DEF FrameOK, IInv, TypeOK
  <1>4. classes[id] \in Class /\ c \in Nat /\ c < id
    <2>1. classes[id] \in Class
      BY <1>3
    <2>2. c \in Nat
      BY <2>1 DEF Class
    <2>3. c < id
      BY <1>3 DEF IInv, ClassesOK
    <2> QED
      BY <2>1, <2>2, <2>3
  <1>5. c # 0 => classes[c] \in Class
    BY <1>3, <1>4
  <1>6. /\ Layout(c) \in Seq(Field) /\ Offsets(c) \in [Field -> Int]
    <2>1. CASE c = 0
      BY <2>1 DEF Layout, Offsets, NoField
    <2>2. CASE c # 0
      BY <1>5, <2>2 DEF Layout, Offsets, Class
    <2> QED
      BY <2>1, <2>2
  <1>7. world[d].fields \in Seq(Field)
    BY <1>3, DefinitionFacts
  <1>8. layout \in Seq(Field)
    BY <1>6, <1>7
  <1>9. offsets \in [Field -> Int]
    <2> DEFINE fs == world[d].fields
               at(f) == CHOOSE i \in 1..Len(fs) : fs[i] = f
    <2>1. Len(Layout(c)) \in Nat /\ Len(fs) \in Nat
      BY <1>6, <1>7
    <2>2. \A f \in Field : (\E i \in 1..Len(fs) : fs[i] = f) => at(f) \in Int
      BY <2>1
    <2>3. \A f \in Field : Offsets(c)[f] \in Int
      BY <1>6
    <2>4. offsets = [f \in Field |-> IF \E i \in 1..Len(fs) : fs[i] = f
                                    THEN Len(Layout(c)) + at(f) - 1
                                    ELSE Offsets(c)[f]]
      BY DEF OwnOffsets
    <2> HIDE DEF at, fs, offsets, c
    <2>5. \A f \in Field : (\E i \in 1..Len(fs) : fs[i] = f) =>
                             Len(Layout(c)) + at(f) - 1 \in Int
      BY <2>1, <2>2
    <2> QED
      BY <2>3, <2>4, <2>5
  <1>10. /\ dispatch \in [Key -> Impl \cup {None}]
         /\ \A k \in EntryKeys(d) : dispatch[k] # None
    BY <1>3, DispatchFacts DEF IInv
  <1> HIDE DEF layout, offsets, dispatch
  <1>11. /\ new \in Class /\ new.desc = classes[id].desc /\ new.super = classes[id].super
         /\ new.ifaces = classes[id].ifaces /\ new.dispatch = dispatch
    BY <1>4, <1>8, <1>9, <1>10 DEF Class
  <1> HIDE DEF new
  <1>12. /\ classes' \in Seq(Class) /\ Len(classes') = Len(classes)
         /\ classes'[id] = new
         /\ \A b \in 1..Len(classes) : b # id => classes'[b] = classes[b]
    BY <1>2, <1>3, <1>11
  <1>13. \A b \in 1..Len(classes) : /\ classes'[b].desc = classes[b].desc
                                    /\ classes'[b].super = classes[b].super
                                    /\ classes'[b].ifaces = classes[b].ifaces
    BY <1>11, <1>12
  <1>14. ClassesOK(classes', byDesc)
    BY <1>12, <1>13, ClassesKept DEF IInv
  <1>15. loading' \in Seq(Desc)
    <2>1. loading \in Seq(Desc)
      BY DEF IInv, TypeOK
    <2> QED
      BY <1>1, <2>1, FrontFacts
  <1>16. /\ stack' \in Seq(Activation)
         /\ \A i \in 1..Len(stack') : FrameOK(stack'[i], classes', world)
    <2>1. stack \in Seq(Activation) /\ \A i \in 1..Len(stack) : FrameOK(stack[i], classes, world)
      BY DEF IInv, TypeOK, StackOK
    <2>2. /\ stack' \in Seq(Activation)
          /\ \A i \in 1..Len(stack') : i \in 1..Len(stack) /\ stack'[i] = stack[i]
      BY <1>1, <2>1, FrontFacts
    <2>3. Len(classes) \in Nat /\ Len(classes') \in Nat /\ Len(classes) <= Len(classes')
      BY <1>3, <1>12
    <2>4. \A i \in 1..Len(stack) : FrameOK(stack[i], classes', world)
      BY <1>13, <2>1, <2>3, FrameKept
    <2> QED
      BY <2>2, <2>4
  <1>17. HostOK(classes', byDesc, hostNatives)
    <2> SUFFICES ASSUME NEW i \in 1..Len(hostNatives), NEW h, h = hostNatives[i],
                        byDesc[h.cls] # 0, classes'[byDesc[h.cls]].linked = TRUE
                 PROVE  classes'[byDesc[h.cls]].dispatch[h.native.key] # None
      BY DEF HostOK
    <2>1. h.cls \in Desc /\ h.native.key \in Key
      BY ClassTableAssumption DEF IInv, TypeOK, Native
    <2>2. byDesc[h.cls] \in 1..Len(classes) /\ classes[byDesc[h.cls]].desc = h.cls
      BY <2>1 DEF IInv, ClassesOK
    <2>3. CASE byDesc[h.cls] = id
      <3>1. h.cls = d
        BY <1>3, <2>2, <2>3
      <3>2. h.native.key \in EntryKeys(d)
        BY <2>1, <3>1 DEF EntryKeys, HostEntries
      <3> QED
        BY <1>10, <1>11, <1>12, <2>3, <3>2
    <2>4. CASE byDesc[h.cls] # id
      BY <1>12, <2>2, <2>4 DEF IInv, HostOK
    <2> QED
      BY <2>3, <2>4
  <1> QED
    BY <1>1, <1>12, <1>14, <1>15, <1>16, <1>17 DEF IInv, TypeOK, StackOK

(* The host registers a native. *)
LEMMA RegisterNativeInv ==
    ASSUME IInv, NEW h \in Offered, RegisterNative(h)
    PROVE  IInv'
  <1> DEFINE id == byDesc[h.cls]
             new == [classes[id] EXCEPT
                       !.dispatch = [classes[id].dispatch EXCEPT
                                       ![h.native.key] = AsNative(h.native)]]
  <1>1. /\ hostNatives' = Append(hostNatives, h) /\ classes' = Patched(h)
        /\ UNCHANGED <<world, byDesc, loading, stack, clean>>
    BY DEF RegisterNative
  <1>2. /\ h.cls \in Desc /\ h.native \in Native /\ h.native.key \in Key
        /\ classes \in Seq(Class) /\ hostNatives \in Seq(Offered)
    BY ClassTableAssumption DEF IInv, TypeOK, Native
  <1>3. hostNatives' \in Seq(Offered)
    BY <1>1, <1>2
  <1>4. CASE Known(h.cls)
    <2>1. id \in 1..Len(classes) /\ classes[id] \in Class
      BY <1>2, <1>4 DEF Known, IInv, ClassesOK
    <2>2. classes' = [classes EXCEPT ![id] = new]
      BY <1>1, <1>4 DEF Patched
    <2>3. AsNative(h.native) \in Impl /\ AsNative(h.native) # None
      BY <1>2, AsNativeType, ClassTableAssumption
    <2>4. classes[id].dispatch \in [Key -> Impl \cup {None}]
      BY <2>1 DEF Class
    <2> DEFINE dispatch == [classes[id].dispatch EXCEPT ![h.native.key] = AsNative(h.native)]
    <2>5. /\ dispatch \in [Key -> Impl \cup {None}]
          /\ dispatch[h.native.key] # None
          /\ \A k \in Key : classes[id].dispatch[k] # None => dispatch[k] # None
      BY <1>2, <2>3, <2>4
    <2>6. new = [classes[id] EXCEPT !.dispatch = dispatch]
      OBVIOUS
    <2> HIDE DEF dispatch, new
    <2>7. /\ new \in Class /\ new.desc = classes[id].desc /\ new.super = classes[id].super
          /\ new.ifaces = classes[id].ifaces /\ new.dispatch = dispatch
          /\ new.linked = classes[id].linked
      BY <2>1, <2>5, <2>6 DEF Class
    <2>8. /\ classes' \in Seq(Class) /\ Len(classes') = Len(classes)
          /\ classes'[id] = new
          /\ \A b \in 1..Len(classes) : b # id => classes'[b] = classes[b]
      BY <1>2, <2>1, <2>2, <2>7
    <2>9. \A b \in 1..Len(classes) : /\ classes'[b].desc = classes[b].desc
                                     /\ classes'[b].super = classes[b].super
                                     /\ classes'[b].ifaces = classes[b].ifaces
      BY <2>7, <2>8
    <2>10. ClassesOK(classes', byDesc)
      BY <2>8, <2>9, ClassesKept DEF IInv
    <2>11. \A i \in 1..Len(stack) : FrameOK(stack[i], classes', world)
      <3>1. Len(classes) \in Nat /\ Len(classes') \in Nat /\ Len(classes) <= Len(classes')
        BY <1>2, <2>8
      <3> QED
        BY <2>9, <3>1, FrameKept DEF IInv, StackOK
    <2>12. HostOK(classes', byDesc, hostNatives')
      <3> SUFFICES ASSUME NEW i \in 1..Len(hostNatives'), NEW g, g = hostNatives'[i],
                          byDesc[g.cls] # 0, classes'[byDesc[g.cls]].linked = TRUE
                   PROVE  classes'[byDesc[g.cls]].dispatch[g.native.key] # None
        BY DEF HostOK
      <3>1. g \in Offered /\ g.cls \in Desc /\ g.native.key \in Key
        BY <1>3, ClassTableAssumption DEF Native
      <3>2. byDesc[g.cls] \in 1..Len(classes) /\ classes[byDesc[g.cls]].desc = g.cls
        BY <3>1 DEF IInv, ClassesOK
      <3>3. (i \in 1..Len(hostNatives) /\ g = hostNatives[i]) \/ g = h
        BY <1>1, <1>2
      <3>4. CASE g = h
        BY <2>5, <2>7, <2>8, <3>4
      <3>5. CASE i \in 1..Len(hostNatives) /\ g = hostNatives[i]
        <4>1. CASE byDesc[g.cls] = id
          BY <2>5, <2>7, <2>8, <3>1, <3>5, <4>1, ZenonT(60) DEF IInv, HostOK
        <4>2. CASE byDesc[g.cls] # id
          BY <2>8, <3>2, <3>5, <4>2 DEF IInv, HostOK
        <4> QED
          BY <4>1, <4>2
      <3> QED
        BY <3>3, <3>4, <3>5
    <2> QED
      BY <1>1, <1>3, <2>8, <2>10, <2>11, <2>12 DEF IInv, TypeOK, StackOK
  <1>5. CASE ~Known(h.cls)
    <2>1. classes' = classes
      BY <1>1, <1>5 DEF Patched
    <2>2. HostOK(classes, byDesc, hostNatives')
      <3> SUFFICES ASSUME NEW i \in 1..Len(hostNatives'), NEW g, g = hostNatives'[i],
                          byDesc[g.cls] # 0, classes[byDesc[g.cls]].linked = TRUE
                   PROVE  classes[byDesc[g.cls]].dispatch[g.native.key] # None
        BY DEF HostOK
      <3>1. (i \in 1..Len(hostNatives) /\ g = hostNatives[i]) \/ g = h
        BY <1>1, <1>2
      <3> QED
        BY <1>5, <3>1 DEF Known, IInv, HostOK
    <2> QED
      BY <1>1, <1>3, <2>1, <2>2 DEF IInv, TypeOK, StackOK
  <1> QED
    BY <1>4, <1>5

LEMMA StepInv == IInv /\ [Next]_vars => IInv'
  <1> SUFFICES ASSUME IInv, [Next]_vars
               PROVE  IInv'
    OBVIOUS
  <1>1. CASE UNCHANGED vars
    BY <1>1 DEF vars, IInv, TypeOK, StackOK
  <1>2. ASSUME NEW d \in Desc, Load(d)
        PROVE  IInv'
    BY <1>2, LoadInv
  <1>3. ASSUME NEW h \in Offered, RegisterNative(h)
        PROVE  IInv'
    BY <1>3, RegisterNativeInv
  <1> QED
    BY <1>1, <1>2, <1>3, ResolveInv, DescendInv, EnterInv, FinishInv DEF Next

(* The parts of the invariant are the properties. *)
LEMMA InvImplies == IInv => TypeOK /\ SupersFirst /\ HostApiCallable
  <1> SUFFICES ASSUME IInv
               PROVE  SupersFirst /\ HostApiCallable
    BY DEF IInv
  <1>1. SupersFirst
    BY DEF SupersFirst, IInv, ClassesOK, StackOK, FrameOK, Known, Ids
  <1>2. HostApiCallable
    BY DEF HostApiCallable, IInv, HostOK, Known, Provides
  <1> QED
    BY <1>1, <1>2

-----------------------------------------------------------------------------
(* Loading, failing to load and registering natives keep the class table,  *)
(* the maps to it and the recursion's activations well-formed.             *)
THEOREM TypeCorrect == Spec => []TypeOK
  BY InitInv, StepInv, InvImplies, PTL DEF Spec

(* Whatever the dex files say of superclasses and interfaces, cyclic or    *)
(* undefined ones included, every id in use is in the table and            *)
(* supertypes have smaller ids: the unchecked walks over the table index   *)
(* it in bounds and end.                                                   *)
THEOREM SupersComeFirst == Spec => []SupersFirst
  BY InitInv, StepInv, InvImplies, PTL DEF Spec

(* A native the host registers is in the dispatch table of its class,      *)
(* whether the class was loaded before or is loaded later.                 *)
THEOREM HostApisStayCallable == Spec => []HostApiCallable
  BY InitInv, StepInv, InvImplies, PTL DEF Spec

-----------------------------------------------------------------------------
(***************************************************************************)
(* The second invariant: the table and the activations against what the    *)
(* dex files and the shims declare.  Again its parts are operators on the  *)
(* tables; w is the world.                                                 *)
(***************************************************************************)

(* The declared hierarchy of a given world. *)
NeedsIn(w, d, k) ==
    {DepsOf(w, d)[i] : i \in 1..Len(DepsOf(w, d))} \cup (IF k THEN {w[d].const} \ {None} ELSE {})
ClosedIn(w, S, k) == \A d \in S : NeedsIn(w, d, k) \subseteq S
ClosureIn(w, D, k) ==
    {d \in Desc : \A S \in SUBSET Desc : D \subseteq S /\ ClosedIn(w, S, k) => d \in S}
Cycle(w, S) == S # {} /\ \A e \in S : NeedsIn(w, e, TRUE) \cap S # {}
BlockedIn(w, d, U) ==
    \/ ClosureIn(w, {d}, TRUE) \cap U # {}
    \/ \E S \in SUBSET ClosureIn(w, {d}, TRUE) : Cycle(w, S)
UnbundledIn(w) == {d \in Desc : w[d].src = "none" /\ w[d].natives = <<>>}
SafeIn(w) == \A d \in Desc : w[d].const # None => ~BlockedIn(w, d, UnbundledIn(w))

(* The supertypes of a class in the table have the descriptors the class    *)
(* is declared with; an activation has classes for what is no longer to do, *)
(* and once its class is in the table only a constant is.                   *)
Ups(cls, c) == ({cls[c].super} \ {0}) \cup {cls[c].ifaces[j] : j \in 1..Len(cls[c].ifaces)}
Descs(cls, S) == {cls[s].desc : s \in S}
GotBy(a) == {a.got[j] : j \in 1..Len(a.got)}
ToDo(a) == {a.todo[j] : j \in 1..Len(a.todo)}
ClassesAs(cls, w) ==
    \A c \in 1..Len(cls) : /\ Ups(cls, c) \subseteq 1..(c - 1)
                           /\ Descs(cls, Ups(cls, c)) = NeedsIn(w, cls[c].desc, FALSE)
                           /\ cls[c].iface = w[cls[c].desc].iface
FrameAs(a, cls, w) ==
    /\ a.id = 0 => Descs(cls, GotBy(a)) \cup ToDo(a) = NeedsIn(w, a.desc, FALSE)
    /\ a.id # 0 => ToDo(a) \subseteq {w[a.desc].const} \ {None}
StackAs(st, cls, w) == \A i \in 1..Len(st) : FrameAs(st[i], cls, w)

(* Every activation but the last waits for the next one. *)
Chain(st) ==
    \A i \in 1..(Len(st) - 1) : st[i].todo # <<>> /\ st[i + 1].desc = Head(st[i].todo)

(* The activations with a class have each its own, not yet linked. *)
OwnIds(st, cls) ==
    /\ \A i \in 1..Len(st) : st[i].id # 0 => cls[st[i].id].linked = FALSE
    /\ \A i, j \in 1..Len(st) : st[i].id # 0 /\ st[i].id = st[j].id => i = j

(* Object is the first class and is not loaded again. *)
ObjectFirst(cls, by, st) ==
    /\ cls # <<>> => /\ by[Object] = 1
                     /\ \A i \in 1..Len(st) : st[i].id = 0 => st[i].desc # Object
    /\ cls = <<>> => \A i \in 1..Len(st) : i = 1 /\ st[i].desc = Object

(* Vm.loading: f[i] is the length it had when activation i was on top.  The *)
(* entries up to f[0] are those of loads that failed.                       *)
LoadingRun(f, st, ld, w, cl) ==
    /\ f[Len(st)] = Len(ld)
    /\ \A i \in 1..Len(st) :
         IF w[st[i].desc].src = "dex" THEN f[i] = f[i - 1] + 1 /\ ld[f[i]] = st[i].desc
         ELSE f[i] = f[i - 1]
    /\ \A i, j \in 0..Len(st) : i <= j => f[i] <= f[j]
    /\ \A p \in 1..Len(ld) :
         p <= f[0] \/ \E i \in 1..Len(st) : w[st[i].desc].src = "dex" /\ f[i] = p
    /\ \A p \in 1..f[0] : BlockedIn(w, ld[p], UnbundledIn(w))
    /\ cl => f[0] = 0
LoadingAs(st, ld, w, cl) == \E f \in [0..Len(st) -> Nat] : LoadingRun(f, st, ld, w, cl)

(* In worlds with safe constants a class is unlinked only while an          *)
(* activation is at work on it, so that activations get, and classes have,  *)
(* linked classes only.                                                     *)
Linked(cls, S) == \A s \in S : cls[s].linked = TRUE
LinkedOK(cls, st) ==
    /\ \A c \in 1..Len(cls) : cls[c].linked = TRUE \/ \E i \in 1..Len(st) : st[i].id = c
    /\ \A i \in 1..Len(st) : Linked(cls, GotBy(st[i]))
    /\ \A c \in 1..Len(cls) : cls[c].super # 0 => cls[cls[c].super].linked = TRUE

(* Fields are where the layout says, inherited ones where the superclass    *)
(* has them.                                                                *)
Distinct(s) == \A i, j \in 1..Len(s) : s[i] = s[j] => i = j
Places(lay, off) ==
    /\ \A f \in Field : off[f] # NoField <=> \E i \in 1..Len(lay) : lay[i] = f
    /\ Distinct(lay) => \A i \in 1..Len(lay) : off[lay[i]] = i - 1
Agrees(lay, off, O) ==
    Distinct(lay) => \A f \in Field : O[f] # NoField => off[f] = O[f]
Placed(r) == Places(r.layout, r.offsets)
Inherits(r, s) == Agrees(r.layout, r.offsets, s.offsets)
LaidOutOK(cls) ==
    \A c \in 1..Len(cls) : cls[c].linked = TRUE =>
      Placed(cls[c]) /\ (cls[c].super # 0 => Inherits(cls[c], cls[cls[c].super]))

(* What is being loaded is not known yet, and what is known has one class. *)
OnceOK(cls, by, st, w) ==
    /\ \A i \in 1..Len(st) : st[i].id = 0 => by[st[i].desc] = 0
    /\ \A c \in 1..Len(cls) : by[cls[c].desc] = c
    /\ \A i, j \in 1..Len(st) : st[i].desc = st[j].desc =>
         i = j \/ (w[st[i].desc].src # "dex"
                   /\ st[i].desc \in ClosureIn(w, NeedsIn(w, st[i].desc, FALSE), FALSE))

-----------------------------------------------------------------------------
(* Facts about the declared hierarchy *)

LEMMA InWorld ==
    /\ \A d, k : Needs(d, k) = NeedsIn(world, d, k)
    /\ \A D, k : Closure(D, k) = ClosureIn(world, D, k)
    /\ \A d, U : Blocked(d, U) <=> BlockedIn(world, d, U)
    /\ ConstantsSafe <=> SafeIn(world)
  <1>1. \A d, k : Needs(d, k) = NeedsIn(world, d, k)
    BY DepsOfDeps DEF Needs, NeedsIn
  <1>2. \A S, k : Closed(S, k) <=> ClosedIn(world, S, k)
    BY <1>1 DEF Closed, ClosedIn
  <1>3. \A D, k : Closure(D, k) = ClosureIn(world, D, k)
    BY <1>2 DEF Closure, ClosureIn
  <1>4. \A d, U : Blocked(d, U) <=> BlockedIn(world, d, U)
    BY <1>1, <1>3 DEF Blocked, BlockedIn, Cycle
  <1>5. Unbundled = UnbundledIn(world)
    BY DEF Unbundled, UnbundledIn
  <1>6. ConstantsSafe <=> SafeIn(world)
    BY <1>4, <1>5 DEF ConstantsSafe, SafeIn
  <1> QED
    BY <1>1, <1>3, <1>4, <1>6

LEMMA NeedsFacts ==
    ASSUME NEW w \in Worlds, NEW d \in Desc
    PROVE  /\ DepsOf(w, d) \in Seq(Desc)
           /\ \A k : NeedsIn(w, d, k) \subseteq Desc
           /\ NeedsIn(w, d, FALSE) \subseteq NeedsIn(w, d, TRUE)
  <1> DEFINE s == IF w[d].super # None \/ w[d].src = "shim" \/ d = Object
                  THEN w[d].super ELSE Object
             one == IF s = None THEN <<>> ELSE <<s>>
             is == w[d].ifaces
  <1>1. /\ w[d].super \in Desc \cup {None} /\ is \in Seq(Desc) /\ w[d].const \in Desc \cup {None}
        /\ Object \in Desc
    BY ClassTableAssumption DEF Definition
  <1>2. s \in Desc \cup {None}
    BY <1>1
  <1> HIDE DEF s
  <1>3. one \in Seq(Desc)
    BY <1>2
  <1>4. DepsOf(w, d) = one \o is
    BY DEF DepsOf, s
  <1> HIDE DEF one, is
  <1>5. DepsOf(w, d) \in Seq(Desc)
    BY <1>1, <1>3, <1>4
  <1> QED
    BY <1>1, <1>5 DEF NeedsIn

LEMMA ClosureFacts ==
    ASSUME NEW w \in Worlds, NEW k, NEW D \in SUBSET Desc
    PROVE  /\ D \subseteq ClosureIn(w, D, k) /\ ClosureIn(w, D, k) \subseteq Desc
           /\ ClosedIn(w, ClosureIn(w, D, k), k)
  <1>1. D \subseteq ClosureIn(w, D, k) /\ ClosureIn(w, D, k) \subseteq Desc
    BY DEF ClosureIn
  <1>2. ASSUME NEW d \in ClosureIn(w, D, k), NEW e \in NeedsIn(w, d, k)
        PROVE  e \in ClosureIn(w, D, k)
    <2>1. e \in Desc
      BY <1>1, NeedsFacts
    <2>2. ASSUME NEW S \in SUBSET Desc, D \subseteq S, ClosedIn(w, S, k)
          PROVE  e \in S
      BY <2>2 DEF ClosureIn, ClosedIn
    <2> QED
      BY <2>1, <2>2 DEF ClosureIn
  <1> QED
    BY <1>1, <1>2 DEF ClosedIn

LEMMA ClosureLeast ==
    ASSUME NEW w, NEW k, NEW D, NEW S, S \subseteq Desc, D \subseteq S, ClosedIn(w, S, k)
    PROVE  ClosureIn(w, D, k) \subseteq S
  BY DEF ClosureIn

(* What a member of a closure needs, the closure has. *)
LEMMA ClosureStep ==
    ASSUME NEW w \in Worlds, NEW k, NEW D \in SUBSET Desc, NEW e \in ClosureIn(w, D, k)
    PROVE  ClosureIn(w, {e}, k) \subseteq ClosureIn(w, D, k)
  BY ClosureFacts, ClosureLeast

(* A chain of needs stays in every closed set it starts in. *)
LEMMA ChainWithin ==
    ASSUME NEW w, NEW k, NEW C, ClosedIn(w, C, k), NEW n \in Nat, NEW m \in 1..n, NEW st,
           st[m].desc \in C,
           \A i \in m..(n - 1) : st[i + 1].desc \in NeedsIn(w, st[i].desc, k)
    PROVE  \A i \in m..n : st[i].desc \in C
  <1> DEFINE T == {j \in 0..(n - m) : st[m + j].desc \in C}
  <1>1. n - m \in Nat
    OBVIOUS
  <1>2. 0 \in T
    <2>1. m + 0 = m
      OBVIOUS
    <2> QED
      BY <1>1, <2>1
  <1>3. ASSUME NEW j \in 1..(n - m), j - 1 \in T PROVE j \in T
    <2> DEFINE i == m + (j - 1)
    <2>1. i \in m..(n - 1) /\ i + 1 = m + j /\ j \in 0..(n - m)
      BY <1>1
    <2>2. st[i].desc \in C
      BY <1>3
    <2> HIDE DEF i
    <2>3. st[i + 1].desc \in C
      BY <2>1, <2>2 DEF ClosedIn
    <2> QED
      BY <2>1, <2>3
  <1>4. \A j \in 0..(n - m) : j \in T
    <2> DEFINE l == n - m
    <2> HIDE DEF T, l
    <2> QED
      BY <1>1, <1>2, <1>3, IntervalInduction DEF l
  <1>5. \A i \in m..n : i - m \in 0..(n - m) /\ m + (i - m) = i
    OBVIOUS
  <1> QED
    BY <1>4, <1>5

(* What an activation waits for. *)
LEMMA WaitsFor ==
    ASSUME NEW w \in Worlds, NEW cls, NEW a \in Activation, FrameAs(a, cls, w), a.todo # <<>>
    PROVE  /\ a.desc \in Desc /\ Head(a.todo) \in Desc
           /\ Head(a.todo) \in NeedsIn(w, a.desc, TRUE)
           /\ a.id = 0 => Head(a.todo) \in NeedsIn(w, a.desc, FALSE)
           /\ a.id # 0 => w[a.desc].const # None
  <1>1. a.desc \in Desc /\ a.todo \in Seq(Desc)
    BY DEF Activation
  <1>2. Head(a.todo) \in ToDo(a) /\ Head(a.todo) \in Desc
    BY <1>1 DEF ToDo
  <1> QED
    BY <1>1, <1>2, NeedsFacts DEF FrameAs, NeedsIn

(* What blocks the class the innermost activation waits for blocks them    *)
(* all, and so does waiting for one of them.                               *)
LEMMA StackBlocked ==
    ASSUME NEW w \in Worlds, NEW cls, NEW st \in Seq(Activation), st # <<>>,
           StackAs(st, cls, w), Chain(st), st[Len(st)].todo # <<>>,
           NEW h, h = Head(st[Len(st)].todo), NEW U,
           h \in U \/ BlockedIn(w, h, U) \/ (\E m \in 1..Len(st) : st[m].desc = h)
    PROVE  \A j \in 1..Len(st) : BlockedIn(w, st[j].desc, U)
  <1> SUFFICES ASSUME NEW j \in 1..Len(st) PROVE BlockedIn(w, st[j].desc, U)
    OBVIOUS
  <1> DEFINE n == Len(st)
             d == st[j].desc
             C == ClosureIn(w, {d}, TRUE)
  <1>1. n \in Nat /\ n \in 1..n /\ \A i \in 1..n : st[i] \in Activation /\ st[i].desc \in Desc
    <2>1. n \in Nat /\ n # 0 /\ \A i \in 1..n : st[i] \in Activation
      OBVIOUS
    <2>2. \A a \in Activation : a.desc \in Desc
      BY DEF Activation
    <2> QED
      BY <2>1, <2>2
  <1>2. \A i \in 1..(n - 1) : i \in 1..n /\ st[i + 1].desc \in NeedsIn(w, st[i].desc, TRUE)
    <2>1. \A i \in 1..(n - 1) : i \in 1..n
      BY <1>1
    <2> QED
      BY <1>1, <2>1, WaitsFor DEF StackAs, Chain
  <1>3. h \in NeedsIn(w, st[n].desc, TRUE) /\ h \in Desc
    BY <1>1, WaitsFor DEF StackAs
  <1>4. d \in C /\ C \subseteq Desc /\ ClosedIn(w, C, TRUE)
    <2>1. {d} \in SUBSET Desc
      BY <1>1
    <2> QED
      BY <2>1, ClosureFacts
  <1>5. ASSUME NEW m \in 1..n, st[m].desc \in C PROVE \A i \in m..n : st[i].desc \in C
    <2>1. \A i \in m..(n - 1) : i \in 1..(n - 1)
      BY <1>1
    <2>2. \A i \in m..(n - 1) : st[i + 1].desc \in NeedsIn(w, st[i].desc, TRUE)
      BY <1>2, <2>1
    <2> HIDE DEF n, C
    <2> QED
      BY <1>1, <1>4, <1>5, <2>2, ChainWithin
  <1>6. st[n].desc \in C
    <2>1. n \in j..n
      BY <1>1
    <2> QED
      BY <1>4, <1>5, <2>1
  <1>7. h \in C
    BY <1>3, <1>4, <1>6 DEF ClosedIn
  <1>8. CASE h \in U
    BY <1>7, <1>8 DEF BlockedIn
  <1>9. CASE BlockedIn(w, h, U)
    <2>1. ClosureIn(w, {h}, TRUE) \subseteq C
      <3>1. {d} \in SUBSET Desc
        BY <1>1
      <3> QED
        BY <1>7, <3>1, ClosureStep
    <2> QED
      BY <1>9, <2>1 DEF BlockedIn
  <1>10. ASSUME NEW m \in 1..n, st[m].desc = h PROVE BlockedIn(w, st[j].desc, U)
    <2> DEFINE S == {st[i].desc : i \in m..n}
    <2>1. S \subseteq C
      BY <1>5, <1>7, <1>10
    <2>2. S # {}
      <3>1. m \in m..n
        BY <1>1
      <3> QED
        BY <3>1
    <2>3. ASSUME NEW i \in m..n PROVE NeedsIn(w, st[i].desc, TRUE) \cap S # {}
      <3>1. CASE i = n
        <4>1. m \in m..n
          BY <1>1
        <4>2. h \in S
          BY <1>10, <4>1
        <4> QED
          BY <1>3, <3>1, <4>2
      <3>2. CASE i # n
        <4>1. i \in 1..(n - 1) /\ i + 1 \in m..n
          BY <1>1, <3>2
        <4>2. st[i + 1].desc \in S
          BY <4>1
        <4> QED
          BY <1>2, <4>1, <4>2
      <3> QED
        BY <3>1, <3>2
    <2>4. Cycle(w, S)
      BY <2>2, <2>3 DEF Cycle
    <2> QED
      BY <2>1, <2>4 DEF BlockedIn
  <1> QED
    BY <1>8, <1>9, <1>10

-----------------------------------------------------------------------------
(* What the steps do *)

(* cls2 says the same of every class's place in the hierarchy. *)
SameShape(cls, cls2) ==
    /\ Len(cls2) = Len(cls)
    /\ \A c \in 1..Len(cls) : /\ cls2[c].desc = cls[c].desc /\ cls2[c].super = cls[c].super
                              /\ cls2[c].ifaces = cls[c].ifaces /\ cls2[c].iface = cls[c].iface

(* The activations of st2 are those of st, without the last one. *)
Popped(st, st2) ==
    Len(st2) = Len(st) - 1 /\ \A i \in 1..(Len(st) - 1) : st2[i] = st[i]

(* The activations of st2 are those of st, but for the last one. *)
Replaced(st, st2) ==
    Len(st2) = Len(st) /\ \A i \in 1..(Len(st) - 1) : st2[i] = st[i]

(* The activations of st2 are those of st and a new one for d. *)
Pushed(st, st2, d) ==
    /\ Len(st2) = Len(st) + 1 /\ \A i \in 1..Len(st) : st2[i] = st[i]
    /\ st2[Len(st) + 1] = Activated(d)

LEMMA EnterIs ==
    ASSUME IInv, Enter
    PROVE  LET d == Top.desc
               id == Len(classes) + 1
               a == stack'[Len(stack)]
           IN  /\ stack # <<>> /\ Top.todo = <<>> /\ Top.id = 0
               /\ UNCHANGED <<world, loading, clean>>
               /\ Len(classes') = id /\ \A c \in 1..Len(classes) : classes'[c] = classes[c]
               /\ classes'[id].desc = d /\ classes'[id].linked = FALSE
               /\ classes'[id].iface = world[d].iface
               /\ Ups(classes', id) = GotBy(Top)
               /\ byDesc'[d] = id /\ \A e \in Desc : e # d => byDesc'[e] = byDesc[e]
               /\ Replaced(stack, stack')
               /\ a.desc = d /\ a.id = id /\ a.got = <<>>
               /\ ToDo(a) \subseteq {world[d].const} \ {None}
  <1> DEFINE d == Top.desc
             id == Len(classes) + 1
             hasSuper == Super(d) # None
             got == Top.got
             super == IF hasSuper THEN got[1] ELSE 0
             ifaces == IF hasSuper THEN Tail(got) ELSE got
             new == [desc |-> d, super |-> super, ifaces |-> ifaces,
                     iface |-> world[d].iface,
                     layout |-> <<>>, offsets |-> [f \in Field |-> NoField],
                     dispatch |-> [k \in Key |-> None],
                     linked |-> FALSE]
             todo == IF world[d].src = "dex" /\ world[d].const # None
                     THEN <<world[d].const>> ELSE <<>>
             b == [desc |-> d, id |-> id, got |-> <<>>, todo |-> todo]
  <1>1. /\ stack # <<>> /\ Top.todo = <<>> /\ Top.id = 0
        /\ UNCHANGED <<world, loading, clean>>
        /\ classes' = Append(classes, new) /\ byDesc' = [byDesc EXCEPT ![d] = id]
    BY DEF Enter, NewId
  <1>2. stack' = [stack EXCEPT ![Len(stack)] = b]
    BY DEF Enter, NewId, Top, Last
  <1>3. /\ d \in Desc /\ got \in Seq(Nat) /\ world \in Worlds /\ classes \in Seq(Class)
        /\ byDesc \in [Desc -> Nat] /\ stack \in Seq(Activation)
        /\ Len(stack) \in Nat \ {0}
    BY <1>1, TopFacts DEF IInv, TypeOK
  <1>4. hasSuper => Len(got) >= 1
    <2>1. Len(got) + Len(Top.todo) = Len(Deps(d))
      BY <1>1, TopFacts, DepsOfDeps DEF FrameOK
    <2>2. Len(got) + 0 = Len(Deps(d))
      BY <1>1, <2>1
    <2> QED
      BY <1>3, <2>2, DepsFacts
  <1>5. \A j \in 1..Len(got) : got[j] \in 1..Len(classes)
    BY <1>1, TopFacts DEF FrameOK
  <1>6. /\ new.desc = d /\ new.super = super /\ new.ifaces = ifaces
        /\ new.iface = world[d].iface /\ new.linked = FALSE
    OBVIOUS
  <1>7. b.desc = d /\ b.id = id /\ b.got = <<>> /\ b.todo = todo
    OBVIOUS
  <1>8. ({super} \ {0}) \cup {ifaces[j] : j \in 1..Len(ifaces)} = {got[j] : j \in 1..Len(got)}
    <2>1. CASE hasSuper
      <3>1. Len(got) \in Nat /\ Len(got) >= 1 /\ Len(classes) \in Nat
        BY <1>3, <1>4, <2>1
      <3>2. super = got[1] /\ ifaces = Tail(got) /\ super # 0 /\ 1 \in 1..Len(got)
        BY <1>5, <2>1, <3>1
      <3>3. Len(ifaces) = Len(got) - 1 /\ \A j \in 1..(Len(got) - 1) : ifaces[j] = got[j + 1]
        BY <1>3, <3>1, <3>2
      <3> HIDE DEF super, ifaces, got
      <3>4. \A j \in 1..Len(got) : j = 1 \/ (j - 1 \in 1..Len(ifaces) /\ ifaces[j - 1] = got[j])
        BY <3>1, <3>3
      <3>5. \A j \in 1..Len(ifaces) : j + 1 \in 1..Len(got) /\ ifaces[j] = got[j + 1]
        BY <3>1, <3>3
      <3>6. ASSUME NEW x \in {got[j] : j \in 1..Len(got)}
            PROVE  x \in ({super} \ {0}) \cup {ifaces[j] : j \in 1..Len(ifaces)}
        BY <3>2, <3>4
      <3>7. ASSUME NEW x \in ({super} \ {0}) \cup {ifaces[j] : j \in 1..Len(ifaces)}
            PROVE  x \in {got[j] : j \in 1..Len(got)}
        BY <3>2, <3>5
      <3> QED
        BY <3>6, <3>7
    <2>2. CASE ~hasSuper
      BY <2>2
    <2> QED
      BY <2>1, <2>2
  <1>9. {todo[j] : j \in 1..Len(todo)} \subseteq {world[d].const} \ {None}
    <2>1. CASE world[d].src = "dex" /\ world[d].const # None
      <3>1. todo = <<world[d].const>>
        BY <2>1
      <3>2. Len(todo) = 1 /\ todo[1] = world[d].const
        BY <3>1
      <3> HIDE DEF todo
      <3>3. \A j \in 1..Len(todo) : j = 1
        BY <3>2
      <3> QED
        BY <2>1, <3>2, <3>3
    <2>2. CASE ~(world[d].src = "dex" /\ world[d].const # None)
      BY <2>2
    <2> QED
      BY <2>1, <2>2
  <1> HIDE DEF new, b, todo, super, ifaces
  <1>10. /\ Len(classes') = id /\ \A c \in 1..Len(classes) : classes'[c] = classes[c]
         /\ classes'[id] = new
    BY <1>1, <1>3
  <1>11. byDesc'[d] = id /\ \A e \in Desc : e # d => byDesc'[e] = byDesc[e]
    BY <1>1, <1>3
  <1>12. Replaced(stack, stack') /\ stack'[Len(stack)] = b
    BY <1>2, <1>3 DEF Replaced
  <1>13. Ups(classes', id) = GotBy(Top)
    BY <1>6, <1>8, <1>10 DEF Ups, GotBy
  <1>14. ToDo(b) \subseteq {world[d].const} \ {None}
    BY <1>7, <1>9 DEF ToDo
  <1> QED
    BY <1>1, <1>6, <1>7, <1>10, <1>11, <1>12, <1>13, <1>14

LEMMA FinishIs ==
    ASSUME IInv, Finish
    PROVE  LET d == Top.desc
               id == Top.id
               c == classes[id].super
           IN  /\ stack # <<>> /\ Top.todo = <<>> /\ id # 0
               /\ id \in 1..Len(classes) /\ classes[id].desc = d
               /\ UNCHANGED <<world, byDesc, clean>>
               /\ SameShape(classes, classes')
               /\ \A b \in 1..Len(classes) : b # id => classes'[b] = classes[b]
               /\ classes'[id].linked = TRUE
               /\ classes'[id].layout = Layout(c) \o world[d].fields
               /\ classes'[id].offsets = OwnOffsets(c, world[d].fields)
               /\ loading' = IF world[d].src = "dex" THEN Front(loading) ELSE loading
               /\ Popped(stack, stack')
  <1> DEFINE d == Top.desc
             id == Top.id
             c == classes[id].super
             layout == Layout(c) \o world[d].fields
             offsets == OwnOffsets(c, world[d].fields)
             dispatch == IF world[d].src = "dex" THEN DexDispatch(d) ELSE ShimDispatch(d)
             r == classes[id]
             new == [r EXCEPT !.layout = layout, !.offsets = offsets,
                              !.dispatch = dispatch, !.linked = TRUE]
  <1>1. /\ stack # <<>> /\ Top.todo = <<>> /\ id # 0 /\ stack' = Front(stack)
        /\ loading' = IF world[d].src = "dex" THEN Front(loading) ELSE loading
        /\ UNCHANGED <<world, byDesc, clean>>
    BY DEF Finish
  <1>2. classes' = [classes EXCEPT ![id] = new]
    BY DEF Finish
  <1>3. /\ id \in 1..Len(classes) /\ classes[id].desc = d
        /\ classes \in Seq(Class) /\ r \in Class /\ stack \in Seq(Activation)
    BY <1>1, TopFacts DEF FrameOK, IInv, TypeOK
  <1> HIDE DEF layout, offsets, dispatch
  <1>4. /\ new.desc = r.desc /\ new.super = r.super /\ new.ifaces = r.ifaces /\ new.iface = r.iface
        /\ new.linked = TRUE /\ new.layout = layout /\ new.offsets = offsets
    <2> HIDE DEF r
    <2> QED
      BY <1>3 DEF Class
  <1> HIDE DEF new
  <1>5. /\ Len(classes') = Len(classes) /\ classes'[id] = new
        /\ \A b \in 1..Len(classes) : b # id => classes'[b] = classes[b]
    BY <1>2, <1>3
  <1>6. SameShape(classes, classes')
    BY <1>4, <1>5 DEF SameShape
  <1>7. Popped(stack, stack')
    <2>1. /\ Len(Front(stack)) = Len(stack) - 1
          /\ \A i \in 1..Len(Front(stack)) : Front(stack)[i] = stack[i]
      BY <1>1, <1>3, FrontFacts
    <2> QED
      BY <1>1, <2>1 DEF Popped
  <1> QED
    BY <1>1, <1>3, <1>4, <1>5, <1>6, <1>7 DEF layout, offsets

LEMMA ResolveIs ==
    ASSUME IInv, Resolve
    PROVE  LET h == Head(Top.todo)
               a == stack'[Len(stack)]
           IN  /\ stack # <<>> /\ Top.todo # <<>>
               /\ UNCHANGED <<world, classes, byDesc, loading, clean>>
               /\ h \in Desc /\ byDesc[h] \in 1..Len(classes) /\ classes[byDesc[h]].desc = h
               /\ Replaced(stack, stack')
               /\ a.desc = Top.desc /\ a.id = Top.id
               /\ GotBy(a) = GotBy(Top) \cup {byDesc[h]}
               /\ ToDo(Top) = {h} \cup ToDo(a)
  <1> DEFINE h == Head(Top.todo)
             got == Append(Top.got, byDesc[h])
             todo == Tail(Top.todo)
             b == [Top EXCEPT !.todo = todo, !.got = got]
  <1>1. stack # <<>> /\ Top.todo # <<>> /\ UNCHANGED <<world, classes, byDesc, loading, clean>>
    BY DEF Resolve
  <1>2. stack' = [stack EXCEPT ![Len(stack)] = b]
    BY Zenon DEF Resolve, Top, Last
  <1>3. h \in Desc /\ byDesc[h] \in 1..Len(classes) /\ classes[byDesc[h]].desc = h /\ byDesc[h] \in Nat
    <2>1. h \in Desc
      BY <1>1, TopFacts
    <2> QED
      BY <2>1 DEF Resolve, Known, IInv, TypeOK, ClassesOK
  <1>4. /\ Top \in Activation /\ Top.got \in Seq(Nat) /\ Top.todo \in Seq(Desc)
        /\ stack \in Seq(Activation) /\ Len(stack) \in Nat \ {0}
    BY <1>1, TopFacts DEF IInv, TypeOK
  <1>5. {got[j] : j \in 1..Len(got)} = {Top.got[j] : j \in 1..Len(Top.got)} \cup {byDesc[h]}
    <2> DEFINE s == Top.got
               x == byDesc[h]
    <2>1. s \in Seq(Nat) /\ x \in Nat /\ got = Append(s, x)
      BY <1>3, <1>4
    <2> HIDE DEF s, x, got
    <2>2. /\ Len(got) = Len(s) + 1 /\ got[Len(s) + 1] = x /\ \A j \in 1..Len(s) : got[j] = s[j]
          /\ Len(s) \in Nat
      BY <2>1
    <2>3. /\ Len(s) + 1 \in 1..Len(got) /\ \A j \in 1..Len(s) : j \in 1..Len(got)
          /\ \A j \in 1..Len(got) : j \in 1..Len(s) \/ j = Len(s) + 1
      BY <2>2
    <2>4. {got[j] : j \in 1..Len(got)} = {s[j] : j \in 1..Len(s)} \cup {x}
      BY <2>2, <2>3
    <2> QED
      BY <2>4 DEF s, x
  <1>6. {Top.todo[j] : j \in 1..Len(Top.todo)} = {h} \cup {todo[j] : j \in 1..Len(todo)}
    <2> DEFINE s == Top.todo
    <2>1. s \in Seq(Desc) /\ s # <<>> /\ todo = Tail(s) /\ h = Head(s)
      BY <1>1, <1>4
    <2> HIDE DEF s, h, todo
    <2>2. /\ Len(s) \in Nat /\ Len(s) # 0 /\ Len(todo) = Len(s) - 1 /\ h = s[1]
          /\ \A j \in 1..(Len(s) - 1) : todo[j] = s[j + 1]
      BY <2>1
    <2>3. /\ 1 \in 1..Len(s) /\ \A j \in 1..Len(todo) : j + 1 \in 1..Len(s) /\ todo[j] = s[j + 1]
          /\ \A j \in 1..Len(s) : j = 1 \/ (j - 1 \in 1..Len(todo) /\ todo[j - 1] = s[j])
      BY <2>2
    <2>4. {s[j] : j \in 1..Len(s)} = {h} \cup {todo[j] : j \in 1..Len(todo)}
      BY <2>2, <2>3
    <2> QED
      BY <2>4 DEF s
  <1> HIDE DEF got, todo
  <1>7. b.desc = Top.desc /\ b.id = Top.id /\ b.got = got /\ b.todo = todo
    BY <1>4 DEF Activation
  <1> HIDE DEF b
  <1>8. Replaced(stack, stack') /\ stack'[Len(stack)] = b
    BY <1>2, <1>4 DEF Replaced
  <1>9. GotBy(b) = GotBy(Top) \cup {byDesc[h]} /\ ToDo(Top) = {h} \cup ToDo(b)
    BY <1>5, <1>6, <1>7 DEF GotBy, ToDo
  <1> HIDE DEF h
  <1> QED
    BY <1>1, <1>3, <1>7, <1>8, <1>9 DEF h

(* Loading a class fails for a reason, or starts. *)
BeginFails(s, d) ==
    /\ stack' = <<>> /\ clean' = FALSE /\ loading' = loading
    /\ d \in Undefined \/ InProgress(d)
BeginPushes(s, d) ==
    /\ Pushed(s, stack', d) /\ clean' = clean
    /\ IF world[d].src = "dex" THEN loading' = Append(loading, d) /\ ~InProgress(d)
       ELSE loading' = loading

LEMMA BeginIs ==
    ASSUME IInv, NEW d \in Desc, NEW s \in Seq(Activation), Begin(s, d)
    PROVE  UNCHANGED <<classes, byDesc>> /\ (BeginFails(s, d) \/ BeginPushes(s, d))
  <1> DEFINE A == Activated(d)
  <1>1. A \in Activation
    <2>1. Deps(d) \in Seq(Desc)
      BY DepsFacts DEF IInv, TypeOK
    <2> QED
      BY <2>1 DEF Activated, Activation
  <1> HIDE DEF A
  <1>2. ASSUME stack' = Append(s, A) PROVE Pushed(s, stack', d)
    <2>1. Pushed(s, stack', d) <=> /\ Len(stack') = Len(s) + 1 /\ \A i \in 1..Len(s) : stack'[i] = s[i]
                                   /\ stack'[Len(s) + 1] = A
      BY DEF Pushed, A
    <2> QED
      BY <1>1, <1>2, <2>1
  <1>3. CASE Fail /\ (d \in Undefined \/ InProgress(d))
    BY <1>3 DEF Fail, BeginFails
  <1>4. CASE world[d].src = "dex" /\ ~InProgress(d)
    BY <1>2, <1>4 DEF Begin, BeginPushes, A
  <1>5. CASE world[d].src # "dex" /\ ShimOrNative(d)
    BY <1>2, <1>5 DEF Begin, BeginPushes, A
  <1>6. CASE world[d].src # "dex" /\ ~ShimOrNative(d)
    BY <1>3, <1>6 DEF Begin, Undefined
  <1>7. CASE world[d].src = "dex" /\ InProgress(d)
    BY <1>3, <1>7 DEF Begin
  <1> QED
    BY <1>4, <1>5, <1>6, <1>7

LEMMA RegisterNativeIs ==
    ASSUME IInv, NEW h \in Offered, RegisterNative(h)
    PROVE  /\ UNCHANGED <<world, byDesc, loading, stack, clean>> /\ stack = <<>>
           /\ SameShape(classes, classes')
           /\ \A c \in 1..Len(classes) : /\ classes'[c].linked = classes[c].linked
                                         /\ classes'[c].layout = classes[c].layout
                                         /\ classes'[c].offsets = classes[c].offsets
  <1> DEFINE id == byDesc[h.cls]
             r == classes[id]
             new == [r EXCEPT !.dispatch = [@ EXCEPT ![h.native.key] = AsNative(h.native)]]
  <1>1. /\ UNCHANGED <<world, byDesc, loading, stack, clean>> /\ stack = <<>> /\ classes' = Patched(h)
    BY DEF RegisterNative
  <1>2. h.cls \in Desc /\ classes \in Seq(Class)
    BY ClassTableAssumption DEF IInv, TypeOK
  <1>3. CASE Known(h.cls)
    <2>1. id \in 1..Len(classes) /\ r \in Class
      BY <1>2, <1>3 DEF Known, IInv, ClassesOK
    <2>2. classes' = [classes EXCEPT ![id] = new]
      BY <1>1, <1>3 DEF Patched
    <2>3. /\ new.desc = r.desc /\ new.super = r.super /\ new.ifaces = r.ifaces /\ new.iface = r.iface
          /\ new.linked = r.linked /\ new.layout = r.layout /\ new.offsets = r.offsets
      <3> HIDE DEF r
      <3> QED
        BY <2>1 DEF Class
    <2> HIDE DEF new
    <2>4. /\ Len(classes') = Len(classes) /\ classes'[id] = new
          /\ \A c \in 1..Len(classes) : c # id => classes'[c] = classes[c]
      BY <1>2, <2>1, <2>2
    <2> QED
      BY <1>1, <2>3, <2>4 DEF SameShape
  <1>4. CASE ~Known(h.cls)
    BY <1>1, <1>4 DEF Patched, SameShape
  <1> QED
    BY <1>3, <1>4

-----------------------------------------------------------------------------
(* The hierarchy *)

HierInv ==
    /\ ClassesAs(classes, world) /\ StackAs(stack, classes, world) /\ Chain(stack)
    /\ OwnIds(stack, classes) /\ ObjectFirst(classes, byDesc, stack)

LEMMA DescsKept ==
    ASSUME NEW cls, NEW cls2, NEW S, NEW n, S \subseteq 1..n,
           \A c \in 1..n : cls2[c].desc = cls[c].desc
    PROVE  Descs(cls2, S) = Descs(cls, S)
  BY DEF Descs

LEMMA FrameAsKept ==
    ASSUME NEW cls, NEW cls2, NEW w, NEW a, FrameOK(a, cls, w), FrameAs(a, cls, w),
           \A c \in 1..Len(cls) : cls2[c].desc = cls[c].desc
    PROVE  FrameAs(a, cls2, w)
  <1>1. GotBy(a) \subseteq 1..Len(cls)
    BY DEF FrameOK, GotBy
  <1>2. Descs(cls2, GotBy(a)) = Descs(cls, GotBy(a))
    BY <1>1, DescsKept, ZenonT(60)
  <1> QED
    BY <1>2 DEF FrameAs

LEMMA ShapeKept ==
    ASSUME NEW cls, NEW cls2, NEW w, Len(cls) \in Nat, ClassesAs(cls, w), SameShape(cls, cls2)
    PROVE  ClassesAs(cls2, w)
  <1> SUFFICES ASSUME NEW c \in 1..Len(cls)
               PROVE  /\ Ups(cls2, c) \subseteq 1..(c - 1)
                      /\ Descs(cls2, Ups(cls2, c)) = NeedsIn(w, cls2[c].desc, FALSE)
                      /\ cls2[c].iface = w[cls2[c].desc].iface
    BY DEF ClassesAs, SameShape
  <1>1. Ups(cls2, c) = Ups(cls, c)
    BY DEF Ups, SameShape
  <1>2. Ups(cls, c) \subseteq 1..(c - 1)
    BY DEF ClassesAs
  <1>3. \A b \in 1..(c - 1) : cls2[b].desc = cls[b].desc
    BY DEF SameShape
  <1>4. Descs(cls2, Ups(cls, c)) = Descs(cls, Ups(cls, c))
    BY <1>2, <1>3, DescsKept, ZenonT(60)
  <1>5. cls2[c].desc = cls[c].desc /\ cls2[c].iface = cls[c].iface
    BY DEF SameShape
  <1> QED
    BY <1>1, <1>2, <1>4, <1>5 DEF ClassesAs

LEMMA ChainReplaced ==
    ASSUME NEW st, NEW st2, Len(st) \in Nat \ {0}, Chain(st), Replaced(st, st2),
           st2[Len(st)].desc = st[Len(st)].desc
    PROVE  Chain(st2)
  <1> SUFFICES ASSUME NEW i \in 1..(Len(st) - 1)
               PROVE  st2[i].todo # <<>> /\ st2[i + 1].desc = Head(st2[i].todo)
    BY DEF Chain, Replaced
  <1>1. st2[i] = st[i]
    BY DEF Replaced
  <1>2. st2[i + 1].desc = st[i + 1].desc
    <2>1. CASE i + 1 = Len(st)
      BY <2>1
    <2>2. CASE i + 1 # Len(st)
      <3>1. i + 1 \in 1..(Len(st) - 1)
        BY <2>2
      <3> QED
        BY <3>1 DEF Replaced
    <2> QED
      BY <2>1, <2>2
  <1> QED
    BY <1>1, <1>2 DEF Chain

LEMMA EnterHier == ASSUME IInv, HierInv, Enter PROVE HierInv'
  <1> DEFINE d == Top.desc
             n == Len(stack)
             id == Len(classes) + 1
             a == stack'[n]
  <1>1. /\ stack # <<>> /\ Top.todo = <<>> /\ Top.id = 0 /\ world' = world
        /\ Len(classes') = id /\ \A c \in 1..Len(classes) : classes'[c] = classes[c]
        /\ classes'[id].desc = d /\ classes'[id].linked = FALSE
        /\ classes'[id].iface = world[d].iface
        /\ Ups(classes', id) = GotBy(Top)
        /\ byDesc'[d] = id /\ \A e \in Desc : e # d => byDesc'[e] = byDesc[e]
        /\ Replaced(stack, stack')
        /\ a.desc = d /\ a.id = id /\ a.got = <<>>
        /\ ToDo(a) \subseteq {world[d].const} \ {None}
    BY EnterIs
  <1>2. /\ n \in Nat \ {0} /\ Top = stack[n] /\ d \in Desc /\ Object \in Desc
        /\ FrameOK(Top, classes, world) /\ Len(classes) \in Nat
    BY <1>1, TopFacts, ClassTableAssumption DEF IInv, TypeOK
  <1> HIDE DEF d, n, a
  <1>3. Len(stack') = n /\ \A i \in 1..n : i = n \/ (i \in 1..(n - 1) /\ stack'[i] = stack[i])
    BY <1>1, <1>2 DEF Replaced, n
  <1>4. \A c \in 1..Len(classes') : c \in 1..Len(classes) \/ c = id
    BY <1>1, <1>2
  <1>5. GotBy(Top) \subseteq 1..Len(classes)
    BY <1>2 DEF FrameOK, GotBy
  <1>6. ClassesAs(classes', world)
    <2>1. ASSUME NEW c \in 1..Len(classes)
          PROVE  /\ Ups(classes', c) \subseteq 1..(c - 1)
                 /\ Descs(classes', Ups(classes', c)) = NeedsIn(world, classes'[c].desc, FALSE)
                 /\ classes'[c].iface = world[classes'[c].desc].iface
      <3>1. classes'[c] = classes[c] /\ Ups(classes', c) = Ups(classes, c)
        BY <1>1 DEF Ups
      <3>2. /\ Ups(classes, c) \subseteq 1..(c - 1)
            /\ Descs(classes, Ups(classes, c)) = NeedsIn(world, classes[c].desc, FALSE)
            /\ classes[c].iface = world[classes[c].desc].iface
        BY DEF HierInv, ClassesAs
      <3>3. \A b \in 1..(c - 1) : classes'[b].desc = classes[b].desc
        BY <1>1, <1>2
      <3>4. Descs(classes', Ups(classes, c)) = Descs(classes, Ups(classes, c))
        BY <3>2, <3>3, DescsKept, ZenonT(60)
      <3> QED
        BY <3>1, <3>2, <3>4
    <2>2. /\ Ups(classes', id) \subseteq 1..(id - 1)
          /\ Descs(classes', Ups(classes', id)) = NeedsIn(world, d, FALSE)
      <3>0. \A c \in 1..Len(classes) : classes'[c].desc = classes[c].desc
        BY <1>1
      <3>1. Descs(classes', GotBy(Top)) = Descs(classes, GotBy(Top))
        BY <1>5, <3>0, DescsKept, ZenonT(60)
      <3>2. FrameAs(Top, classes, world) /\ ToDo(Top) = {}
        BY <1>1, <1>2 DEF HierInv, StackAs, ToDo, n
      <3>3. Descs(classes, GotBy(Top)) = NeedsIn(world, d, FALSE)
        BY <1>1, <3>2 DEF FrameAs, d
      <3>4. id - 1 = Len(classes)
        BY <1>2
      <3> QED
        BY <1>1, <1>5, <3>1, <3>3, <3>4
    <2> QED
      BY <1>1, <1>4, <2>1, <2>2 DEF ClassesAs
  <1>7. StackAs(stack', classes', world)
    <2>1. ASSUME NEW i \in 1..(n - 1) PROVE FrameAs(stack'[i], classes', world)
      <3>1. i \in 1..n /\ stack'[i] = stack[i]
        BY <1>1, <1>2 DEF Replaced, n
      <3>2. FrameOK(stack[i], classes, world) /\ FrameAs(stack[i], classes, world)
        BY <3>1 DEF HierInv, StackAs, IInv, StackOK, n
      <3>3. \A c \in 1..Len(classes) : classes'[c].desc = classes[c].desc
        BY <1>1
      <3> QED
        BY <3>1, <3>2, <3>3, FrameAsKept
    <2>2. FrameAs(a, classes', world)
      <3>1. a.id # 0
        BY <1>1, <1>2
      <3> QED
        BY <1>1, <3>1 DEF FrameAs
    <2> QED
      BY <1>3, <2>1, <2>2 DEF StackAs, a
  <1>8. Chain(stack')
    BY <1>1, <1>2, ChainReplaced DEF HierInv, n, a, d
  <1>9. OwnIds(stack', classes')
    <2>1. \A i \in 1..(n - 1) : /\ i \in 1..n /\ stack'[i] = stack[i]
                                /\ stack[i].id # 0 => stack[i].id \in 1..Len(classes)
      <3>1. \A i \in 1..n : FrameOK(stack[i], classes, world)
        BY DEF n, IInv, StackOK
      <3>2. \A i \in 1..n : stack[i].id # 0 => stack[i].id \in 1..Len(classes)
        BY <3>1 DEF FrameOK
      <3>3. \A i \in 1..(n - 1) : i \in 1..n /\ stack'[i] = stack[i]
        BY <1>1, <1>2 DEF Replaced, n
      <3> QED
        BY <3>2, <3>3
    <2>2. \A i \in 1..(n - 1) : stack'[i].id # id
      BY <1>2, <2>1
    <2>3. ASSUME NEW i \in 1..Len(stack'), stack'[i].id # 0
          PROVE  classes'[stack'[i].id].linked = FALSE
      <3>1. CASE i = n
        BY <1>1, <3>1 DEF a
      <3>2. CASE i \in 1..(n - 1)
        <4>1. i \in 1..n /\ stack'[i] = stack[i] /\ stack[i].id # 0
          BY <2>1, <2>3, <3>2
        <4>2. stack[i].id \in 1..Len(classes)
          BY <2>1, <3>2, <4>1
        <4>3. classes[stack[i].id].linked = FALSE
          BY <4>1 DEF HierInv, OwnIds, n
        <4>4. classes'[stack[i].id] = classes[stack[i].id]
          BY <1>1, <4>2
        <4> QED
          BY <4>1, <4>3, <4>4
      <3> QED
        BY <1>3, <3>1, <3>2
    <2>4. ASSUME NEW i \in 1..Len(stack'), NEW j \in 1..Len(stack'),
                 stack'[i].id # 0, stack'[i].id = stack'[j].id
          PROVE  i = j
      <3>1. CASE i = n
        BY <1>1, <1>3, <2>2, <2>4, <3>1 DEF a
      <3>2. CASE j = n
        BY <1>1, <1>3, <2>2, <2>4, <3>2 DEF a
      <3>3. CASE i \in 1..(n - 1) /\ j \in 1..(n - 1)
        BY <2>1, <2>4, <3>3 DEF HierInv, OwnIds, n
      <3> QED
        BY <1>3, <3>1, <3>2, <3>3
    <2> QED
      BY <2>3, <2>4 DEF OwnIds
  <1>10. ObjectFirst(classes', byDesc', stack')
    <2>1. classes' # <<>>
      BY <1>1, <1>2
    <2>2. byDesc'[Object] = 1
      <3>1. CASE classes = <<>>
        <4>1. d = Object
          BY <1>2, <3>1 DEF HierInv, ObjectFirst, n, d
        <4>2. Len(classes) = 0
          BY <3>1
        <4> QED
          BY <1>1, <4>1, <4>2
      <3>2. CASE classes # <<>>
        <4>1. d # Object /\ byDesc[Object] = 1
          BY <1>1, <1>2, <3>2 DEF HierInv, ObjectFirst, n, d
        <4> QED
          BY <1>1, <1>2, <4>1
      <3> QED
        BY <3>1, <3>2
    <2>3. ASSUME NEW i \in 1..Len(stack'), stack'[i].id = 0 PROVE stack'[i].desc # Object
      <3>1. i # n
        BY <1>1, <1>2, <2>3 DEF a
      <3>2. i \in 1..(n - 1) /\ stack'[i] = stack[i]
        BY <1>3, <3>1
      <3>3. 1 \in 1..n /\ i \in 1..n /\ n # 1
        BY <1>2, <3>2
      <3>4. classes # <<>>
        BY <1>2, <3>2, <3>3 DEF HierInv, ObjectFirst, n
      <3> QED
        BY <2>3, <3>2, <3>3, <3>4 DEF HierInv, ObjectFirst, n
    <2> QED
      BY <2>1, <2>2, <2>3 DEF ObjectFirst
  <1> QED
    BY <1>1, <1>6, <1>7, <1>8, <1>9, <1>10 DEF HierInv

LEMMA FinishHier == ASSUME IInv, HierInv, Finish PROVE HierInv'
  <1> DEFINE n == Len(stack)
             id == Top.id
  <1>1. /\ stack # <<>> /\ id # 0 /\ id \in 1..Len(classes)
        /\ UNCHANGED <<world, byDesc>>
        /\ SameShape(classes, classes')
        /\ \A b \in 1..Len(classes) : b # id => classes'[b] = classes[b]
        /\ Popped(stack, stack')
    BY FinishIs
  <1>2. n \in Nat \ {0} /\ Top = stack[n] /\ Len(classes) \in Nat
    BY <1>1, TopFacts DEF IInv, TypeOK
  <1> HIDE DEF id, n
  <1>3. /\ Len(stack') = n - 1 /\ n \in 1..n
        /\ \A i \in 1..(n - 1) : i \in 1..n /\ i # n /\ stack'[i] = stack[i]
    BY <1>1, <1>2 DEF Popped, n
  <1>4. ClassesAs(classes', world)
    BY <1>1, <1>2, ShapeKept DEF HierInv
  <1>5. StackAs(stack', classes', world)
    <2>1. \A c \in 1..Len(classes) : classes'[c].desc = classes[c].desc
      BY <1>1 DEF SameShape
    <2>2. \A i \in 1..n : FrameOK(stack[i], classes, world) /\ FrameAs(stack[i], classes, world)
      BY DEF HierInv, StackAs, IInv, StackOK, n
    <2> QED
      BY <1>3, <2>1, <2>2, FrameAsKept DEF StackAs
  <1>6. Chain(stack')
    <2>1. \A i \in 1..(n - 2) : i \in 1..(n - 1) /\ i + 1 \in 1..(n - 1)
      BY <1>2
    <2>2. Len(stack') - 1 = n - 2
      BY <1>2, <1>3
    <2> QED
      BY <1>3, <2>1, <2>2 DEF HierInv, Chain, n
  <1>7. OwnIds(stack', classes')
    <2>1. \A i \in 1..(n - 1) : stack[i].id # 0 => stack[i].id # id /\ stack[i].id \in 1..Len(classes)
      BY <1>1, <1>2, <1>3 DEF HierInv, OwnIds, IInv, StackOK, FrameOK, n, id
    <2>2. ASSUME NEW i \in 1..Len(stack'), stack'[i].id # 0
          PROVE  classes'[stack'[i].id].linked = FALSE
      <3>1. i \in 1..(n - 1) /\ i \in 1..n /\ stack'[i] = stack[i] /\ stack[i].id # 0
        BY <1>3, <2>2
      <3>2. classes'[stack[i].id] = classes[stack[i].id]
        BY <1>1, <2>1, <3>1
      <3>3. classes[stack[i].id].linked = FALSE
        BY <3>1 DEF HierInv, OwnIds, n
      <3> QED
        BY <3>1, <3>2, <3>3
    <2>3. ASSUME NEW i \in 1..Len(stack'), NEW j \in 1..Len(stack'),
                 stack'[i].id # 0, stack'[i].id = stack'[j].id
          PROVE  i = j
      <3>1. i \in 1..n /\ j \in 1..n /\ stack'[i] = stack[i] /\ stack'[j] = stack[j]
        BY <1>3
      <3> QED
        BY <2>3, <3>1 DEF HierInv, OwnIds, n
    <2> QED
      BY <2>2, <2>3 DEF OwnIds
  <1>8. ObjectFirst(classes', byDesc', stack')
    <2>1. Len(classes') = Len(classes)
      BY <1>1 DEF SameShape
    <2>2. classes # <<>> /\ classes' # <<>>
      BY <1>1, <1>2, <2>1
    <2> QED
      BY <1>1, <1>3, <2>2 DEF HierInv, ObjectFirst, n
  <1> QED
    BY <1>1, <1>4, <1>5, <1>6, <1>7, <1>8 DEF HierInv

LEMMA ResolveHier == ASSUME IInv, HierInv, Resolve PROVE HierInv'
  <1> DEFINE n == Len(stack)
             h == Head(Top.todo)
             a == stack'[n]
  <1>1. /\ stack # <<>> /\ UNCHANGED <<world, classes, byDesc>>
        /\ byDesc[h] \in 1..Len(classes) /\ classes[byDesc[h]].desc = h
        /\ Replaced(stack, stack')
        /\ a.desc = Top.desc /\ a.id = Top.id
        /\ GotBy(a) = GotBy(Top) \cup {byDesc[h]}
        /\ ToDo(Top) = {h} \cup ToDo(a)
    BY ResolveIs
  <1>2. n \in Nat \ {0} /\ Top = stack[n] /\ Len(classes) \in Nat
    BY <1>1, TopFacts DEF IInv, TypeOK
  <1> HIDE DEF n, h, a
  <1>3. Len(stack') = n /\ \A i \in 1..n : i = n \/ (i \in 1..(n - 1) /\ stack'[i] = stack[i])
    BY <1>1, <1>2 DEF Replaced, n
  <1>4. n \in 1..n /\ \A i \in 1..n : stack'[i].desc = stack[i].desc /\ stack'[i].id = stack[i].id
    BY <1>1, <1>2, <1>3 DEF a
  <1>5. StackAs(stack', classes, world)
    <2>1. FrameAs(a, classes, world)
      <3>1. FrameAs(Top, classes, world)
        BY <1>2 DEF HierInv, StackAs, n
      <3>2. Descs(classes, GotBy(a)) = Descs(classes, GotBy(Top)) \cup {h}
        BY <1>1 DEF Descs
      <3> QED
        BY <1>1, <3>1, <3>2 DEF FrameAs
    <2> QED
      BY <1>3, <2>1 DEF HierInv, StackAs, n, a
  <1>6. Chain(stack')
    BY <1>1, <1>2, ChainReplaced DEF HierInv, n, a
  <1>7. OwnIds(stack', classes)
    BY <1>3, <1>4 DEF HierInv, OwnIds, n
  <1>8. ObjectFirst(classes, byDesc, stack')
    BY <1>3, <1>4 DEF HierInv, ObjectFirst, n
  <1> QED
    BY <1>1, <1>5, <1>6, <1>7, <1>8 DEF HierInv

LEMMA ObjectNeedsNothing == ASSUME NEW w \in Worlds PROVE NeedsIn(w, Object, FALSE) = {}
  <1>1. w[Object].super = None /\ w[Object].ifaces = <<>>
    BY ClassTableAssumption
  <1>2. DepsOf(w, Object) = <<>> \o <<>>
    BY <1>1 DEF DepsOf
  <1>3. Len(DepsOf(w, Object)) = 0
    BY <1>2
  <1> HIDE DEF DepsOf
  <1> QED
    BY <1>3 DEF NeedsIn

(* d is about to be loaded: the host or the guest asks for it, or the       *)
(* innermost activation waits for it.                                       *)
Wanted(d) ==
    /\ d \in Desc /\ byDesc[d] = 0 /\ (stack = <<>> /\ classes = <<>> => d = Object)
    /\ stack # <<>> => Top.todo # <<>> /\ d = Head(Top.todo)

LEMMA PushHier ==
    ASSUME IInv, HierInv, NEW d, Wanted(d), BeginPushes(stack, d), UNCHANGED <<world, classes, byDesc>>
    PROVE  HierInv'
  <1> DEFINE n == Len(stack)
             a == Activated(d)
  <1>1. /\ Len(stack') = n + 1 /\ \A i \in 1..n : stack'[i] = stack[i]
        /\ stack'[n + 1] = a
    BY DEF BeginPushes, Pushed
  <1>2. n \in Nat /\ world \in Worlds /\ (stack # <<>> => n # 0 /\ Top = stack[n])
    BY TopFacts DEF IInv, TypeOK
  <1>3. a.desc = d /\ a.todo = Deps(d) /\ a.got = <<>> /\ a.id = 0
    BY DEF Activated
  <1> HIDE DEF n, a
  <1>4. \A i \in 1..(n + 1) : i \in 1..n \/ i = n + 1
    BY <1>2
  <1>5. StackAs(stack', classes, world)
    <2>1. FrameAs(a, classes, world)
      <3>1. Descs(classes, GotBy(a)) = {}
        BY <1>3 DEF Descs, GotBy
      <3>2. ToDo(a) = NeedsIn(world, d, FALSE)
        BY <1>3, DepsOfDeps DEF ToDo, NeedsIn
      <3> QED
        BY <1>3, <3>1, <3>2 DEF FrameAs
    <2> QED
      BY <1>1, <1>4, <2>1 DEF HierInv, StackAs, n
  <1>6. Chain(stack')
    <2> SUFFICES ASSUME NEW i \in 1..n
                 PROVE  stack'[i].todo # <<>> /\ stack'[i + 1].desc = Head(stack'[i].todo)
      <3>1. Len(stack') - 1 = n
        BY <1>1, <1>2
      <3> QED
        BY <3>1 DEF Chain
    <2>1. CASE i = n
      BY <1>1, <1>2, <1>3, <2>1 DEF Wanted, n
    <2>2. CASE i # n
      <3>1. i \in 1..(n - 1) /\ i + 1 \in 1..n
        BY <1>2, <2>2
      <3> QED
        BY <1>1, <3>1 DEF HierInv, Chain, n
    <2> QED
      BY <2>1, <2>2
  <1>7. OwnIds(stack', classes)
    BY <1>1, <1>3, <1>4 DEF HierInv, OwnIds, n
  <1>8. ObjectFirst(classes, byDesc, stack')
    <2>1. CASE classes # <<>>
      <3>1. d # Object
        BY <2>1 DEF HierInv, ObjectFirst, Wanted
      <3> QED
        BY <1>1, <1>3, <1>4, <2>1, <3>1 DEF HierInv, ObjectFirst, n
    <2>2. CASE classes = <<>>
      <3>1. stack = <<>>
        <4> SUFFICES ASSUME stack # <<>> PROVE FALSE
          OBVIOUS
        <4>1. n \in 1..n /\ Top = stack[n]
          BY <1>2
        <4>2. Top.desc = Object /\ FrameAs(Top, classes, world)
          BY <2>2, <4>1 DEF HierInv, ObjectFirst, StackAs, n
        <4>3. Top.id = 0
          <5>1. FrameOK(Top, classes, world) /\ Len(classes) = 0
            BY <2>2, TopFacts
          <5> QED
            BY <5>1 DEF FrameOK
        <4>4. ToDo(Top) = {}
          BY <1>2, <4>2, <4>3, ObjectNeedsNothing DEF FrameAs
        <4>5. Head(Top.todo) \in ToDo(Top)
          BY TopFacts DEF Wanted, ToDo
        <4> QED
          BY <4>4, <4>5
      <3>2. n = 0 /\ d = Object
        BY <2>2, <3>1 DEF Wanted, n
      <3> QED
        BY <1>1, <1>3, <2>2, <3>2 DEF ObjectFirst
    <2> QED
      BY <2>1, <2>2
  <1> QED
    BY <1>5, <1>6, <1>7, <1>8 DEF HierInv

Starts(d) == Wanted(d) /\ BeginPushes(stack, d) /\ UNCHANGED <<world, classes, byDesc>>
Fails(d) == Wanted(d) /\ BeginFails(stack, d) /\ UNCHANGED <<world, classes, byDesc>>

LEMMA StepIs ==
    ASSUME IInv, [Next]_vars
    PROVE  \/ UNCHANGED vars \/ Resolve \/ Enter \/ Finish
           \/ \E d \in Desc : Starts(d) \/ Fails(d)
           \/ \E h \in Offered : RegisterNative(h)
  <1>1. stack \in Seq(Activation)
    BY DEF IInv, TypeOK
  <1>2. ASSUME NEW d \in Desc, Load(d) PROVE UNCHANGED vars \/ Starts(d) \/ Fails(d)
    <2>1. CASE Known(d)
      BY <1>2, <2>1 DEF Load, vars
    <2>2. CASE ~Known(d)
      <3>1. Begin(stack, d) /\ stack = <<>> /\ (classes = <<>> => d = Object) /\ world' = world
        BY <1>2, <2>2 DEF Load
      <3>2. Wanted(d)
        BY <2>2, <3>1 DEF Wanted, Known
      <3> QED
        BY <1>1, <3>1, <3>2, BeginIs DEF Starts, Fails
    <2> QED
      BY <2>1, <2>2
  <1>3. ASSUME Descend PROVE \E d \in Desc : Starts(d) \/ Fails(d)
    <2> DEFINE d == Head(Top.todo)
    <2>1. stack # <<>> /\ Top.todo # <<>> /\ ~Known(d) /\ Begin(stack, d) /\ world' = world
      BY <1>3 DEF Descend
    <2>2. d \in Desc
      BY <2>1, TopFacts
    <2> HIDE DEF d
    <2>3. Wanted(d)
      BY <2>1, <2>2 DEF Wanted, Known, d
    <2>4. Starts(d) \/ Fails(d)
      BY <1>1, <2>1, <2>2, <2>3, BeginIs DEF Starts, Fails
    <2> QED
      BY <2>2, <2>4
  <1> QED
    BY <1>2, <1>3 DEF Next

LEMMA HierStep == ASSUME IInv, HierInv, [Next]_vars PROVE HierInv'
  <1>1. CASE UNCHANGED vars
    BY <1>1 DEF HierInv, vars
  <1>2. ASSUME NEW d \in Desc, Fails(d) PROVE HierInv'
    <2>1. UNCHANGED <<world, classes, byDesc>> /\ stack' = <<>> /\ Len(stack') = 0
      BY <1>2 DEF Fails, BeginFails
    <2>2. ObjectFirst(classes, byDesc, stack') /\ OwnIds(stack', classes) /\ Chain(stack')
      BY <2>1 DEF HierInv, ObjectFirst, OwnIds, Chain
    <2> QED
      BY <2>1, <2>2 DEF HierInv, StackAs
  <1>3. ASSUME NEW h \in Offered, RegisterNative(h) PROVE HierInv'
    <2>1. UNCHANGED <<world, byDesc, stack>> /\ stack = <<>> /\ Len(stack) = 0 /\ SameShape(classes, classes')
      BY <1>3, RegisterNativeIs
    <2>2. ClassesAs(classes', world)
      <3>1. Len(classes) \in Nat
        BY DEF IInv, TypeOK
      <3> QED
        BY <2>1, <3>1, ShapeKept DEF HierInv
    <2>3. classes = <<>> <=> classes' = <<>>
      <3>1. classes \in Seq(Class) /\ classes' \in Seq(Class) /\ Len(classes') = Len(classes)
        BY <1>3, <2>1, RegisterNativeInv DEF IInv, TypeOK, SameShape
      <3> QED
        BY <3>1
    <2>4. ObjectFirst(classes', byDesc, stack) /\ OwnIds(stack, classes')
      BY <2>1, <2>3 DEF HierInv, ObjectFirst, OwnIds
    <2> QED
      BY <2>1, <2>2, <2>4 DEF HierInv, StackAs
  <1>4. ASSUME NEW d \in Desc, Starts(d) PROVE HierInv'
    BY <1>4, PushHier DEF Starts
  <1> QED
    BY <1>1, <1>2, <1>3, <1>4, StepIs, ResolveHier, EnterHier, FinishHier

LEMMA HierInit == Init => HierInv
  BY DEF Init, HierInv, ClassesAs, StackAs, Chain, OwnIds, ObjectFirst

-----------------------------------------------------------------------------
(* The classes in progress *)

RunInv == LoadingAs(stack, loading, world, clean)

LEMMA RunKept ==
    ASSUME NEW st, NEW st2, NEW ld, NEW w, NEW cl, LoadingAs(st, ld, w, cl), Len(st2) = Len(st),
           \A i \in 1..Len(st) : st2[i].desc = st[i].desc
    PROVE  LoadingAs(st2, ld, w, cl)
  <1>1. PICK f \in [0..Len(st) -> Nat] : LoadingRun(f, st, ld, w, cl)
    BY DEF LoadingAs
  <1>2. LoadingRun(f, st2, ld, w, cl)
    BY <1>1 DEF LoadingRun
  <1> QED
    BY <1>2 DEF LoadingAs

LEMMA RunRange ==
    ASSUME NEW st, NEW ld, NEW w, NEW cl, Len(st) \in Nat, Len(ld) \in Nat,
           NEW f \in [0..Len(st) -> Nat], LoadingRun(f, st, ld, w, cl)
    PROVE  /\ \A i \in 0..Len(st) : f[i] \in 0..Len(ld)
           /\ \A i \in 1..Len(st) : i - 1 \in 0..Len(st) /\ i \in 0..Len(st)
           /\ \A i \in 1..Len(st) : w[st[i].desc].src = "dex" => f[i] \in 1..Len(ld)
  <1>1. \A i \in 0..Len(st) : f[i] <= f[Len(st)]
    BY DEF LoadingRun
  <1>2. f[Len(st)] = Len(ld)
    BY DEF LoadingRun
  <1>3. \A i \in 0..Len(st) : f[i] \in 0..Len(ld)
    BY <1>1, <1>2
  <1>4. \A i \in 1..Len(st) : i - 1 \in 0..Len(st) /\ i \in 0..Len(st)
    OBVIOUS
  <1>5. \A i \in 1..Len(st) : w[st[i].desc].src = "dex" => f[i] = f[i - 1] + 1
    BY DEF LoadingRun
  <1>6. ASSUME NEW i \in 1..Len(st), w[st[i].desc].src = "dex" PROVE f[i] \in 1..Len(ld)
    <2>1. f[i] = f[i - 1] + 1
      BY <1>5, <1>6
    <2>2. f[i] \in 0..Len(ld) /\ f[i - 1] \in 0..Len(ld)
      BY <1>3, <1>4
    <2> QED
      BY <2>1, <2>2
  <1> QED
    BY <1>3, <1>4, <1>6

LEMMA RunPushed ==
    ASSUME NEW st, NEW st2, NEW ld \in Seq(Desc), NEW ld2, NEW w, NEW cl, NEW d \in Desc,
           Len(st) \in Nat, LoadingAs(st, ld, w, cl),
           Len(st2) = Len(st) + 1, \A i \in 1..Len(st) : st2[i] = st[i],
           st2[Len(st) + 1].desc = d,
           ld2 = IF w[d].src = "dex" THEN Append(ld, d) ELSE ld
    PROVE  LoadingAs(st2, ld2, w, cl)
  <1> DEFINE n == Len(st)
             l == Len(ld)
  <1>1. PICK f \in [0..n -> Nat] : LoadingRun(f, st, ld, w, cl)
    BY DEF LoadingAs
  <1>2. n \in Nat /\ l \in Nat
    OBVIOUS
  <1>3. /\ \A i \in 0..n : f[i] \in 0..l
        /\ \A i \in 1..n : i - 1 \in 0..n /\ i \in 0..n
        /\ \A i \in 1..n : w[st[i].desc].src = "dex" => f[i] \in 1..l
    <2>1. Len(st) \in Nat /\ Len(ld) \in Nat /\ f \in [0..Len(st) -> Nat]
      OBVIOUS
    <2> QED
      BY <1>1, <2>1, RunRange, Zenon
  <1>4. /\ \A p \in 1..l : ld2[p] = ld[p]
        /\ w[d].src = "dex" => Len(ld2) = l + 1 /\ ld2[l + 1] = d
        /\ w[d].src # "dex" => Len(ld2) = l
    OBVIOUS
  <1> DEFINE g == [i \in 0..(n + 1) |-> IF i = n + 1 THEN Len(ld2) ELSE f[i]]
  <1>5. g[n + 1] = Len(ld2) /\ \A i \in 0..n : g[i] = f[i]
    BY <1>2
  <1>6. g \in [0..(n + 1) -> Nat]
    BY <1>2, <1>4
  <1> HIDE DEF g, n, l
  <1>7. f[n] = l
    BY <1>1 DEF LoadingRun, n, l
  <1>8. ASSUME NEW i \in 1..(n + 1)
        PROVE  IF w[st2[i].desc].src = "dex" THEN g[i] = g[i - 1] + 1 /\ ld2[g[i]] = st2[i].desc
               ELSE g[i] = g[i - 1]
    <2>1. CASE i = n + 1
      <3>1. g[i] = Len(ld2) /\ g[i - 1] = l
        BY <1>2, <1>5, <1>7, <2>1
      <3> QED
        BY <1>4, <2>1, <3>1 DEF n
    <2>2. CASE i # n + 1
      <3>1. i \in 1..n
        BY <1>2, <2>2
      <3>2. g[i] = f[i] /\ g[i - 1] = f[i - 1] /\ st2[i] = st[i]
        BY <1>3, <1>5, <3>1 DEF n
      <3> QED
        BY <1>1, <1>3, <1>4, <3>1, <3>2 DEF LoadingRun, n
    <2> QED
      BY <2>1, <2>2
  <1>9. \A i, j \in 0..(n + 1) : i <= j => g[i] <= g[j]
    <2>1. \A i, j \in 0..n : i <= j => f[i] <= f[j]
      BY <1>1 DEF LoadingRun, n
    <2>2. \A i \in 0..(n + 1) : i \in 0..n \/ i = n + 1
      BY <1>2
    <2>3. l <= Len(ld2) /\ Len(ld2) \in Nat
      BY <1>2, <1>4
    <2>4. \A i \in 0..n : g[i] \in Nat /\ g[i] <= g[n + 1]
      BY <1>2, <1>3, <1>5, <2>3
    <2>5. \A i \in 0..n : ~(n + 1 <= i)
      BY <1>2
    <2> QED
      BY <1>5, <2>1, <2>2, <2>3, <2>4, <2>5
  <1>10. ASSUME NEW p \in 1..Len(ld2)
         PROVE  p <= g[0] \/ \E i \in 1..(n + 1) : w[st2[i].desc].src = "dex" /\ g[i] = p
    <2>1. CASE p \in 1..l
      <3>1. p <= f[0] \/ \E i \in 1..n : w[st[i].desc].src = "dex" /\ f[i] = p
        BY <1>1, <2>1 DEF LoadingRun, n, l
      <3>2. \A i \in 1..n : i \in 1..(n + 1) /\ g[i] = f[i] /\ st2[i] = st[i]
        BY <1>2, <1>3, <1>5 DEF n
      <3>3. g[0] = f[0]
        BY <1>2, <1>5
      <3> QED
        BY <3>1, <3>2, <3>3
    <2>2. CASE p \notin 1..l
      <3>1. w[d].src = "dex" /\ p = l + 1
        BY <1>2, <1>4, <2>2
      <3>2. n + 1 \in 1..(n + 1)
        BY <1>2
      <3> QED
        BY <1>4, <1>5, <3>1, <3>2 DEF n
    <2> QED
      BY <2>1, <2>2
  <1>11. g[0] = f[0] /\ f[0] \in 0..l
    BY <1>2, <1>3, <1>5
  <1>12. \A p \in 1..g[0] : BlockedIn(w, ld2[p], UnbundledIn(w))
    <2>1. \A p \in 1..f[0] : p \in 1..l
      BY <1>2, <1>11
    <2> QED
      BY <1>1, <1>4, <1>11, <2>1 DEF LoadingRun
  <1>13. cl => g[0] = 0
    BY <1>1, <1>11 DEF LoadingRun
  <1>14. LoadingRun(g, st2, ld2, w, cl)
    BY <1>5, <1>8, <1>9, <1>10, <1>12, <1>13 DEF LoadingRun, n
  <1> QED
    BY <1>6, <1>14 DEF LoadingAs, n

LEMMA RunPopped ==
    ASSUME NEW st, NEW st2, NEW ld \in Seq(Desc), NEW ld2, NEW w, NEW cl,
           Len(st) \in Nat \ {0}, LoadingAs(st, ld, w, cl), Popped(st, st2),
           ld2 = IF w[st[Len(st)].desc].src = "dex" THEN Front(ld) ELSE ld
    PROVE  LoadingAs(st2, ld2, w, cl)
  <1> DEFINE n == Len(st)
             l == Len(ld)
             dex == w[st[n].desc].src = "dex"
  <1>1. PICK f \in [0..n -> Nat] : LoadingRun(f, st, ld, w, cl)
    BY DEF LoadingAs
  <1>2. n \in Nat \ {0} /\ l \in Nat /\ n \in 1..n
    OBVIOUS
  <1>3. /\ \A i \in 0..n : f[i] \in 0..l
        /\ \A i \in 1..n : i - 1 \in 0..n /\ i \in 0..n
        /\ \A i \in 1..n : w[st[i].desc].src = "dex" => f[i] \in 1..l
    <2>1. Len(st) \in Nat /\ Len(ld) \in Nat /\ f \in [0..Len(st) -> Nat]
      OBVIOUS
    <2> QED
      BY <1>1, <2>1, RunRange, Zenon
  <1>4. f[n] = l /\ (dex => f[n] = f[n - 1] + 1) /\ (~dex => f[n] = f[n - 1])
    BY <1>1, <1>2 DEF LoadingRun
  <1>5. Len(ld2) = f[n - 1] /\ \A p \in 1..Len(ld2) : p \in 1..l /\ ld2[p] = ld[p]
    <2>1. CASE dex
      <3>1. l # 0
        BY <1>2, <1>3, <2>1
      <3>2. ld2 = SubSeq(ld, 1, l - 1)
        BY <2>1 DEF Front
      <3>3. Len(ld2) = l - 1 /\ \A p \in 1..(l - 1) : ld2[p] = ld[p]
        BY <3>1, <3>2
      <3>4. f[n - 1] = l - 1
        BY <1>2, <1>3, <1>4, <2>1
      <3> QED
        BY <1>2, <3>3, <3>4
    <2>2. CASE ~dex
      BY <1>4, <2>2
    <2> QED
      BY <2>1, <2>2
  <1> DEFINE g == [i \in 0..(n - 1) |-> f[i]]
  <1>6. g \in [0..(n - 1) -> Nat] /\ \A i \in 0..(n - 1) : i \in 0..n /\ g[i] = f[i]
    BY <1>2
  <1> HIDE DEF g
  <1>7. /\ Len(st2) = n - 1 /\ \A i \in 1..(n - 1) : st2[i] = st[i] /\ i \in 1..n
        /\ \A i \in 1..(n - 1) : i \in 0..(n - 1) /\ i - 1 \in 0..(n - 1)
    BY <1>2 DEF Popped
  <1> HIDE DEF n, l, dex
  <1>8. \A i \in 0..(n - 1) : f[i] <= f[n - 1]
    BY <1>1, <1>2, <1>6 DEF LoadingRun, n
  <1>9. ASSUME NEW i \in 1..(n - 1)
        PROVE  IF w[st2[i].desc].src = "dex" THEN g[i] = g[i - 1] + 1 /\ ld2[g[i]] = st2[i].desc
               ELSE g[i] = g[i - 1]
    <2>1. g[i] = f[i] /\ g[i - 1] = f[i - 1] /\ st2[i] = st[i] /\ i \in 1..n
      BY <1>6, <1>7
    <2>2. IF w[st[i].desc].src = "dex" THEN f[i] = f[i - 1] + 1 /\ ld[f[i]] = st[i].desc
          ELSE f[i] = f[i - 1]
      BY <1>1, <2>1 DEF LoadingRun, n
    <2>3. w[st[i].desc].src = "dex" => f[i] \in 1..Len(ld2)
      <3>1. f[i] <= f[n - 1] /\ f[n - 1] \in Nat
        BY <1>2, <1>3, <1>7, <1>8
      <3> QED
        BY <1>3, <1>5, <2>1, <3>1
    <2> QED
      BY <1>5, <2>1, <2>2, <2>3
  <1>10. \A i, j \in 0..(n - 1) : i <= j => g[i] <= g[j]
    BY <1>1, <1>6 DEF LoadingRun, n
  <1>11. ASSUME NEW p \in 1..Len(ld2)
         PROVE  p <= g[0] \/ \E i \in 1..(n - 1) : w[st2[i].desc].src = "dex" /\ g[i] = p
    <2>1. p \in 1..l
      BY <1>5
    <2>2. p <= f[0] \/ \E i \in 1..n : w[st[i].desc].src = "dex" /\ f[i] = p
      BY <1>1, <2>1 DEF LoadingRun, n, l
    <2>3. g[0] = f[0]
      BY <1>2, <1>6
    <2>4. ASSUME NEW i \in 1..n, w[st[i].desc].src = "dex", f[i] = p
          PROVE  i \in 1..(n - 1) /\ w[st2[i].desc].src = "dex" /\ g[i] = p
      <3>1. i # n
        <4> SUFFICES ASSUME i = n PROVE FALSE
          OBVIOUS
        <4>1. f[n] = f[n - 1] + 1
          BY <1>4, <2>4 DEF dex
        <4>2. f[n - 1] \in Nat /\ p \in 1..f[n - 1]
          BY <1>2, <1>3, <1>5
        <4> QED
          BY <2>4, <4>1, <4>2
      <3>2. i \in 1..(n - 1)
        BY <1>2, <3>1
      <3> QED
        BY <1>6, <1>7, <2>4, <3>2
    <2> QED
      BY <2>2, <2>3, <2>4
  <1>12. g[0] = f[0] /\ \A p \in 1..f[0] : p \in 1..Len(ld2)
    <2>1. 0 \in 0..(n - 1) /\ n - 1 \in 0..n /\ 0 \in 0..n
      BY <1>2
    <2>2. f[0] <= f[n - 1] /\ f[0] \in Nat /\ f[n - 1] \in Nat
      BY <1>2, <1>3, <1>8, <2>1
    <2> QED
      BY <1>5, <1>6, <2>1, <2>2
  <1>13. \A p \in 1..g[0] : BlockedIn(w, ld2[p], UnbundledIn(w))
    BY <1>1, <1>5, <1>12 DEF LoadingRun
  <1>14. cl => g[0] = 0
    BY <1>1, <1>12 DEF LoadingRun
  <1>15. g[n - 1] = Len(ld2)
    BY <1>2, <1>5, <1>6
  <1>16. LoadingRun(g, st2, ld2, w, cl)
    BY <1>7, <1>9, <1>10, <1>11, <1>13, <1>14, <1>15 DEF LoadingRun
  <1> QED
    BY <1>6, <1>7, <1>16 DEF LoadingAs

(* A load fails for a reason that blocks all activations. *)
LEMMA FailureBlocks ==
    ASSUME IInv, HierInv, NEW f, LoadingRun(f, stack, loading, world, clean), NEW d, Fails(d),
           f \in [0..Len(stack) -> Nat], NEW U, Undefined \subseteq U,
           \A p \in 1..f[0] : BlockedIn(world, loading[p], U)
    PROVE  \A j \in 1..Len(stack) : BlockedIn(world, stack[j].desc, U)
  <1> SUFFICES ASSUME stack # <<>> PROVE \A j \in 1..Len(stack) : BlockedIn(world, stack[j].desc, U)
    OBVIOUS
  <1>1. /\ stack \in Seq(Activation) /\ world \in Worlds /\ Len(stack) \in Nat \ {0}
        /\ Top = stack[Len(stack)] /\ loading \in Seq(Desc)
    BY TopFacts DEF IInv, TypeOK
  <1>2. Top.todo # <<>> /\ d = Head(Top.todo) /\ (d \in Undefined \/ InProgress(d))
    BY DEF Fails, BeginFails, Wanted
  <1>3. ASSUME NEW p \in 1..Len(loading), loading[p] = d
        PROVE  BlockedIn(world, d, U) \/ \E m \in 1..Len(stack) : stack[m].desc = d
    <2>1. p <= f[0] \/ \E i \in 1..Len(stack) : world[stack[i].desc].src = "dex" /\ f[i] = p
      BY DEF LoadingRun
    <2>2. CASE p <= f[0]
      <3>1. p \in 1..f[0]
        <4>1. 0 \in 0..Len(stack)
          BY <1>1
        <4>2. f[0] \in Nat
          BY <4>1
        <4> QED
          BY <2>2, <4>2
      <3> QED
        BY <1>3, <3>1
    <2>3. ASSUME NEW i \in 1..Len(stack), world[stack[i].desc].src = "dex", f[i] = p
          PROVE  stack[i].desc = d
      BY <1>3, <2>3 DEF LoadingRun
    <2> QED
      BY <2>1, <2>2, <2>3
  <1>4. d \in U \/ BlockedIn(world, d, U) \/ \E m \in 1..Len(stack) : stack[m].desc = d
    BY <1>2, <1>3 DEF InProgress
  <1>5. StackAs(stack, classes, world) /\ Chain(stack)
    BY DEF HierInv
  <1> QED
    BY <1>1, <1>2, <1>4, <1>5, StackBlocked

LEMMA UndefinedUnbundled == ASSUME IInv PROVE Undefined \subseteq UnbundledIn(world)
  <1>1. \A d \in Desc : world[d].src \in {"dex", "shim", "none"}
    BY ClassTableAssumption DEF IInv, TypeOK, Definition
  <1> QED
    BY <1>1 DEF Undefined, UnbundledIn, ShimOrNative

LEMMA FailsRun == ASSUME IInv, HierInv, RunInv, NEW d, Fails(d) PROVE RunInv'
  <1>1. PICK f \in [0..Len(stack) -> Nat] : LoadingRun(f, stack, loading, world, clean)
    BY DEF RunInv, LoadingAs
  <1>2. /\ loading \in Seq(Desc) /\ Len(loading) \in Nat /\ Len(stack) \in Nat
    BY DEF IInv, TypeOK
  <1>3. stack' = <<>> /\ clean' = FALSE /\ loading' = loading /\ world' = world
    BY DEF Fails, BeginFails
  <1>4. \A j \in 1..Len(stack) : BlockedIn(world, stack[j].desc, UnbundledIn(world))
    <2>1. \A p \in 1..f[0] : BlockedIn(world, loading[p], UnbundledIn(world))
      BY <1>1 DEF LoadingRun
    <2> QED
      BY <1>1, <2>1, UndefinedUnbundled, FailureBlocks
  <1>5. ASSUME NEW p \in 1..Len(loading) PROVE BlockedIn(world, loading[p], UnbundledIn(world))
    <2>1. p <= f[0] \/ \E i \in 1..Len(stack) : world[stack[i].desc].src = "dex" /\ f[i] = p
      BY <1>1 DEF LoadingRun
    <2>2. CASE p <= f[0]
      <3>1. 0 \in 0..Len(stack)
        BY <1>2
      <3>2. p \in 1..f[0]
        BY <2>2, <3>1
      <3> QED
        BY <1>1, <3>2 DEF LoadingRun
    <2>3. ASSUME NEW i \in 1..Len(stack), world[stack[i].desc].src = "dex", f[i] = p
          PROVE  BlockedIn(world, loading[p], UnbundledIn(world))
      BY <1>1, <1>4, <2>3 DEF LoadingRun
    <2> QED
      BY <2>1, <2>2, <2>3
  <1> DEFINE g == [i \in 0..0 |-> Len(loading)]
  <1>6. g \in [0..0 -> Nat] /\ g[0] = Len(loading)
    BY <1>2
  <1>7. \A i \in 0..0 : i = 0
    OBVIOUS
  <1> HIDE DEF g
  <1>8. LoadingRun(g, <<>>, loading, world, FALSE)
    <2>1. Len(<<>>) = 0
      OBVIOUS
    <2>2. \A p \in 1..Len(loading) : p <= g[0]
      BY <1>2, <1>6
    <2>3. g[0] <= g[0]
      BY <1>2, <1>6
    <2>4. \A i, j \in 0..0 : i <= j => g[i] <= g[j]
      BY <1>7, <2>3
    <2>5. 1..0 = {}
      OBVIOUS
    <2> QED
      BY <1>5, <1>6, <2>1, <2>2, <2>4, <2>5 DEF LoadingRun
  <1> QED
    BY <1>3, <1>6, <1>8 DEF RunInv, LoadingAs

LEMMA RunStep == ASSUME IInv, HierInv, RunInv, [Next]_vars PROVE RunInv'
  <1>1. /\ loading \in Seq(Desc) /\ stack \in Seq(Activation) /\ Len(stack) \in Nat
    BY DEF IInv, TypeOK
  <1>2. CASE UNCHANGED vars
    BY <1>2 DEF RunInv, vars
  <1>3. ASSUME Resolve \/ Enter PROVE RunInv'
    <2>1. /\ stack # <<>> /\ Replaced(stack, stack') /\ stack'[Len(stack)].desc = Top.desc
          /\ UNCHANGED <<world, loading, clean>>
      BY <1>3, ResolveIs, EnterIs
    <2>2. \A i \in 1..Len(stack) : stack'[i].desc = stack[i].desc
      <3>1. \A i \in 1..Len(stack) : i \in 1..(Len(stack) - 1) \/ i = Len(stack)
        BY <1>1
      <3> QED
        BY <2>1, <3>1, TopFacts DEF Replaced
    <2>3. Len(stack') = Len(stack)
      BY <2>1 DEF Replaced
    <2> QED
      BY <2>1, <2>2, <2>3, RunKept DEF RunInv
  <1>4. ASSUME NEW d \in Desc, Starts(d) PROVE RunInv'
    <2>1. /\ Pushed(stack, stack', d) /\ UNCHANGED <<world, clean>>
          /\ loading' = IF world[d].src = "dex" THEN Append(loading, d) ELSE loading
      BY <1>4 DEF Starts, BeginPushes
    <2>2. /\ Len(stack') = Len(stack) + 1 /\ \A i \in 1..Len(stack) : stack'[i] = stack[i]
          /\ stack'[Len(stack) + 1].desc = d
      BY <2>1 DEF Pushed, Activated
    <2> QED
      BY <1>1, <2>1, <2>2, RunPushed DEF RunInv
  <1>5. ASSUME Finish PROVE RunInv'
    <2>1. /\ stack # <<>> /\ Popped(stack, stack') /\ UNCHANGED <<world, clean>>
          /\ loading' = IF world[Top.desc].src = "dex" THEN Front(loading) ELSE loading
      BY <1>5, FinishIs
    <2>2. Top = stack[Len(stack)] /\ Len(stack) \in Nat \ {0}
      BY <2>1, TopFacts
    <2> QED
      BY <1>1, <2>1, <2>2, RunPopped DEF RunInv
  <1>6. ASSUME NEW h \in Offered, RegisterNative(h) PROVE RunInv'
    BY <1>6 DEF RunInv, RegisterNative
  <1> QED
    BY <1>2, <1>3, <1>4, <1>5, <1>6, StepIs, FailsRun

LEMMA RunInit == Init => RunInv
  <1> SUFFICES ASSUME Init PROVE LoadingAs(<<>>, <<>>, world, TRUE)
    BY DEF Init, RunInv
  <1> DEFINE g == [i \in 0..0 |-> 0]
  <1>1. g \in [0..0 -> Nat] /\ g[0] = 0 /\ \A i \in 0..0 : g[i] = 0
    OBVIOUS
  <1>2. Len(<<>>) = 0 /\ 1..0 = {} /\ 0 <= 0
    OBVIOUS
  <1> HIDE DEF g
  <1>3. LoadingRun(g, <<>>, <<>>, world, TRUE)
    BY <1>1, <1>2 DEF LoadingRun
  <1> QED
    BY <1>1, <1>2, <1>3 DEF LoadingAs

(* The condition of LoadFailsForCause on a step. *)
CauseStep ==
    (clean /\ ~clean') =>
      \E d \in (IF stack = <<>> THEN Desc ELSE {stack[1].desc}) : Blocked(d, Undefined)

LEMMA CauseOfStep == ASSUME IInv, HierInv, RunInv, [Next]_vars PROVE CauseStep
  <1> SUFFICES ASSUME clean, ~clean'
               PROVE  \E d \in (IF stack = <<>> THEN Desc ELSE {stack[1].desc}) : Blocked(d, Undefined)
    BY DEF CauseStep
  <1>1. PICK d \in Desc : Fails(d)
    <2>1. ~UNCHANGED vars /\ ~Resolve /\ ~Enter /\ ~Finish
      BY DEF vars, Resolve, Enter, Finish
    <2>2. \A e \in Desc : ~Starts(e)
      BY DEF Starts, BeginPushes
    <2>3. \A h \in Offered : ~RegisterNative(h)
      BY DEF RegisterNative
    <2> QED
      BY <2>1, <2>2, <2>3, StepIs
  <1>2. PICK f \in [0..Len(stack) -> Nat] : LoadingRun(f, stack, loading, world, clean)
    BY DEF RunInv, LoadingAs
  <1>3. f[0] = 0
    BY <1>2 DEF LoadingRun
  <1>4. \A j \in 1..Len(stack) : BlockedIn(world, stack[j].desc, Undefined)
    <2>1. 1..f[0] = {}
      BY <1>3
    <2> QED
      BY <1>1, <1>2, <2>1, FailureBlocks
  <1>5. world \in Worlds /\ Len(stack) \in Nat /\ (stack # <<>> => 1 \in 1..Len(stack)) /\ Len(loading) \in Nat
    BY DEF IInv, TypeOK
  <1>6. CASE stack # <<>>
    BY <1>4, <1>5, <1>6, InWorld
  <1>7. CASE stack = <<>>
    <2>1. Len(stack) = 0
      BY <1>7
    <2>2. f[0] = Len(loading)
      BY <1>2, <2>1 DEF LoadingRun
    <2>3. Len(loading) = 0
      BY <1>3, <2>2
    <2>4. d \in Undefined
      BY <1>1, <2>3 DEF Fails, BeginFails, InProgress
    <2>5. d \in ClosureIn(world, {d}, TRUE)
      BY <1>5, ClosureFacts
    <2>6. Blocked(d, Undefined)
      BY <2>4, <2>5, InWorld DEF BlockedIn
    <2> QED
      BY <1>7, <2>6
  <1> QED
    BY <1>6, <1>7

(* The first load to fail fails because of a class that nobody defines or  *)
(* of classes that need each other, whatever the dex files are: Vm.loading *)
(* names only classes that are waited for, until a load has failed.        *)
THEOREM FailuresHaveCauses == Spec => LoadFailsForCause
  <1>1. Init => IInv /\ HierInv /\ RunInv
    BY InitInv, HierInit, RunInit
  <1>2. (IInv /\ HierInv /\ RunInv) /\ [Next]_vars => (IInv /\ HierInv /\ RunInv)'
    BY StepInv, HierStep, RunStep
  <1>3. (IInv /\ HierInv /\ RunInv) /\ [Next]_vars => [CauseStep]_vars
    BY CauseOfStep
  <1>4. [][CauseStep]_vars => LoadFailsForCause
    BY PTL DEF LoadFailsForCause, CauseStep
  <1> QED
    BY <1>1, <1>2, <1>3, <1>4, PTL DEF Spec

-----------------------------------------------------------------------------
(* Worlds with safe constants: linking *)

(* No activation with a class waits for something that cannot be loaded. *)
LEMMA SafeFrames ==
    ASSUME NEW w \in Worlds, SafeIn(w), NEW cls, NEW st \in Seq(Activation),
           StackAs(st, cls, w), Chain(st), st # <<>>, st[Len(st)].todo # <<>>,
           \A j \in 1..Len(st) : BlockedIn(w, st[j].desc, UnbundledIn(w))
    PROVE  \A j \in 1..Len(st) : st[j].id = 0
  <1> SUFFICES ASSUME NEW j \in 1..Len(st), st[j].id # 0 PROVE FALSE
    OBVIOUS
  <1>1. st[j] \in Activation /\ FrameAs(st[j], cls, w)
    BY DEF StackAs
  <1>2. st[j].todo # <<>>
    <2>1. CASE j = Len(st)
      BY <2>1
    <2>2. CASE j # Len(st)
      <3>1. j \in 1..(Len(st) - 1)
        BY <2>2
      <3> QED
        BY <3>1 DEF Chain
    <2> QED
      BY <2>1, <2>2
  <1>3. st[j].desc \in Desc /\ w[st[j].desc].const # None
    BY <1>1, <1>2, WaitsFor
  <1> QED
    BY <1>3 DEF SafeIn

LEMMA SafeWaits ==
    ASSUME NEW w \in Worlds, SafeIn(w), NEW cls, NEW st \in Seq(Activation),
           StackAs(st, cls, w), Chain(st), st # <<>>, st[Len(st)].todo # <<>>,
           \E m \in 1..Len(st) : st[m].desc = Head(st[Len(st)].todo)
    PROVE  \A j \in 1..Len(st) : st[j].id = 0
  <1>1. \A j \in 1..Len(st) : BlockedIn(w, st[j].desc, UnbundledIn(w))
    BY StackBlocked
  <1> QED
    BY <1>1, SafeFrames

LEMMA ResolveLinked ==
    ASSUME IInv, HierInv, SafeIn(world), LinkedOK(classes, stack), Resolve
    PROVE  LinkedOK(classes', stack')
  <1> DEFINE n == Len(stack)
             h == Head(Top.todo)
             a == stack'[n]
             c == byDesc[h]
  <1>1. /\ stack # <<>> /\ Top.todo # <<>> /\ classes' = classes
        /\ c \in 1..Len(classes) /\ classes[c].desc = h
        /\ Replaced(stack, stack')
        /\ a.id = Top.id /\ GotBy(a) = GotBy(Top) \cup {c}
    BY ResolveIs
  <1>2. n \in Nat \ {0} /\ n \in 1..n /\ Top = stack[n] /\ stack \in Seq(Activation) /\ world \in Worlds
    BY <1>1, TopFacts DEF IInv, TypeOK
  <1> HIDE DEF n, h, a, c
  <1>3. Len(stack') = n /\ \A i \in 1..n : i = n \/ (i \in 1..(n - 1) /\ stack'[i] = stack[i])
    BY <1>1, <1>2 DEF Replaced, n
  <1>4. \A i \in 1..n : stack'[i].id = stack[i].id
    BY <1>1, <1>2, <1>3 DEF a
  <1>5. classes[c].linked = TRUE
    <2> SUFFICES ASSUME NEW i \in 1..n, stack[i].id = c PROVE FALSE
      BY <1>1 DEF LinkedOK, n
    <2>1. c # 0
      BY <1>1
    <2>2. FrameOK(stack[i], classes, world)
      BY DEF IInv, StackOK, n
    <2>3. stack[i].desc = h
      BY <1>1, <2>1, <2>2 DEF FrameOK
    <2>4. StackAs(stack, classes, world) /\ Chain(stack) /\ Top.todo = stack[Len(stack)].todo
      BY <1>2 DEF HierInv, n
    <2>5. \E m \in 1..Len(stack) : stack[m].desc = Head(stack[Len(stack)].todo)
      BY <2>3, <2>4 DEF n, h
    <2>6. stack[i].id = 0
      BY <1>1, <1>2, <2>4, <2>5, SafeWaits DEF n
    <2> QED
      BY <2>1, <2>6
  <1>6. Linked(classes, GotBy(a))
    BY <1>1, <1>2, <1>5 DEF LinkedOK, Linked, n
  <1>7. \A i \in 1..n : Linked(classes, GotBy(stack'[i]))
    BY <1>3, <1>6 DEF LinkedOK, n, a
  <1>8. \A c0 \in 1..Len(classes) : classes[c0].linked = TRUE \/ \E i \in 1..n : stack'[i].id = c0
    BY <1>4 DEF LinkedOK, n
  <1>9. \A c0 \in 1..Len(classes) : classes[c0].super # 0 => classes[classes[c0].super].linked = TRUE
    BY DEF LinkedOK
  <1> QED
    BY <1>1, <1>3, <1>7, <1>8, <1>9 DEF LinkedOK

LEMMA EnterLinked ==
    ASSUME IInv, HierInv, LinkedOK(classes, stack), Enter
    PROVE  LinkedOK(classes', stack')
  <1> DEFINE n == Len(stack)
             id == Len(classes) + 1
             a == stack'[n]
  <1>1. /\ stack # <<>> /\ Top.id = 0
        /\ Len(classes') = id /\ \A c \in 1..Len(classes) : classes'[c] = classes[c]
        /\ Ups(classes', id) = GotBy(Top)
        /\ Replaced(stack, stack') /\ a.id = id /\ a.got = <<>>
    BY EnterIs
  <1>2. n \in Nat \ {0} /\ n \in 1..n /\ Top = stack[n] /\ Len(classes) \in Nat
    BY <1>1, TopFacts DEF IInv, TypeOK
  <1> HIDE DEF n, a
  <1>3. Len(stack') = n /\ \A i \in 1..n : i = n \/ (i \in 1..(n - 1) /\ stack'[i] = stack[i])
    BY <1>1, <1>2 DEF Replaced, n
  <1>4. \A c \in 1..Len(classes') : c \in 1..Len(classes) \/ c = id
    BY <1>1, <1>2
  <1>5. \A i \in 1..n : GotBy(stack[i]) \subseteq 1..Len(classes)
    BY DEF IInv, StackOK, FrameOK, GotBy, n
  <1>6. ASSUME NEW c \in 1..Len(classes')
        PROVE  classes'[c].linked = TRUE \/ \E i \in 1..n : stack'[i].id = c
    <2>1. CASE c = id
      BY <1>1, <1>2, <2>1 DEF a
    <2>2. ASSUME c \in 1..Len(classes), NEW i \in 1..n, stack[i].id = c PROVE stack'[i].id = c
      <3>1. c # 0
        BY <2>2
      <3>2. i # n
        BY <1>1, <1>2, <2>2, <3>1
      <3> QED
        BY <1>3, <2>2, <3>2
    <2> QED
      BY <1>1, <1>4, <2>1, <2>2 DEF LinkedOK, n
  <1>7. ASSUME NEW i \in 1..n PROVE Linked(classes', GotBy(stack'[i]))
    <2>1. CASE i = n
      BY <1>1, <2>1 DEF Linked, GotBy, a
    <2>2. CASE i # n
      <3>1. stack'[i] = stack[i]
        BY <1>3, <2>2
      <3> QED
        BY <1>1, <1>5, <3>1 DEF LinkedOK, Linked, n
    <2> QED
      BY <2>1, <2>2
  <1>8. ASSUME NEW c \in 1..Len(classes'), classes'[c].super # 0
        PROVE  classes'[classes'[c].super].linked = TRUE
    <2>1. CASE c = id
      <3>1. classes'[c].super \in GotBy(Top)
        BY <1>1, <1>8, <2>1 DEF Ups
      <3>2. Linked(classes, GotBy(Top)) /\ GotBy(Top) \subseteq 1..Len(classes)
        BY <1>2, <1>5 DEF LinkedOK, n
      <3> QED
        BY <1>1, <3>1, <3>2 DEF Linked
    <2>2. CASE c \in 1..Len(classes)
      <3>1. classes'[c] = classes[c] /\ classes[c].super \in Ups(classes, c)
        BY <1>1, <1>8, <2>2 DEF Ups
      <3>2. classes[c].super \in 1..(c - 1)
        BY <2>2, <3>1 DEF HierInv, ClassesAs
      <3>3. classes[c].super \in 1..Len(classes)
        BY <1>2, <2>2, <3>2
      <3> QED
        BY <1>1, <1>8, <2>2, <3>1, <3>3 DEF LinkedOK
    <2> QED
      BY <1>4, <2>1, <2>2
  <1> QED
    BY <1>3, <1>6, <1>7, <1>8 DEF LinkedOK

LEMMA FinishLinked ==
    ASSUME IInv, HierInv, LinkedOK(classes, stack), Finish
    PROVE  LinkedOK(classes', stack')
  <1> DEFINE n == Len(stack)
             id == Top.id
  <1>1. /\ stack # <<>> /\ SameShape(classes, classes')
        /\ \A b \in 1..Len(classes) : b # id => classes'[b] = classes[b]
        /\ classes'[id].linked = TRUE
        /\ Popped(stack, stack')
    BY FinishIs
  <1>2. n \in Nat \ {0} /\ Top = stack[n] /\ Len(classes) \in Nat
    BY <1>1, TopFacts DEF IInv, TypeOK
  <1>3. /\ Len(stack') = n - 1
        /\ \A i \in 1..(n - 1) : i \in 1..n /\ stack'[i] = stack[i]
        /\ \A i \in 1..n : i = n \/ i \in 1..(n - 1)
    BY <1>1, <1>2 DEF Popped
  <1> HIDE DEF n, id
  <1>4. \A c \in 1..Len(classes) : classes[c].linked = TRUE => classes'[c].linked = TRUE
    BY <1>1
  <1>5. Len(classes') = Len(classes) /\ \A c \in 1..Len(classes) : classes'[c].super = classes[c].super
    BY <1>1 DEF SameShape
  <1>6. ASSUME NEW c \in 1..Len(classes)
        PROVE  classes'[c].linked = TRUE \/ \E i \in 1..(n - 1) : stack'[i].id = c
    <2>1. CASE c = id
      BY <1>1, <2>1
    <2>2. CASE c # id
      <3>1. ASSUME NEW i \in 1..n, stack[i].id = c PROVE i \in 1..(n - 1) /\ stack'[i].id = c
        BY <1>2, <1>3, <2>2, <3>1 DEF id
      <3> QED
        BY <1>4, <3>1 DEF LinkedOK, n
    <2> QED
      BY <2>1, <2>2
  <1>7. \A i \in 1..(n - 1) : Linked(classes', GotBy(stack'[i]))
    <2>1. \A i \in 1..n : GotBy(stack[i]) \subseteq 1..Len(classes)
      BY DEF IInv, StackOK, FrameOK, GotBy, n
    <2>2. \A i \in 1..n : Linked(classes, GotBy(stack[i]))
      BY DEF LinkedOK, n
    <2> QED
      BY <1>3, <1>4, <2>1, <2>2 DEF Linked
  <1>8. ASSUME NEW c \in 1..Len(classes), classes[c].super # 0
        PROVE  classes'[classes[c].super].linked = TRUE
    <2>1. classes[c].super \in Ups(classes, c)
      BY <1>8 DEF Ups
    <2>2. classes[c].super \in 1..(c - 1)
      BY <2>1 DEF HierInv, ClassesAs
    <2>3. classes[c].super \in 1..Len(classes)
      BY <1>2, <2>2
    <2> QED
      BY <1>4, <1>8, <2>3 DEF LinkedOK
  <1> QED
    BY <1>3, <1>5, <1>6, <1>7, <1>8 DEF LinkedOK

LEMMA StartsLinked ==
    ASSUME IInv, LinkedOK(classes, stack), NEW d, Starts(d)
    PROVE  LinkedOK(classes', stack')
  <1> DEFINE n == Len(stack)
  <1>1. /\ Len(stack') = n + 1 /\ \A i \in 1..n : stack'[i] = stack[i]
        /\ stack'[n + 1] = Activated(d) /\ classes' = classes
    BY DEF Starts, BeginPushes, Pushed
  <1>2. n \in Nat
    BY DEF IInv, TypeOK
  <1>3. GotBy(stack'[n + 1]) = {}
    BY <1>1 DEF GotBy, Activated
  <1> HIDE DEF n
  <1>4. \A i \in 1..(n + 1) : i \in 1..n \/ i = n + 1
    BY <1>2
  <1>5. \A i \in 1..n : i \in 1..(n + 1)
    BY <1>2
  <1>6. \A i \in 1..(n + 1) : Linked(classes, GotBy(stack'[i]))
    BY <1>1, <1>3, <1>4 DEF LinkedOK, Linked, n
  <1>7. \A c \in 1..Len(classes) : classes[c].linked = TRUE \/ \E i \in 1..(n + 1) : stack'[i].id = c
    BY <1>1, <1>5 DEF LinkedOK, n
  <1> QED
    BY <1>1, <1>6, <1>7 DEF LinkedOK

LEMMA FailsLinked ==
    ASSUME IInv, HierInv, RunInv, SafeIn(world), LinkedOK(classes, stack), NEW d, Fails(d)
    PROVE  LinkedOK(classes', stack')
  <1>1. stack' = <<>> /\ Len(stack') = 0 /\ classes' = classes
    BY DEF Fails, BeginFails
  <1>2. ASSUME NEW c \in 1..Len(classes), NEW i \in 1..Len(stack), stack[i].id = c PROVE FALSE
    <2>1. PICK f \in [0..Len(stack) -> Nat] : LoadingRun(f, stack, loading, world, clean)
      BY DEF RunInv, LoadingAs
    <2>2. \A p \in 1..f[0] : BlockedIn(world, loading[p], UnbundledIn(world))
      BY <2>1 DEF LoadingRun
    <2>3. \A j \in 1..Len(stack) : BlockedIn(world, stack[j].desc, UnbundledIn(world))
      BY <2>1, <2>2, UndefinedUnbundled, FailureBlocks
    <2>4. stack # <<>> /\ stack \in Seq(Activation) /\ world \in Worlds
      BY <1>2 DEF IInv, TypeOK
    <2>5. stack[Len(stack)].todo # <<>>
      BY <2>4, TopFacts DEF Fails, Wanted
    <2>6. StackAs(stack, classes, world) /\ Chain(stack)
      BY DEF HierInv
    <2>7. stack[i].id = 0
      BY <2>3, <2>4, <2>5, <2>6, SafeFrames
    <2> QED
      BY <1>2, <2>7
  <1>3. \A c \in 1..Len(classes) : classes[c].linked = TRUE
    BY <1>2 DEF LinkedOK
  <1> QED
    BY <1>1, <1>3 DEF LinkedOK

LEMMA RegisterLinked ==
    ASSUME IInv, LinkedOK(classes, stack), HierInv, NEW h \in Offered, RegisterNative(h)
    PROVE  LinkedOK(classes', stack')
  <1>1. /\ stack' = stack /\ Len(stack) = 0 /\ SameShape(classes, classes')
        /\ \A c \in 1..Len(classes) : classes'[c].linked = classes[c].linked
    BY RegisterNativeIs
  <1>2. ASSUME NEW c \in 1..Len(classes), classes[c].super # 0
        PROVE  classes[c].super \in 1..Len(classes)
    <2>1. classes[c].super \in Ups(classes, c)
      BY <1>2 DEF Ups
    <2>2. classes[c].super \in 1..(c - 1)
      BY <2>1 DEF HierInv, ClassesAs
    <2>3. Len(classes) \in Nat
      BY DEF IInv, TypeOK
    <2> QED
      BY <2>2, <2>3
  <1> QED
    BY <1>1, <1>2 DEF LinkedOK, SameShape

-----------------------------------------------------------------------------
(* Worlds with safe constants: field layout *)

(* The fields F come after l inherited ones, the others are where O says. *)
OwnAfter(off, l, F, O) ==
    \A f \in Field :
      \/ \E k \in 1..Len(F) : F[k] = f /\ off[f] = l + k - 1
      \/ off[f] = O[f] /\ ~\E k \in 1..Len(F) : F[k] = f

LEMMA OwnPlaced ==
    ASSUME NEW L \in Seq(Field), NEW O, NEW F \in Seq(Field), NEW lay, NEW off,
           lay = L \o F, OwnAfter(off, Len(L), F, O), Places(L, O)
    PROVE  Places(lay, off) /\ Agrees(lay, off, O)
  <1> DEFINE l == Len(L)
             m == Len(F)
             own(f) == \E i \in 1..m : F[i] = f
  <1>1. l \in Nat /\ m \in Nat /\ Len(lay) = l + m
    OBVIOUS
  <1>2. /\ \A i \in 1..l : lay[i] = L[i] /\ i \in 1..Len(lay) /\ L[i] \in Field
        /\ \A i \in 1..m : lay[l + i] = F[i] /\ l + i \in 1..Len(lay) /\ F[i] \in Field
    OBVIOUS
  <1>3. \A i \in 1..Len(lay) : i \in 1..l \/ (i - l \in 1..m /\ l + (i - l) = i)
    BY <1>1
  <1>5. \A f \in Field : /\ own(f) => \E k \in 1..m : F[k] = f /\ off[f] = l + k - 1
                         /\ ~own(f) => off[f] = O[f]
    BY DEF OwnAfter
  <1>6. ASSUME NEW f \in Field PROVE off[f] # NoField <=> \E i \in 1..Len(lay) : lay[i] = f
    <2>1. CASE own(f)
      <3>1. off[f] # NoField
        BY <1>1, <1>5, <2>1 DEF NoField
      <3>2. \E i \in 1..Len(lay) : lay[i] = f
        BY <1>2, <2>1
      <3> QED
        BY <3>1, <3>2
    <2>2. CASE ~own(f)
      <3>1. off[f] = O[f]
        BY <1>5, <2>2
      <3>2. (\E i \in 1..Len(lay) : lay[i] = f) <=> \E i \in 1..l : L[i] = f
        BY <1>2, <1>3, <2>2
      <3> QED
        BY <3>1, <3>2 DEF Places
    <2> QED
      BY <2>1, <2>2
  <1>7. ASSUME Distinct(lay), NEW f \in Field, NEW i \in 1..l, L[i] = f PROVE ~own(f)
    <2> SUFFICES ASSUME NEW j \in 1..m, F[j] = f PROVE FALSE
      OBVIOUS
    <2>1. lay[i] = f /\ lay[l + j] = f /\ i \in 1..Len(lay) /\ l + j \in 1..Len(lay)
      BY <1>2, <1>7
    <2>2. i = l + j
      BY <1>7, <2>1 DEF Distinct
    <2> QED
      BY <1>1, <2>2
  <1>8. ASSUME Distinct(lay), NEW i \in 1..Len(lay) PROVE off[lay[i]] = i - 1
    <2>1. CASE i \in 1..l
      <3>1. Distinct(L)
        BY <1>2, <1>8 DEF Distinct
      <3>2. lay[i] = L[i] /\ L[i] \in Field
        BY <1>2, <2>1
      <3>3. ~own(L[i])
        BY <1>7, <1>8, <2>1, <3>2
      <3>4. off[L[i]] = O[L[i]] /\ O[L[i]] = i - 1
        BY <1>5, <2>1, <3>1, <3>2, <3>3 DEF Places
      <3> QED
        BY <3>2, <3>4
    <2>2. CASE i - l \in 1..m
      <3>1. lay[i] = F[i - l] /\ F[i - l] \in Field /\ own(lay[i])
        BY <1>1, <1>2, <2>2
      <3>2. PICK k \in 1..m : F[k] = lay[i] /\ off[lay[i]] = l + k - 1
        BY <1>5, <3>1
      <3>3. lay[l + k] = lay[i] /\ l + k \in 1..Len(lay)
        BY <1>2, <3>2
      <3>4. l + k = i
        BY <1>8, <3>3 DEF Distinct
      <3> QED
        BY <3>2, <3>4
    <2> QED
      BY <1>3, <2>1, <2>2
  <1>9. ASSUME Distinct(lay), NEW f \in Field, O[f] # NoField PROVE off[f] = O[f]
    BY <1>5, <1>7, <1>9 DEF Places
  <1> QED
    BY <1>6, <1>8, <1>9 DEF Places, Agrees

LEMMA FinishLaidOut ==
    ASSUME IInv, HierInv, LinkedOK(classes, stack), LaidOutOK(classes), Finish
    PROVE  LaidOutOK(classes')
  <1> DEFINE n == Len(stack)
             id == Top.id
             d == Top.desc
             c == classes[id].super
             F == world[d].fields
  <1>1. /\ stack # <<>> /\ id # 0 /\ id \in 1..Len(classes)
        /\ SameShape(classes, classes')
        /\ \A b \in 1..Len(classes) : b # id => classes'[b] = classes[b]
        /\ classes'[id].layout = Layout(c) \o F
        /\ classes'[id].offsets = OwnOffsets(c, F)
    BY FinishIs
  <1>2. /\ F \in Seq(Field) /\ classes \in Seq(Class) /\ Len(classes) \in Nat
        /\ n \in 1..n /\ Top = stack[n]
    BY <1>1, TopFacts, DefinitionFacts DEF IInv, TypeOK
  <1> HIDE DEF n, id, d, c, F
  <1>3. ASSUME NEW b \in 1..Len(classes), classes[b].super # 0
        PROVE  /\ classes[b].super \in 1..Len(classes) /\ classes[b].super # b
               /\ classes[classes[b].super].linked = TRUE
    <2>1. classes[b].super \in Ups(classes, b)
      BY <1>3 DEF Ups
    <2>2. classes[b].super \in 1..(b - 1)
      BY <2>1 DEF HierInv, ClassesAs
    <2>3. classes[classes[b].super].linked = TRUE
      BY <1>3 DEF LinkedOK
    <2> QED
      BY <1>2, <2>2, <2>3
  <1>4. classes[id].linked = FALSE
    BY <1>1, <1>2 DEF HierInv, OwnIds, n, id
  <1>5. ASSUME NEW b \in 1..Len(classes), b # id, classes'[b].linked = TRUE
        PROVE  /\ Placed(classes'[b])
               /\ classes'[b].super # 0 => Inherits(classes'[b], classes'[classes'[b].super])
    <2>1. classes'[b] = classes[b]
      BY <1>1, <1>5
    <2>2. /\ Placed(classes[b])
          /\ classes[b].super # 0 => Inherits(classes[b], classes[classes[b].super])
      BY <1>5, <2>1 DEF LaidOutOK
    <2>3. ASSUME classes[b].super # 0
          PROVE  classes'[classes[b].super] = classes[classes[b].super]
      <3>1. classes[b].super # id
        BY <1>3, <1>4, <2>3
      <3> QED
        BY <1>1, <1>3, <2>3, <3>1
    <2> QED
      BY <2>1, <2>2, <2>3
  <1> DEFINE L == Layout(c)
             O == Offsets(c)
  <1>6. L \in Seq(Field) /\ Places(L, O)
    <2>1. CASE c = 0
      <3>1. L = <<>> /\ O = [f \in Field |-> NoField]
        BY <2>1 DEF Layout, Offsets
      <3> QED
        BY <3>1 DEF Places
    <2>2. CASE c # 0
      <3>1. c \in 1..Len(classes) /\ classes[c].linked = TRUE
        BY <1>1, <1>3, <2>2 DEF c
      <3>2. Placed(classes[c])
        BY <3>1 DEF LaidOutOK
      <3>3. L = classes[c].layout /\ O = classes[c].offsets
        BY <2>2 DEF Layout, Offsets
      <3>4. classes[c] \in Class
        BY <1>2, <3>1
      <3>5. L \in Seq(Field)
        BY <3>3, <3>4 DEF Class
      <3> QED
        BY <3>2, <3>3, <3>5 DEF Placed
    <2> QED
      BY <2>1, <2>2
  <1> DEFINE lay == classes'[id].layout
             off == classes'[id].offsets
  <1>7. OwnAfter(off, Len(L), F, O)
    <2> HIDE DEF off, L, O
    <2> SUFFICES ASSUME NEW f \in Field
                 PROVE  \/ \E k \in 1..Len(F) : F[k] = f /\ off[f] = Len(L) + k - 1
                        \/ off[f] = O[f] /\ ~\E k \in 1..Len(F) : F[k] = f
      BY DEF OwnAfter
    <2> DEFINE own == \E i \in 1..Len(F) : F[i] = f
               k == CHOOSE i \in 1..Len(F) : F[i] = f
    <2>1. off[f] = IF own THEN Len(L) + k - 1 ELSE O[f]
      BY <1>1 DEF OwnOffsets, off, L, O
    <2>2. own => k \in 1..Len(F) /\ F[k] = f
      OBVIOUS
    <2> HIDE DEF k
    <2> QED
      BY <2>1, <2>2
  <1>8. lay = L \o F
    BY <1>1
  <1> HIDE DEF L, O, lay, off
  <1>9. Places(lay, off) /\ Agrees(lay, off, O)
    BY <1>2, <1>6, <1>7, <1>8, OwnPlaced
  <1>10. Placed(classes'[id])
    BY <1>9 DEF Placed, lay, off
  <1>11. ASSUME c # 0 PROVE Inherits(classes'[id], classes'[c])
    <2>1. classes'[c] = classes[c]
      BY <1>1, <1>3, <1>11 DEF c
    <2>2. O = classes[c].offsets
      BY <1>11 DEF O, Offsets
    <2> QED
      BY <1>9, <2>1, <2>2 DEF Inherits, lay, off
  <1>12. classes'[id].super = c /\ Len(classes') = Len(classes)
    BY <1>1 DEF SameShape, c
  <1> QED
    BY <1>5, <1>10, <1>11, <1>12 DEF LaidOutOK

(* A step that touches no linked class keeps the layouts. *)
LEMMA LayoutsKept ==
    ASSUME IInv, HierInv, LaidOutOK(classes), Len(classes') \in Nat, Len(classes) <= Len(classes'),
           \A b \in 1..Len(classes) : /\ classes'[b].linked = classes[b].linked
                                      /\ classes'[b].super = classes[b].super
                                      /\ classes'[b].layout = classes[b].layout
                                      /\ classes'[b].offsets = classes[b].offsets,
           \A b \in 1..Len(classes') : b \in 1..Len(classes) \/ classes'[b].linked = FALSE
    PROVE  LaidOutOK(classes')
  <1> SUFFICES ASSUME NEW b \in 1..Len(classes), classes'[b].linked = TRUE
               PROVE  /\ Placed(classes'[b])
                      /\ classes'[b].super # 0 => Inherits(classes'[b], classes'[classes'[b].super])
    BY DEF LaidOutOK
  <1>1. /\ Placed(classes[b])
        /\ classes[b].super # 0 => Inherits(classes[b], classes[classes[b].super])
    BY DEF LaidOutOK
  <1>2. Placed(classes'[b])
    BY <1>1 DEF Placed
  <1>3. ASSUME classes[b].super # 0 PROVE classes[b].super \in 1..Len(classes)
    <2>1. classes[b].super \in Ups(classes, b)
      BY <1>3 DEF Ups
    <2>2. classes[b].super \in 1..(b - 1)
      BY <2>1 DEF HierInv, ClassesAs
    <2>3. Len(classes) \in Nat
      BY DEF IInv, TypeOK
    <2> QED
      BY <2>2, <2>3
  <1>4. ASSUME classes[b].super # 0 PROVE Inherits(classes'[b], classes'[classes[b].super])
    BY <1>1, <1>3, <1>4 DEF Inherits
  <1> QED
    BY <1>2, <1>4

-----------------------------------------------------------------------------
(* Worlds with safe constants: no class is loaded twice *)

(* Below an activation that is about to enter the table nothing waits for  *)
(* the same descriptor.                                                    *)
LEMMA EntersAlone ==
    ASSUME IInv, HierInv, SafeIn(world), OnceOK(classes, byDesc, stack, world),
           stack # <<>>, Top.todo = <<>>, Top.id = 0,
           NEW i \in 1..(Len(stack) - 1), stack[i].id = 0, stack[i].desc = Top.desc
    PROVE  FALSE
  <1> DEFINE n == Len(stack)
             st == Front(stack)
             h == stack[i + 1].desc
  <1>1. /\ n \in Nat \ {0} /\ Top = stack[n] /\ stack \in Seq(Activation) /\ world \in Worlds
        /\ Len(classes) \in Nat
    BY TopFacts DEF IInv, TypeOK
  <1>2. /\ i \in 1..n /\ i + 1 \in 1..n /\ n - 1 \in Nat /\ n - 1 # 0 /\ n \in 1..n
        /\ n - 1 \in 1..(n - 1) /\ (n - 1) + 1 = n
    BY <1>1
  <1>3. /\ st \in Seq(Activation) /\ Len(st) = n - 1
        /\ \A j \in 1..(n - 1) : j \in 1..n /\ st[j] = stack[j]
    BY <1>1, FrontFacts
  <1> HIDE DEF n, st
  <1>4. stack[i].todo # <<>> /\ h = Head(stack[i].todo)
    BY DEF HierInv, Chain, n
  <1> HIDE DEF h
  <1>5. h \in NeedsIn(world, Top.desc, FALSE)
    <2>1. stack[i] \in Activation /\ FrameAs(stack[i], classes, world)
      BY <1>1, <1>2 DEF HierInv, StackAs, n
    <2> QED
      BY <1>1, <1>4, <2>1, WaitsFor
  <1>6. h \in Descs(classes, GotBy(Top))
    <2>1. FrameAs(Top, classes, world) /\ ToDo(Top) = {}
      BY <1>1, <1>2 DEF HierInv, StackAs, ToDo, n
    <2> QED
      BY <1>5, <2>1 DEF FrameAs
  <1>7. PICK g \in GotBy(Top) : classes[g].desc = h
    BY <1>6 DEF Descs
  <1>8. g \in 1..Len(classes)
    BY <1>1, <1>2, TopFacts DEF FrameOK, GotBy
  <1>9. byDesc[h] # 0
    <2>1. byDesc[h] = g /\ g # 0
      BY <1>7, <1>8 DEF OnceOK
    <2> QED
      BY <2>1
  <1>10. stack[i + 1].id = 0
    <2>1. CASE i + 1 = n
      BY <1>1, <2>1
    <2>2. CASE i + 1 # n
      <3>1. i + 1 \in 1..(n - 1)
        BY <1>1, <1>2, <2>2
      <3>2. StackAs(st, classes, world)
        BY <1>3 DEF HierInv, StackAs, n
      <3>3. Chain(st)
        <4>1. \A j \in 1..((n - 1) - 1) : j \in 1..(n - 1) /\ j + 1 \in 1..(n - 1)
          BY <1>1
        <4> QED
          BY <1>3, <4>1 DEF HierInv, Chain, n
      <3>4. st # <<>>
        BY <1>2, <1>3
      <3>5. st[n - 1].todo # <<>> /\ Top.desc = Head(st[n - 1].todo)
        <4>1. stack[n - 1].todo # <<>> /\ stack[(n - 1) + 1].desc = Head(stack[n - 1].todo)
          BY <1>2 DEF HierInv, Chain, n
        <4> QED
          BY <1>1, <1>2, <1>3, <4>1
      <3>6. \E m \in 1..Len(st) : st[m].desc = Head(st[Len(st)].todo)
        BY <1>3, <3>5 DEF n
      <3>7. st[Len(st)].todo # <<>>
        BY <1>3, <3>5
      <3>8. st[i + 1].id = 0
        BY <1>1, <1>3, <3>1, <3>2, <3>3, <3>4, <3>6, <3>7, SafeWaits
      <3> QED
        BY <1>3, <3>1, <3>8
    <2> QED
      BY <2>1, <2>2
  <1>11. byDesc[h] = 0
    BY <1>2, <1>10 DEF OnceOK, n, h
  <1> QED
    BY <1>9, <1>11

LEMMA EnterOnce ==
    ASSUME IInv, HierInv, SafeIn(world), OnceOK(classes, byDesc, stack, world), Enter
    PROVE  OnceOK(classes', byDesc', stack', world')
  <1> DEFINE d == Top.desc
             n == Len(stack)
             id == Len(classes) + 1
             a == stack'[n]
  <1>1. /\ stack # <<>> /\ Top.todo = <<>> /\ Top.id = 0 /\ world' = world
        /\ Len(classes') = id /\ \A c \in 1..Len(classes) : classes'[c] = classes[c]
        /\ classes'[id].desc = d
        /\ byDesc'[d] = id /\ \A e \in Desc : e # d => byDesc'[e] = byDesc[e]
        /\ Replaced(stack, stack')
        /\ a.desc = d /\ a.id = id
    BY EnterIs
  <1>2. n \in Nat \ {0} /\ n \in 1..n /\ Top = stack[n] /\ Len(classes) \in Nat /\ classes \in Seq(Class)
        /\ stack \in Seq(Activation)
    BY <1>1, TopFacts DEF IInv, TypeOK
  <1> HIDE DEF n, a, d
  <1>3. Len(stack') = n /\ \A i \in 1..n : i = n \/ (i \in 1..(n - 1) /\ stack'[i] = stack[i])
    BY <1>1, <1>2 DEF Replaced, n
  <1>4. \A c \in 1..Len(classes') : c \in 1..Len(classes) \/ c = id
    BY <1>1, <1>2
  <1>5. \A i \in 1..n : stack[i].desc \in Desc /\ stack'[i].desc = stack[i].desc
    <2>1. \A i \in 1..n : stack[i] \in Activation
      BY <1>2 DEF n
    <2>2. \A b \in Activation : b.desc \in Desc
      BY DEF Activation
    <2>3. \A i \in 1..n : stack'[i].desc = stack[i].desc
      BY <1>1, <1>2, <1>3 DEF a, d
    <2> QED
      BY <2>1, <2>2, <2>3
  <1>6. byDesc[d] = 0
    BY <1>1, <1>2 DEF OnceOK, n, d
  <1>7. ASSUME NEW i \in 1..n, stack'[i].id = 0 PROVE byDesc'[stack'[i].desc] = 0
    <2>1. i # n
      BY <1>1, <1>2, <1>7 DEF a
    <2>2. i \in 1..(n - 1) /\ stack'[i] = stack[i] /\ stack[i].id = 0
      BY <1>3, <1>7, <2>1
    <2>3. stack[i].desc # d
      BY <1>1, <2>2, EntersAlone DEF n, d
    <2>4. byDesc[stack[i].desc] = 0
      BY <2>2 DEF OnceOK, n
    <2> QED
      BY <1>1, <1>5, <2>2, <2>3, <2>4
  <1>8. ASSUME NEW c \in 1..Len(classes') PROVE byDesc'[classes'[c].desc] = c
    <2>1. CASE c = id
      BY <1>1, <2>1
    <2>2. CASE c \in 1..Len(classes)
      <3>1. classes'[c] = classes[c] /\ byDesc[classes[c].desc] = c /\ c # 0
        BY <1>1, <2>2 DEF OnceOK
      <3>2. classes[c].desc \in Desc /\ classes[c].desc # d
        <4>1. classes[c] \in Class
          BY <1>2, <2>2
        <4>2. classes[c].desc \in Desc
          BY <4>1 DEF Class
        <4> QED
          BY <1>6, <3>1, <4>2
      <3> QED
        BY <1>1, <3>1, <3>2
    <2> QED
      BY <1>4, <2>1, <2>2
  <1>9. \A i, j \in 1..n : stack'[i].desc = stack'[j].desc =>
           i = j \/ (world[stack'[i].desc].src # "dex"
                     /\ stack'[i].desc \in ClosureIn(world, NeedsIn(world, stack'[i].desc, FALSE), FALSE))
    BY <1>5 DEF OnceOK, n
  <1> QED
    BY <1>1, <1>3, <1>7, <1>8, <1>9 DEF OnceOK

(* A descriptor that is loaded a second time is not a dex class and is its *)
(* own supertype.                                                          *)
LEMMA StartsAgain ==
    ASSUME IInv, HierInv, RunInv, SafeIn(world), NEW d, Starts(d),
           NEW i \in 1..Len(stack), stack[i].desc = d
    PROVE  world[d].src # "dex" /\ d \in ClosureIn(world, NeedsIn(world, d, FALSE), FALSE)
  <1> DEFINE n == Len(stack)
             D == NeedsIn(world, d, FALSE)
             C == ClosureIn(world, D, FALSE)
  <1>1. stack # <<>> /\ stack \in Seq(Activation) /\ world \in Worlds /\ loading \in Seq(Desc)
    BY DEF IInv, TypeOK
  <1>2. /\ n \in Nat \ {0} /\ n \in 1..n /\ Top = stack[n] /\ Len(loading) \in Nat
        /\ Top.todo # <<>> /\ d = Head(Top.todo) /\ d \in Desc
    BY <1>1, TopFacts DEF Starts, Wanted
  <1>3. world[d].src # "dex"
    <2> SUFFICES ASSUME world[d].src = "dex" PROVE FALSE
      OBVIOUS
    <2>1. ~InProgress(d)
      BY DEF Starts, BeginPushes
    <2>2. PICK f \in [0..Len(stack) -> Nat] : LoadingRun(f, stack, loading, world, clean)
      BY DEF RunInv, LoadingAs
    <2>3. Len(stack) \in Nat
      BY <1>2
    <2>4. f[i] \in 1..Len(loading)
      BY <1>2, <2>2, <2>3, RunRange
    <2>5. loading[f[i]] = d
      BY <2>2 DEF LoadingRun
    <2> QED
      BY <2>1, <2>4, <2>5 DEF InProgress
  <1>4. \A j \in 1..n : stack[j].id = 0
    <2>1. StackAs(stack, classes, world) /\ Chain(stack)
      BY DEF HierInv
    <2>2. stack[Len(stack)].todo # <<>> /\ \E m \in 1..Len(stack) : stack[m].desc = Head(stack[Len(stack)].todo)
      BY <1>2
    <2> QED
      BY <1>1, <2>1, <2>2, SafeWaits
  <1>5. D \subseteq C /\ ClosedIn(world, C, FALSE)
    <2>1. D \in SUBSET Desc
      BY <1>1, <1>2, NeedsFacts
    <2> QED
      BY <1>1, <2>1, ClosureFacts
  <1> HIDE DEF n, D, C
  <1>6. \A j \in 1..n : /\ stack[j] \in Activation /\ FrameAs(stack[j], classes, world)
                        /\ stack[j].todo # <<>> => Head(stack[j].todo) \in NeedsIn(world, stack[j].desc, FALSE)
    <2>1. \A j \in 1..n : stack[j] \in Activation /\ FrameAs(stack[j], classes, world)
      BY <1>1 DEF HierInv, StackAs, n
    <2> QED
      BY <1>1, <1>4, <2>1, WaitsFor
  <1>7. \A j \in 1..(n - 1) : j \in 1..n /\ stack[j + 1].desc \in NeedsIn(world, stack[j].desc, FALSE)
    <2>1. \A j \in 1..(n - 1) : j \in 1..n
      BY <1>2
    <2> QED
      BY <1>6, <2>1 DEF HierInv, Chain, n
  <1>8. d \in NeedsIn(world, stack[n].desc, FALSE)
    BY <1>2, <1>6
  <1>10. ASSUME i # n PROVE d \in C
    <2>1. i \in 1..(n - 1) /\ i + 1 \in 1..n /\ n \in (i + 1)..n /\ n \in Nat
      BY <1>2, <1>10 DEF n
    <2>2. stack[i + 1].desc \in C
      BY <1>5, <1>7, <2>1 DEF D
    <2>3. \A j \in (i + 1)..(n - 1) : j \in 1..(n - 1)
      BY <2>1
    <2>4. \A j \in (i + 1)..(n - 1) : stack[j + 1].desc \in NeedsIn(world, stack[j].desc, FALSE)
      BY <1>7, <2>3
    <2> DEFINE m == i + 1
    <2> HIDE DEF m
    <2>5. \A j \in m..n : stack[j].desc \in C
      BY <1>5, <2>1, <2>2, <2>4, ChainWithin DEF m
    <2>6. stack[n].desc \in C
      BY <2>1, <2>5 DEF m
    <2> QED
      BY <1>5, <1>8, <2>6 DEF ClosedIn
  <1>11. d \in C
    <2>1. CASE i = n
      BY <1>5, <1>8, <2>1 DEF D
    <2> QED
      BY <1>10, <2>1
  <1> QED
    BY <1>3, <1>11 DEF C, D

LEMMA StartsOnce ==
    ASSUME IInv, HierInv, RunInv, SafeIn(world), OnceOK(classes, byDesc, stack, world), NEW d, Starts(d)
    PROVE  OnceOK(classes', byDesc', stack', world')
  <1> DEFINE n == Len(stack)
             again(e) == world[e].src # "dex" /\ e \in ClosureIn(world, NeedsIn(world, e, FALSE), FALSE)
  <1>1. /\ Len(stack') = n + 1 /\ \A i \in 1..n : stack'[i] = stack[i]
        /\ stack'[n + 1] = Activated(d) /\ UNCHANGED <<world, classes, byDesc>> /\ byDesc[d] = 0
    BY DEF Starts, BeginPushes, Pushed, Wanted
  <1>2. stack'[n + 1].desc = d /\ stack'[n + 1].id = 0
    BY <1>1 DEF Activated
  <1>3. \A i \in 1..n : stack[i].desc = d => again(d)
    BY StartsAgain
  <1>4. \A i \in 1..(n + 1) : i \in 1..n \/ i = n + 1
    BY DEF IInv, TypeOK
  <1>5. \A i, j \in 1..n : stack[i].desc = stack[j].desc => i = j \/ again(stack[i].desc)
    BY DEF OnceOK
  <1> HIDE DEF n, again
  <1>6. \A i, j \in 1..(n + 1) : stack'[i].desc = stack'[j].desc => i = j \/ again(stack'[i].desc)
    BY <1>1, <1>2, <1>3, <1>4, <1>5
  <1>7. \A i \in 1..(n + 1) : stack'[i].id = 0 => byDesc[stack'[i].desc] = 0
    BY <1>1, <1>2, <1>4 DEF OnceOK, n
  <1> QED
    BY <1>1, <1>6, <1>7 DEF OnceOK, again

LEMMA FinishOnce ==
    ASSUME IInv, OnceOK(classes, byDesc, stack, world), Finish
    PROVE  OnceOK(classes', byDesc', stack', world')
  <1>1. /\ stack # <<>> /\ UNCHANGED <<world, byDesc>> /\ SameShape(classes, classes')
        /\ Popped(stack, stack')
    BY FinishIs
  <1>2. Len(stack') = Len(stack) - 1 /\ \A i \in 1..Len(stack') : i \in 1..Len(stack) /\ stack'[i] = stack[i]
    <2>1. Len(stack) \in Nat \ {0}
      BY <1>1, TopFacts
    <2> QED
      BY <1>1, <2>1 DEF Popped
  <1> QED
    BY <1>1, <1>2 DEF OnceOK, SameShape

LEMMA ResolveOnce ==
    ASSUME IInv, OnceOK(classes, byDesc, stack, world), Resolve
    PROVE  OnceOK(classes', byDesc', stack', world')
  <1> DEFINE n == Len(stack)
  <1>1. /\ stack # <<>> /\ UNCHANGED <<world, classes, byDesc>> /\ Replaced(stack, stack')
        /\ stack'[n].desc = Top.desc /\ stack'[n].id = Top.id
    BY ResolveIs
  <1>2. n \in Nat \ {0} /\ Top = stack[n]
    BY <1>1, TopFacts
  <1> HIDE DEF n
  <1>3. Len(stack') = n /\ \A i \in 1..n : i = n \/ (i \in 1..(n - 1) /\ stack'[i] = stack[i])
    BY <1>1, <1>2 DEF Replaced, n
  <1>4. \A i \in 1..n : stack'[i].desc = stack[i].desc /\ stack'[i].id = stack[i].id
    BY <1>1, <1>2, <1>3
  <1> QED
    BY <1>1, <1>3, <1>4 DEF OnceOK, n

SafeInv ==
    SafeIn(world) => /\ LinkedOK(classes, stack) /\ LaidOutOK(classes)
                     /\ OnceOK(classes, byDesc, stack, world)
FullInv == IInv /\ HierInv /\ RunInv /\ SafeInv

LEMMA SafeStep == ASSUME FullInv, [Next]_vars PROVE SafeInv'
  <1>1. IInv /\ HierInv /\ RunInv /\ classes \in Seq(Class) /\ Len(classes) \in Nat
    BY DEF FullInv, IInv, TypeOK
  <1>2. CASE UNCHANGED vars
    BY <1>2 DEF FullInv, SafeInv, vars
  <1>3. world' = world
    BY DEF Next, Load, Resolve, Descend, Enter, Finish, RegisterNative, vars
  <1> SUFFICES ASSUME SafeIn(world), ~UNCHANGED vars
               PROVE  /\ LinkedOK(classes', stack') /\ LaidOutOK(classes')
                      /\ OnceOK(classes', byDesc', stack', world')
    BY <1>2, <1>3 DEF SafeInv
  <1>4. /\ LinkedOK(classes, stack) /\ LaidOutOK(classes)
        /\ OnceOK(classes, byDesc, stack, world)
    BY DEF FullInv, SafeInv
  <1>5. ASSUME Resolve
        PROVE  /\ LinkedOK(classes', stack') /\ LaidOutOK(classes')
               /\ OnceOK(classes', byDesc', stack', world')
    <2>1. classes' = classes
      BY <1>5 DEF Resolve
    <2> QED
      BY <1>1, <1>4, <1>5, <2>1, ResolveLinked, ResolveOnce
  <1>6. ASSUME Enter
        PROVE  /\ LinkedOK(classes', stack') /\ LaidOutOK(classes')
               /\ OnceOK(classes', byDesc', stack', world')
    <2>1. /\ Len(classes') = Len(classes) + 1 /\ \A c \in 1..Len(classes) : classes'[c] = classes[c]
          /\ classes'[Len(classes) + 1].linked = FALSE
      BY <1>1, <1>6, EnterIs
    <2>2. /\ Len(classes') \in Nat /\ Len(classes) <= Len(classes')
          /\ \A b \in 1..Len(classes') : b \in 1..Len(classes) \/ b = Len(classes) + 1
      BY <1>1, <2>1
    <2>3. LaidOutOK(classes')
      BY <1>1, <1>4, <2>1, <2>2, LayoutsKept
    <2> QED
      BY <1>1, <1>4, <1>6, <2>3, EnterLinked, EnterOnce
  <1>7. ASSUME Finish
        PROVE  /\ LinkedOK(classes', stack') /\ LaidOutOK(classes')
               /\ OnceOK(classes', byDesc', stack', world')
    BY <1>1, <1>4, <1>7, FinishLinked, FinishLaidOut, FinishOnce
  <1>8. ASSUME NEW d \in Desc, Starts(d)
        PROVE  /\ LinkedOK(classes', stack') /\ LaidOutOK(classes')
               /\ OnceOK(classes', byDesc', stack', world')
    <2>1. classes' = classes
      BY <1>8 DEF Starts
    <2> QED
      BY <1>1, <1>4, <1>8, <2>1, StartsLinked, StartsOnce
  <1>9. ASSUME NEW d \in Desc, Fails(d)
        PROVE  /\ LinkedOK(classes', stack') /\ LaidOutOK(classes')
               /\ OnceOK(classes', byDesc', stack', world')
    <2>1. UNCHANGED <<world, classes, byDesc>> /\ stack' = <<>> /\ Len(stack') = 0
      BY <1>9 DEF Fails, BeginFails
    <2>2. OnceOK(classes', byDesc', stack', world')
      BY <1>4, <2>1 DEF OnceOK
    <2> QED
      BY <1>1, <1>4, <1>9, <2>1, <2>2, FailsLinked
  <1>10. ASSUME NEW h \in Offered, RegisterNative(h)
        PROVE  /\ LinkedOK(classes', stack') /\ LaidOutOK(classes')
               /\ OnceOK(classes', byDesc', stack', world')
    <2>1. /\ UNCHANGED <<world, byDesc, stack>> /\ Len(stack) = 0
          /\ SameShape(classes, classes')
          /\ \A c \in 1..Len(classes) : /\ classes'[c].linked = classes[c].linked
                                        /\ classes'[c].layout = classes[c].layout
                                        /\ classes'[c].offsets = classes[c].offsets
      BY <1>1, <1>10, RegisterNativeIs
    <2>2. /\ Len(classes') = Len(classes)
          /\ \A c \in 1..Len(classes) : classes'[c].super = classes[c].super /\ classes'[c].desc = classes[c].desc
      BY <2>1 DEF SameShape
    <2>3. LaidOutOK(classes')
      <3>1. Len(classes') \in Nat /\ Len(classes) <= Len(classes')
        BY <1>1, <2>2
      <3> QED
        BY <1>1, <1>4, <2>1, <2>2, <3>1, LayoutsKept
    <2>4. OnceOK(classes', byDesc', stack', world')
      BY <1>4, <2>1, <2>2 DEF OnceOK
    <2> QED
      BY <1>1, <1>4, <1>10, <2>3, <2>4, RegisterLinked
  <1> QED
    BY <1>1, <1>5, <1>6, <1>7, <1>8, <1>9, <1>10, StepIs

LEMMA FullInductive == Spec => []FullInv
  <1>1. Init => FullInv
    <2>1. Init => SafeInv
      BY DEF Init, SafeInv, LinkedOK, LaidOutOK, OnceOK
    <2> QED
      BY <2>1, InitInv, HierInit, RunInit DEF FullInv
  <1>2. FullInv /\ [Next]_vars => FullInv'
    BY StepInv, HierStep, RunStep, SafeStep DEF FullInv
  <1> QED
    BY <1>1, <1>2, PTL DEF Spec

-----------------------------------------------------------------------------
(* No descriptor is being loaded twice, or has two classes, whatever needs *)
(* what, in which order classes are named and which loads fail; but for    *)
(* classes of the host's tables that are their own supertypes, and for     *)
(* worlds in which a constant leads back to its class.                     *)
THEOREM ClassesLoadedOnce == Spec => []LoadedOnce
  <1>1. FullInv => LoadedOnce
    <2> SUFFICES ASSUME FullInv, ConstantsSafe
                 PROVE  /\ \A i, j \in 1..Len(stack) :
                             stack[i].desc = stack[j].desc => i = j \/ ShimCycle(stack[i].desc)
                        /\ \A b, c \in Ids : classes[b].desc = classes[c].desc => b = c
      BY DEF LoadedOnce
    <2>1. OnceOK(classes, byDesc, stack, world)
      BY InWorld DEF FullInv, SafeInv
    <2>2. \A e : ShimCycle(e) <=> /\ world[e].src # "dex"
                                  /\ e \in ClosureIn(world, NeedsIn(world, e, FALSE), FALSE)
      BY InWorld DEF ShimCycle
    <2>3. \A i, j \in 1..Len(stack) :
            stack[i].desc = stack[j].desc => i = j \/ ShimCycle(stack[i].desc)
      BY <2>1, <2>2 DEF OnceOK
    <2>4. \A b, c \in Ids : classes[b].desc = classes[c].desc => b = c
      BY <2>1 DEF OnceOK, Ids
    <2> QED
      BY <2>3, <2>4
  <1> QED
    BY <1>1, FullInductive, PTL

(* An object has a slot for every field of its class, and the fields it    *)
(* inherits are where the methods of the superclass look for them, as long *)
(* as no field hides another, for hierarchies of any depth: a class is     *)
(* laid out on a superclass that is linked.                                *)
THEOREM LayoutsSound == Spec => []LayoutSound
  <1>1. FullInv => LayoutSound
    <2> SUFFICES ASSUME FullInv, ConstantsSafe, NEW c \in Ids, classes[c].linked, ~Hiding(c)
                 PROVE  LaidOut(c)
      BY DEF LayoutSound
    <2> DEFINE lay == classes[c].layout
               off == classes[c].offsets
               s == classes[c].super
               I == 1..Len(lay)
               f == [i \in I |-> lay[i]]
    <2>1. /\ LinkedOK(classes, stack) /\ LaidOutOK(classes) /\ c \in 1..Len(classes)
          /\ classes \in Seq(Class) /\ ClassesAs(classes, world)
      BY InWorld DEF FullInv, SafeInv, IInv, TypeOK, HierInv, Ids
    <2>2. classes[c] \in Class
      BY <2>1
    <2>3. lay \in Seq(Field) /\ off \in [Field -> Int] /\ classes[c].linked \in BOOLEAN
      BY <2>2 DEF Class
    <2>4. Places(lay, off) /\ (s # 0 => Agrees(lay, off, classes[s].offsets))
      BY <2>1, <2>3 DEF LaidOutOK, Placed, Inherits
    <2>5. Distinct(lay)
      BY DEF Hiding, Distinct
    <2>6. Offsets(c) = off
      BY <2>1 DEF Offsets
    <2> HIDE DEF lay, off
    <2>7. FieldsOf(c) = {lay[i] : i \in I}
      BY <2>3, <2>4, <2>6 DEF FieldsOf, Places
    <2>8. ExistsBijection(I, FieldsOf(c))
      <3>1. f \in [I -> FieldsOf(c)]
        BY <2>7
      <3>2. f \in Injection(I, FieldsOf(c))
        BY <2>5, <3>1 DEF Injection, IsInjective, Distinct
      <3>3. f \in Surjection(I, FieldsOf(c))
        BY <2>7, <3>1 DEF Surjection
      <3> QED
        BY <3>2, <3>3 DEF ExistsBijection, Bijection
    <2>9. NewInstanceSlots(c) = Len(lay)
      <3>1. Len(lay) \in Nat
        BY <2>3
      <3> QED
        BY <2>8, <3>1, FS_CountingElements DEF NewInstanceSlots
    <2>10. \A i \in I : off[lay[i]] = i - 1
      BY <2>4, <2>5 DEF Places
    <2>11. ASSUME s # 0
           PROVE  classes[s].linked /\ \A e \in FieldsOf(s) : off[e] = Offsets(s)[e]
      <3>1. classes[s].linked
        BY <2>1, <2>11 DEF LinkedOK
      <3>2. Offsets(s) = classes[s].offsets
        BY <2>11 DEF Offsets
      <3> QED
        BY <2>4, <2>5, <2>11, <3>1, <3>2 DEF Agrees, FieldsOf
    <2> QED
      BY <2>6, <2>9, <2>10, <2>11 DEF LaidOut, lay, off
  <1> QED
    BY <1>1, FullInductive, PTL

-----------------------------------------------------------------------------
(* Walks over the table *)

LEMMA ClosureOne ==
    ASSUME NEW w \in Worlds, NEW k, NEW d \in Desc
    PROVE  ClosureIn(w, {d}, k) = {d} \cup UNION {ClosureIn(w, {e}, k) : e \in NeedsIn(w, d, k)}
  <1> DEFINE C == ClosureIn(w, {d}, k)
             R == {d} \cup UNION {ClosureIn(w, {e}, k) : e \in NeedsIn(w, d, k)}
  <1>1. {d} \in SUBSET Desc /\ NeedsIn(w, d, k) \subseteq Desc
    BY NeedsFacts
  <1>2. d \in C /\ C \subseteq Desc /\ ClosedIn(w, C, k)
    BY <1>1, ClosureFacts
  <1>3. \A e \in NeedsIn(w, d, k) : ClosureIn(w, {e}, k) \subseteq C
    <2>1. NeedsIn(w, d, k) \subseteq C
      BY <1>2 DEF ClosedIn
    <2> QED
      BY <1>1, <2>1, ClosureStep
  <1>4. \A e \in NeedsIn(w, d, k) : /\ e \in ClosureIn(w, {e}, k) /\ ClosureIn(w, {e}, k) \subseteq Desc
                                    /\ ClosedIn(w, ClosureIn(w, {e}, k), k)
    BY <1>1, ClosureFacts
  <1>5. R \subseteq Desc
    BY <1>4
  <1>6. ClosedIn(w, R, k)
    <2> SUFFICES ASSUME NEW x \in R PROVE NeedsIn(w, x, k) \subseteq R
      BY DEF ClosedIn
    <2>1. CASE x = d
      BY <1>4, <2>1
    <2>2. ASSUME NEW e \in NeedsIn(w, d, k), x \in ClosureIn(w, {e}, k) PROVE NeedsIn(w, x, k) \subseteq R
      BY <1>4, <2>2 DEF ClosedIn
    <2> QED
      BY <2>1, <2>2
  <1>7. {d} \subseteq R
    OBVIOUS
  <1> HIDE DEF R
  <1>8. C \subseteq R
    BY <1>5, <1>6, <1>7, ClosureLeast
  <1>9. R \subseteq C
    BY <1>2, <1>3 DEF R
  <1> QED
    BY <1>8, <1>9 DEF R

(* The descriptors of the supertypes of c. *)
TypesOf(c) == ClosureIn(world, {classes[c].desc}, FALSE)

LEMMA TypesOfOne ==
    ASSUME IInv, HierInv, NEW c \in 1..Len(classes)
    PROVE  /\ classes[c].desc \in Desc /\ Ups(classes, c) \subseteq 1..(c - 1)
           /\ TypesOf(c) = {classes[c].desc} \cup UNION {TypesOf(u) : u \in Ups(classes, c)}
  <1>1. classes \in Seq(Class) /\ world \in Worlds
    BY DEF IInv, TypeOK
  <1>2. classes[c] \in Class
    BY <1>1
  <1>3. classes[c].desc \in Desc
    BY <1>2 DEF Class
  <1>4. /\ Ups(classes, c) \subseteq 1..(c - 1)
        /\ Descs(classes, Ups(classes, c)) = NeedsIn(world, classes[c].desc, FALSE)
    BY DEF HierInv, ClassesAs
  <1>5. TypesOf(c) = {classes[c].desc}
                       \cup UNION {ClosureIn(world, {e}, FALSE) : e \in NeedsIn(world, classes[c].desc, FALSE)}
    BY <1>1, <1>3, ClosureOne DEF TypesOf
  <1>6. {ClosureIn(world, {e}, FALSE) : e \in Descs(classes, Ups(classes, c))}
          = {TypesOf(u) : u \in Ups(classes, c)}
    BY DEF Descs, TypesOf
  <1> QED
    BY <1>3, <1>4, <1>5, <1>6

(* is_assignable is what its equation determines. *)
LEMMA AssignableIs ==
    ASSUME IInv, HierInv, NEW t, NEW g0 \in [Ids -> BOOLEAN],
           \A c \in Ids : g0[c] <=> (c = t \/ \E u \in Ups(classes, c) : g0[u])
    PROVE  \A c \in Ids : IsAssignable(c, t) <=> g0[c]
  <1> DEFINE F(g) == [c \in Ids |->
                        \/ c = t
                        \/ \E j \in 1..Len(classes[c].ifaces) : g[classes[c].ifaces[j]]
                        \/ classes[c].super # 0 /\ g[classes[c].super]]
             A == CHOOSE g : g = F(g)
  <1>1. \A c : IsAssignable(c, t) <=> A[c]
    BY DEF IsAssignable
  <1>2. \A g : \A c \in Ids : F(g)[c] <=> (c = t \/ \E u \in Ups(classes, c) : g[u])
    BY DEF Ups
  <1>3. g0 = F(g0)
    <2>1. F(g0) \in [Ids -> BOOLEAN]
      OBVIOUS
    <2>2. \A c \in Ids : F(g0)[c] <=> g0[c]
      BY <1>2
    <2> HIDE DEF F
    <2>3. \A c \in Ids : F(g0)[c] = g0[c]
      BY <2>1, <2>2
    <2> QED
      BY <2>1, <2>3
  <1>4. A = F(A)
    <2> HIDE DEF F
    <2> QED
      BY <1>3
  <1>5. \A c \in Ids : A[c] <=> (c = t \/ \E u \in Ups(classes, c) : A[u])
    <2> HIDE DEF F, A
    <2> QED
      BY <1>2, <1>4
  <1> HIDE DEF F, A
  <1> DEFINE T == {c \in Ids : A[c] <=> g0[c]}
  <1>6. ASSUME NEW c \in 1..Len(classes), \A b \in 1..(c - 1) : b \in T PROVE c \in T
    <2>1. Ups(classes, c) \subseteq 1..(c - 1)
      BY TypesOfOne
    <2>2. \A u \in Ups(classes, c) : A[u] <=> g0[u]
      BY <1>6, <2>1
    <2>3. c \in Ids
      BY DEF Ids
    <2> QED
      BY <1>5, <2>2, <2>3
  <1>7. \A c \in 1..Len(classes) : c \in T
    <2>1. Len(classes) \in Nat
      BY DEF IInv, TypeOK
    <2> HIDE DEF T
    <2> QED
      BY <1>6, <2>1, StrongInduction
  <1> QED
    BY <1>1, <1>7 DEF Ids

(* instance-of and check-cast on the class table decide what the dex files *)
(* and shims declare, for every hierarchy and every order of loading.      *)
THEOREM AssignableIsDeclared == Spec => []AssignableAsDeclared
  <1>1. FullInv => AssignableAsDeclared
    <2> SUFFICES ASSUME FullInv, ConstantsSafe, NEW c \in Ids, NEW t \in Ids
                 PROVE  IsAssignable(c, t) <=> classes[t].desc \in Closure({classes[c].desc}, FALSE)
      BY DEF AssignableAsDeclared
    <2>1. IInv /\ HierInv /\ OnceOK(classes, byDesc, stack, world)
      BY InWorld DEF FullInv, SafeInv
    <2> DEFINE g0 == [b \in Ids |-> IF classes[t].desc \in TypesOf(b) THEN TRUE ELSE FALSE]
    <2>2. g0 \in [Ids -> BOOLEAN] /\ \A b \in Ids : g0[b] <=> classes[t].desc \in TypesOf(b)
      OBVIOUS
    <2> HIDE DEF g0
    <2>3. ASSUME NEW b \in Ids PROVE g0[b] <=> (b = t \/ \E u \in Ups(classes, b) : g0[u])
      <3>1. b \in 1..Len(classes) /\ Len(classes) \in Nat
        BY <2>1 DEF Ids, IInv, TypeOK
      <3>2. /\ Ups(classes, b) \subseteq 1..(b - 1)
            /\ TypesOf(b) = {classes[b].desc} \cup UNION {TypesOf(u) : u \in Ups(classes, b)}
        BY <2>1, <3>1, TypesOfOne
      <3>3. \A u \in Ups(classes, b) : u \in Ids
        BY <3>1, <3>2 DEF Ids
      <3>4. classes[t].desc = classes[b].desc <=> b = t
        BY <2>1 DEF OnceOK, Ids
      <3> QED
        BY <2>2, <3>2, <3>3, <3>4
    <2>4. IsAssignable(c, t) <=> g0[c]
      BY <2>1, <2>2, <2>3, AssignableIs
    <2> QED
      BY <2>2, <2>4, InWorld DEF TypesOf
  <1> QED
    BY <1>1, FullInductive, PTL

(* The first class is Object's; an interface without superclass, for which *)
(* the walk goes on there, is another one.                                 *)
LEMMA ObjectIsFirst ==
    ASSUME IInv, HierInv, NEW c \in 1..Len(classes)
    PROVE  /\ byDesc[Object] = 1 /\ 1 \in 1..Len(classes)
           /\ classes[c].iface => 1 \in 1..(c - 1)
  <1>1. classes # <<>> /\ classes \in Seq(Class) /\ world \in Worlds /\ Object \in Desc
    BY ClassTableAssumption DEF IInv, TypeOK
  <1>2. byDesc[Object] = 1
    BY <1>1 DEF HierInv, ObjectFirst
  <1>3. 1 \in 1..Len(classes) /\ classes[1].desc = Object
    BY <1>1, <1>2 DEF IInv, ClassesOK
  <1>4. ~classes[1].iface
    <2>1. classes[1].iface = world[Object].iface
      BY <1>3 DEF HierInv, ClassesAs
    <2> QED
      BY <1>1, <2>1, ClassTableAssumption
  <1>5. classes[c].iface => c # 1
    BY <1>4
  <1> QED
    BY <1>2, <1>3, <1>5

FindBody(k, c, g) ==
    IF Provides(c, k) THEN c
    ELSE IF classes[c].super # 0 THEN g[classes[c].super]
    ELSE IF classes[c].iface THEN g[byDesc[Object]]
    ELSE 0

SearchBody(k, c, g) ==
    LET is == classes[c].ifaces
        hits == {j \in 1..Len(is) : g[is[j]] # 0}
    IN  IF Provides(c, k) THEN c
        ELSE IF hits = {} THEN 0 ELSE g[is[Max(hits)]]

(* Where the walks look. *)
LEMMA FindLooks ==
    ASSUME IInv, HierInv, NEW k, NEW c \in 1..Len(classes)
    PROVE  \/ \E v \in {0, c} : \A g : FindBody(k, c, g) = v
           \/ \E u \in Ups(classes, c) \cup {1} :
                u \in 1..(c - 1) /\ \A g : FindBody(k, c, g) = g[u]
  <1>1. Ups(classes, c) \subseteq 1..(c - 1)
    BY TypesOfOne
  <1>2. CASE Provides(c, k)
    BY <1>2 DEF FindBody
  <1>3. CASE ~Provides(c, k) /\ classes[c].super # 0
    <2>1. classes[c].super \in Ups(classes, c)
      BY <1>3 DEF Ups
    <2>2. \A h : FindBody(k, c, h) = h[classes[c].super]
      BY <1>3 DEF FindBody
    <2> QED
      BY <1>1, <2>1, <2>2
  <1>4. CASE ~Provides(c, k) /\ classes[c].super = 0 /\ classes[c].iface
    <2>1. \A h : FindBody(k, c, h) = h[1]
      BY <1>4, ObjectIsFirst DEF FindBody
    <2>2. 1 \in 1..(c - 1)
      BY <1>4, ObjectIsFirst
    <2> QED
      BY <2>1, <2>2
  <1>5. CASE ~Provides(c, k) /\ classes[c].super = 0 /\ ~classes[c].iface
    BY <1>5 DEF FindBody
  <1> QED
    BY <1>2, <1>3, <1>4, <1>5

LEMMA SearchLooks ==
    ASSUME IInv, HierInv, NEW k, NEW c \in 1..Len(classes), NEW g
    PROVE  /\ SearchBody(k, c, g) \in {0, c} \/ \E u \in Ups(classes, c) : SearchBody(k, c, g) = g[u]
           /\ \A h : (\A u \in Ups(classes, c) : g[u] = h[u]) => SearchBody(k, c, g) = SearchBody(k, c, h)
  <1> DEFINE is == classes[c].ifaces
             hits(h) == {j \in 1..Len(is) : h[is[j]] # 0}
             r(h) == IF Provides(c, k) THEN c ELSE IF hits(h) = {} THEN 0 ELSE h[is[Max(hits(h))]]
  <1>1. is \in Seq(Nat) /\ \A j \in 1..Len(is) : is[j] \in Ups(classes, c)
    <2>1. classes[c] \in Class
      BY DEF IInv, TypeOK
    <2> QED
      BY <2>1 DEF Class, Ups
  <1>2. \A h : SearchBody(k, c, h) = r(h)
    BY DEF SearchBody
  <1>3. \A h : hits(h) # {} => Max(hits(h)) \in hits(h)
    <2> TAKE h
    <2> DEFINE S == hits(h)
    <2>1. S \subseteq 1..Len(is) /\ Len(is) \in Nat
      BY <1>1
    <2> HIDE DEF S
    <2>2. S # {} => Max(S) \in S
      BY <2>1, MaxInSet
    <2> QED
      BY <2>2 DEF S
  <1> HIDE DEF is
  <1>4. r(g) \in {0, c} \/ \E u \in Ups(classes, c) : r(g) = g[u]
    <2> DEFINE S == hits(g)
    <2>1. S # {} => Max(S) \in S
      BY <1>3
    <2>2. \A j \in S : is[j] \in Ups(classes, c)
      BY <1>1
    <2>3. r(g) = IF Provides(c, k) THEN c ELSE IF S = {} THEN 0 ELSE g[is[Max(S)]]
      OBVIOUS
    <2> HIDE DEF S, r
    <2> QED
      BY <2>1, <2>2, <2>3
  <1>5. ASSUME NEW h, \A u \in Ups(classes, c) : g[u] = h[u] PROVE r(g) = r(h)
    <2>1. hits(g) = hits(h)
      BY <1>1, <1>5
    <2> DEFINE S == hits(g)
    <2>2. S # {} => Max(S) \in S
      BY <1>3
    <2>3. \A j \in S : g[is[j]] = h[is[j]]
      BY <1>1, <1>5
    <2>4. r(g) = IF Provides(c, k) THEN c ELSE IF S = {} THEN 0 ELSE g[is[Max(S)]]
      OBVIOUS
    <2>5. r(h) = IF Provides(c, k) THEN c ELSE IF S = {} THEN 0 ELSE h[is[Max(S)]]
      BY <2>1
    <2> HIDE DEF S, r
    <2> QED
      BY <2>2, <2>3, <2>4, <2>5
  <1> HIDE DEF r
  <1> QED
    BY <1>2, <1>4, <1>5

(* The walks are functions that satisfy their equations. *)
Walked(k, g) == g \in [Ids -> 0..Len(classes)] /\ \A c \in Ids : g[c] = FindBody(k, c, g)
Searched(k, g) == g \in [Ids -> 0..Len(classes)] /\ \A c \in Ids : g[c] = SearchBody(k, c, g)

LEMMA FindIs ==
    ASSUME IInv, HierInv, NEW k
    PROVE  \E g : Walked(k, g) /\ \A c : FindInSupers(c, k) = g[c]
  <1> DEFINE n == Len(classes)
             V == 0..n
             G == [1..n -> V]
             body == [p \in (1..n) \X G |-> FindBody(k, p[1], p[2])]
             F(g) == [c \in Ids |-> FindBody(k, c, g)]
             A == CHOOSE g : g = F(g)
  <1>1. n \in Nat /\ 0 \in V /\ Ids = 1..n
    BY DEF IInv, TypeOK, Ids
  <1> HIDE DEF n
  <1>2. ASSUME NEW c \in 1..n, NEW g \in G PROVE FindBody(k, c, g) \in V
    <2>1. \A u \in 1..(c - 1) : u \in 1..n
      BY <1>1
    <2>2. \A u \in 1..n : g[u] \in V
      OBVIOUS
    <2>3. 0 \in V /\ c \in V
      BY <1>1
    <2> QED
      BY <2>1, <2>2, <2>3, FindLooks DEF n
  <1>3. \A c \in 1..n : \A g \in G : body[<<c, g>>] = FindBody(k, c, g)
    OBVIOUS
  <1>4. body \in [(1..n) \X G -> V]
    BY <1>2
  <1>5. ASSUME NEW c \in 1..n, NEW g \in G, NEW h \in G, \A j \in 1..(c - 1) : g[j] = h[j]
        PROVE  FindBody(k, c, g) = FindBody(k, c, h)
    BY <1>5, FindLooks DEF n
  <1> HIDE DEF body, V
  <1>6. LooksBelow(body, n, V)
    <2> SUFFICES ASSUME NEW c \in 1..n, NEW g \in G, NEW h \in G, \A j \in 1..(c - 1) : g[j] = h[j]
                 PROVE  body[<<c, g>>] = body[<<c, h>>]
      BY DEF LooksBelow
    <2> HIDE DEF G
    <2>1. FindBody(k, c, g) = FindBody(k, c, h)
      BY <1>5
    <2>2. body[<<c, g>>] = FindBody(k, c, g) /\ body[<<c, h>>] = FindBody(k, c, h)
      BY <1>3
    <2> QED
      BY <2>1, <2>2
  <1>7. PICK g \in G : \A c \in 1..n : g[c] = body[<<c, g>>]
    BY <1>1, <1>4, <1>6, CourseOfValues, SMTT(30)
  <1>8. g = F(g)
    BY <1>1, <1>3, <1>7
  <1>9. A = F(A)
    <2> HIDE DEF F
    <2> QED
      BY <1>8
  <1>10. \A c : FindInSupers(c, k) = A[c]
    BY DEF FindInSupers, FindBody
  <1>11. \A c \in 1..n : A[c] = FindBody(k, c, A)
    <2> HIDE DEF A
    <2> QED
      BY <1>1, <1>9
  <1> DEFINE T == {c \in 1..n : A[c] \in V}
  <1>12. ASSUME NEW c \in 1..n, \A j \in 1..(c - 1) : j \in T PROVE c \in T
    <2>1. A[c] = FindBody(k, c, A)
      BY <1>11
    <2>2. 0 \in V /\ c \in V
      BY <1>1 DEF V
    <2> HIDE DEF A
    <2>3. \A j \in 1..(c - 1) : A[j] \in V
      BY <1>12
    <2>4. FindBody(k, c, A) \in V
      BY <2>2, <2>3, FindLooks DEF n
    <2> QED
      BY <2>1, <2>4
  <1>13. \A c \in 1..n : c \in T
    <2> HIDE DEF T
    <2> QED
      BY <1>1, <1>12, StrongInduction
  <1>14. A \in [1..n -> V]
    <2>1. F(A) = [c \in 1..n |-> A[c]]
      BY <1>1, <1>11
    <2> HIDE DEF F, A
    <2> QED
      BY <1>9, <1>13, <2>1
  <1>15. Walked(k, A)
    BY <1>1, <1>11, <1>14 DEF Walked, n, V
  <1> QED
    BY <1>10, <1>15

LEMMA SearchIs ==
    ASSUME IInv, HierInv, NEW k
    PROVE  \E g : Searched(k, g) /\ \A c : SearchInterfaces(c, k) = g[c]
  <1> DEFINE n == Len(classes)
             V == 0..n
             G == [1..n -> V]
             body == [p \in (1..n) \X G |-> SearchBody(k, p[1], p[2])]
             F(g) == [c \in Ids |-> SearchBody(k, c, g)]
             A == CHOOSE g : g = F(g)
  <1>1. n \in Nat /\ 0 \in V /\ Ids = 1..n
    BY DEF IInv, TypeOK, Ids
  <1> HIDE DEF n
  <1>2. \A c \in 1..n : Ups(classes, c) \subseteq 1..(c - 1)
    BY TypesOfOne DEF n
  <1>3. ASSUME NEW c \in 1..n, NEW g, \A u \in 1..(c - 1) : g[u] \in V PROVE SearchBody(k, c, g) \in V
    <2>1. 0 \in V /\ c \in V
      BY <1>1
    <2>2. SearchBody(k, c, g) \in {0, c} \/ \E u \in Ups(classes, c) : SearchBody(k, c, g) = g[u]
      BY SearchLooks DEF n
    <2> HIDE DEF V
    <2> QED
      BY <1>2, <1>3, <2>1, <2>2
  <1>4. \A c \in 1..n : \A g \in G : body[<<c, g>>] = SearchBody(k, c, g)
    OBVIOUS
  <1>5. body \in [(1..n) \X G -> V]
    <2>1. \A c \in 1..n : \A g \in G : \A u \in 1..(c - 1) : g[u] \in V
      <3>1. \A c \in 1..n : \A u \in 1..(c - 1) : u \in 1..n
        BY <1>1
      <3> QED
        BY <3>1
    <2> QED
      BY <1>3, <2>1
  <1>6. ASSUME NEW c \in 1..n, NEW g \in G, NEW h \in G, \A j \in 1..(c - 1) : g[j] = h[j]
        PROVE  SearchBody(k, c, g) = SearchBody(k, c, h)
    <2>1. \A u \in Ups(classes, c) : g[u] = h[u]
      BY <1>2, <1>6
    <2> QED
      BY <2>1, SearchLooks DEF n
  <1> HIDE DEF body, V
  <1>7. LooksBelow(body, n, V)
    <2> SUFFICES ASSUME NEW c \in 1..n, NEW g \in G, NEW h \in G, \A j \in 1..(c - 1) : g[j] = h[j]
                 PROVE  body[<<c, g>>] = body[<<c, h>>]
      BY DEF LooksBelow
    <2> HIDE DEF G
    <2>1. SearchBody(k, c, g) = SearchBody(k, c, h)
      BY <1>6
    <2>2. body[<<c, g>>] = SearchBody(k, c, g) /\ body[<<c, h>>] = SearchBody(k, c, h)
      BY <1>4
    <2> QED
      BY <2>1, <2>2
  <1>8. PICK g \in G : \A c \in 1..n : g[c] = body[<<c, g>>]
    BY <1>1, <1>5, <1>7, CourseOfValues, SMTT(30)
  <1>9. g = F(g)
    BY <1>1, <1>4, <1>8
  <1>10. A = F(A)
    <2> HIDE DEF F
    <2> QED
      BY <1>9
  <1>11. \A c : SearchInterfaces(c, k) = A[c]
    BY DEF SearchInterfaces, SearchBody
  <1>12. \A c \in 1..n : A[c] = SearchBody(k, c, A)
    <2> HIDE DEF A
    <2> QED
      BY <1>1, <1>10
  <1> HIDE DEF A
  <1> DEFINE T == {c \in 1..n : A[c] \in V}
  <1>13. ASSUME NEW c \in 1..n, \A j \in 1..(c - 1) : j \in T PROVE c \in T
    BY <1>3, <1>12, <1>13
  <1>14. \A c \in 1..n : c \in T
    <2> HIDE DEF T
    <2> QED
      BY <1>1, <1>13, StrongInduction
  <1>15. A \in [1..n -> V]
    <2>1. F(A) = [c \in 1..n |-> A[c]]
      BY <1>1, <1>12
    <2> HIDE DEF F
    <2> QED
      BY <1>10, <1>14, <2>1
  <1>16. Searched(k, A)
    BY <1>1, <1>12, <1>15 DEF Searched, n, V
  <1> QED
    BY <1>11, <1>16

(* A walk ends in a class that is a supertype, in Object, or nowhere. *)
EndsIn(c, t) == t \in {0, 1} \/ (t \in Ids /\ classes[t].desc \in TypesOf(c))

LEMMA WalkEnds ==
    ASSUME IInv, HierInv, NEW k, NEW g, Walked(k, g) \/ Searched(k, g)
    PROVE  \A c \in Ids : EndsIn(c, g[c])
  <1> DEFINE T == {c \in Ids : EndsIn(c, g[c])}
  <1>1. ASSUME NEW c \in 1..Len(classes), \A j \in 1..(c - 1) : j \in T PROVE c \in T
    <2>1. c \in Ids /\ classes[c].desc \in TypesOf(c)
      BY TypesOfOne DEF Ids
    <2>2. \A u \in Ups(classes, c) : u \in 1..(c - 1) /\ TypesOf(u) \subseteq TypesOf(c)
      BY TypesOfOne
    <2>3. \A u \in Ups(classes, c) : EndsIn(c, g[u])
      BY <1>1, <2>2 DEF EndsIn
    <2>4. ASSUME 1 \in 1..(c - 1) PROVE EndsIn(c, g[1]) 
      <3>1. EndsIn(1, g[1]) /\ Ups(classes, 1) = {} /\ 1 \in 1..Len(classes)
        <4>1. 1 \in 1..Len(classes)
          BY ObjectIsFirst
        <4>2. Ups(classes, 1) \subseteq 1..(1 - 1)
          BY <4>1, TypesOfOne
        <4> QED
          BY <1>1, <2>4, <4>1, <4>2
      <3>2. g[1] \in {0, 1}
        <4>1. 1 \in Ids
          BY <3>1 DEF Ids
        <4>2. CASE Searched(k, g)
          <5>1. g[1] = SearchBody(k, 1, g)
            BY <4>1, <4>2 DEF Searched
          <5> QED
            BY <3>1, <5>1, SearchLooks
        <4>3. CASE Walked(k, g)
          <5>1. g[1] = FindBody(k, 1, g)
            BY <4>1, <4>3 DEF Walked
          <5>2. 1..(1 - 1) = {}
            OBVIOUS
          <5>3. \E v \in {0, 1} : \A h : FindBody(k, 1, h) = v
            BY <3>1, <5>2, FindLooks
          <5> QED
            BY <5>1, <5>3
        <4> QED
          BY <4>2, <4>3
      <3> QED
        BY <3>2 DEF EndsIn
    <2>5. EndsIn(c, 0) /\ EndsIn(c, c)
      BY <2>1 DEF EndsIn
    <2>6. CASE Searched(k, g)
      <3>1. g[c] = SearchBody(k, c, g)
        BY <2>1, <2>6 DEF Searched
      <3>2. SearchBody(k, c, g) \in {0, c} \/ \E u \in Ups(classes, c) : SearchBody(k, c, g) = g[u]
        BY SearchLooks
      <3> QED
        BY <2>1, <2>3, <2>5, <3>1, <3>2
    <2>7. CASE Walked(k, g)
      <3>1. g[c] = FindBody(k, c, g)
        BY <2>1, <2>7 DEF Walked
      <3>2. \/ FindBody(k, c, g) \in {0, c}
            \/ \E u \in Ups(classes, c) \cup {1} : u \in 1..(c - 1) /\ FindBody(k, c, g) = g[u]
        BY FindLooks
      <3> QED
        BY <2>1, <2>3, <2>4, <2>5, <3>1, <3>2
    <2> QED
      BY <2>6, <2>7
  <1>2. \A c \in 1..Len(classes) : c \in T
    <2>1. Len(classes) \in Nat
      BY DEF IInv, TypeOK
    <2> HIDE DEF T
    <2> QED
      BY <1>1, <2>1, StrongInduction
  <1> QED
    BY <1>2 DEF Ids

(* An invoke runs a method of a supertype of the receiver's class or of    *)
(* Object, whatever the interfaces and superclasses are and whatever the   *)
(* host registers: the walks of resolve_target leave the hierarchy only    *)
(* for Object, and end.                                                    *)
THEOREM MethodsFromSupertypes == Spec => []MethodsOfSupertypes
  <1>1. FullInv => MethodsOfSupertypes
    <2> SUFFICES ASSUME FullInv, NEW c \in Ids, NEW k \in Key,
                        ResolveTarget(c, k) \notin {0, byDesc[Object]}
                 PROVE  classes[ResolveTarget(c, k)].desc \in Closure({classes[c].desc}, FALSE)
      BY DEF MethodsOfSupertypes
    <2> DEFINE t == ResolveTarget(c, k)
    <2>1. IInv /\ HierInv
      BY DEF FullInv
    <2>2. PICK g : Walked(k, g) /\ \A b : FindInSupers(b, k) = g[b]
      BY <2>1, FindIs
    <2>3. PICK h : Searched(k, h) /\ \A b : SearchInterfaces(b, k) = h[b]
      BY <2>1, SearchIs
    <2>4. EndsIn(c, g[c]) /\ EndsIn(c, h[c])
      BY <2>1, <2>2, <2>3, WalkEnds
    <2>5. t = g[c] \/ t = h[c]
      BY <2>2, <2>3 DEF ResolveTarget
    <2> HIDE DEF t
    <2>6. byDesc[Object] = 1
      BY <2>1, ObjectIsFirst DEF Ids
    <2>7. t \notin {0, 1}
      BY <2>6 DEF t
    <2>8. classes[t].desc \in TypesOf(c)
      BY <2>4, <2>5, <2>7 DEF EndsIn
    <2> QED
      BY <2>8, InWorld DEF TypesOf, t
  <1> QED
    BY <1>1, FullInductive, PTL
=============================================================================
