----------------------------- MODULE HeapProofs -----------------------------
(***************************************************************************)
(* Theorems about Heap: type correctness, exactness of the marking phase,  *)
(* and the free list never holding a reachable object in clean histories.  *)
(***************************************************************************)
EXTENDS Heap, SequenceTheorems, FiniteSetTheorems, TLAPS

\* The arithmetic of dropping the last element.
LEMMA PopLength ==
    ASSUME NEW n \in Nat, n # 0,
           NEW k, k = IF 1 <= n - 1 THEN n - 1 - 1 + 1 ELSE 0
    PROVE  k = n - 1
  OBVIOUS

\* Vec::pop on the free list: the last element goes, the others stay.
LEMMA PopFacts ==
    ASSUME NEW S, NEW s \in Seq(S), s # <<>>
    PROVE  /\ Len(s) \in Nat /\ Len(s) # 0 /\ s[Len(s)] \in S
           /\ SubSeq(s, 1, Len(s) - 1) \in Seq(S)
           /\ Len(SubSeq(s, 1, Len(s) - 1)) = Len(s) - 1
           /\ \A i \in 1..(Len(s) - 1) : SubSeq(s, 1, Len(s) - 1)[i] = s[i]
  <1>1. Len(s) \in Nat /\ Len(s) # 0 /\ s[Len(s)] \in S
    OBVIOUS
  <1> DEFINE t == SubSeq(s, 1, Len(s) - 1)
  <1>2. Len(t) = IF 1 <= Len(s) - 1 THEN Len(s) - 1 - 1 + 1 ELSE 0
    BY <1>1, SubSeqProperties
  <1>3. t \in Seq(S)
    BY <1>1
  <1>4. \A i \in 1..(Len(s) - 1) : t[i] = s[i]
    BY <1>1
  <1> HIDE DEF t
  <1>5. Len(t) = Len(s) - 1
    BY <1>1, <1>2, PopLength, Zenon
  <1> QED
    BY <1>1, <1>3, <1>4, <1>5 DEF t

\* A fresh object has no outgoing references (Arena::alloc by NewInstance,
\* alloc_string, class_obj and the bridge).
LEMMA BareFacts ==
    ASSUME NEW c \in Class, NEW nat \in Lit \cup AppClass \cup {Nothing}
    PROVE  /\ Bare(c, nat) \in JObject
           /\ Bare(c, nat).class = c
           /\ Bare(c, nat).native = nat
           /\ \A f \in Field : Bare(c, nat).fields[f] = Null
  BY DEF Bare, JObject, Ref, Null, Class

\* The part of the type invariant that the arena operations rely on.
ArenaOK ==
    /\ objects \in Seq(JObject) /\ Len(objects) <= MaxSlots
    /\ free \in Seq(Slots)

\* The free list holds no slot twice.
FreeDistinct == \A i, j \in 1..Len(free) : free[i] = free[j] => i = j

\* While gc runs: the roots are marked, everything marked and no longer grey
\* has its references marked, and nothing unreachable is marked.
MarkOK ==
    /\ phase \in {"mark", "sweep"} =>
         /\ Roots \subseteq marks
         /\ \A id \in marks \ grey : CollectRefs(id) \subseteq marks
         /\ \A S \in SUBSET Slots : Roots \subseteq S /\ Closed(S) => marks \subseteq S
    /\ phase = "mark" => next = 1
    /\ phase = "sweep" => grey = {}

\* Outside guest code no register holds a reference, and no invoke_on is under
\* way while a collection runs.
QuietOK ==
    /\ phase # "run" => \A r \in Reg : regs[r] = Null
    /\ phase \in {"mark", "sweep"} => entry.op # "invoke_on"

\* Nothing that host or guest code can name is on the free list.
NamedInUse ==
    /\ lastInstance \notin FreeSlots /\ held \notin FreeSlots
    /\ \A r \in Reg : regs[r] \notin FreeSlots
    /\ \A c \in AppClass : statics[c] \notin FreeSlots /\ classObj[c] \notin FreeSlots
    /\ \A l \in Lit : strings[l] \notin FreeSlots
    /\ \A id \in Slots : monitors[id] > 0 => id \notin FreeSlots
    /\ entry.op = "invoke_on" => entry.arg \notin FreeSlots

\* A slot in use refers only to slots in use.
InUseClosed ==
    \A id \in Slots : id \in FreeSlots \/ References(id) \cap FreeSlots = {}

\* In clean histories; InUseClosed fails during the sweep only, when the free
\* list is exactly the unmarked slots already passed.
CleanOK ==
    clean =>
      /\ FreeDistinct
      /\ NamedInUse
      /\ phase # "sweep" => InUseClosed
      /\ phase = "mark" => free = <<>>
      /\ phase = "sweep" =>
           /\ FreeSlots = {id \in Slots : id < next /\ id \notin marks}
           /\ \A c \in AppClass : classObj[c] \in marks \cup {Null}
           /\ held \in marks \cup {Null}
           /\ \A id \in marks : References(id) \subseteq marks

IInv == TypeOK /\ MarkOK /\ QuietOK /\ CleanOK /\ InternedIdentity

\* What Arena::alloc returns and leaves alone: a fresh slot, or one taken off
\* the free list; every other object is untouched.
LEMMA AllocFacts ==
    ASSUME ArenaOK, NEW id \in Id, NEW o \in JObject, Alloc(id, o)
    PROVE  /\ ArenaOK'
           /\ Slots' = Slots \cup {id}
           /\ Len(objects) <= Len(objects')
           /\ objects'[id] = o
           /\ \A x \in Slots : x # id => objects'[x] = objects[x]
           /\ id \in Slots => id \in FreeSlots
           /\ FreeSlots' \subseteq FreeSlots /\ FreeSlots \subseteq FreeSlots' \cup {id}
           /\ FreeDistinct => FreeDistinct' /\ id \notin FreeSlots'
  <1>1. CASE free # <<>>
    <2>1. /\ Len(free) \in Nat \ {0}
          /\ id = free[Len(free)]
          /\ objects' = [objects EXCEPT ![id] = o]
          /\ free' = SubSeq(free, 1, Len(free) - 1)
      BY <1>1 DEF Alloc, ArenaOK
    <2>2. id \in Slots /\ id \in FreeSlots
      BY <2>1 DEF ArenaOK, FreeSlots, Slots
    <2>3. /\ objects' \in Seq(JObject) /\ Len(objects') = Len(objects)
          /\ objects'[id] = o
          /\ \A x \in Slots : x # id => objects'[x] = objects[x]
      BY <2>1, <2>2 DEF ArenaOK, Slots
    <2>4. /\ free' \in Seq(Slots) /\ Len(free') = Len(free) - 1
          /\ \A i \in 1..Len(free') : free'[i] = free[i]
      BY <1>1, <2>1, PopFacts DEF ArenaOK
    <2>5. Slots' = Slots
      BY <2>3 DEF Slots
    <2>6. FreeSlots' \subseteq FreeSlots /\ FreeSlots \subseteq FreeSlots' \cup {id}
      <3>1. \A i \in 1..Len(free) : i = Len(free) \/ i \in 1..Len(free')
        BY <2>1, <2>4
      <3>2. \A i \in 1..Len(free') : i \in 1..Len(free)
        BY <2>1, <2>4
      <3> QED
        BY <2>1, <2>4, <3>1, <3>2 DEF FreeSlots
    <2>7. ASSUME FreeDistinct PROVE FreeDistinct' /\ id \notin FreeSlots'
      <3>1. \A i, j \in 1..Len(free') : free'[i] = free'[j] => i = j
        BY <2>1, <2>4, <2>7 DEF FreeDistinct
      <3>2. \A i \in 1..Len(free') : free'[i] # id
        BY <2>1, <2>4, <2>7 DEF FreeDistinct
      <3> QED
        BY <3>1, <3>2 DEF FreeSlots, FreeDistinct
    <2> QED
      BY <2>2, <2>3, <2>4, <2>5, <2>6, <2>7 DEF ArenaOK
  <1>2. CASE free = <<>>
    <2>1. /\ Len(objects) < MaxSlots
          /\ id = Len(objects) + 1
          /\ objects' = Append(objects, o)
          /\ free' = free
      BY <1>2 DEF Alloc
    <2>2. /\ objects' \in Seq(JObject) /\ Len(objects') = Len(objects) + 1
          /\ objects'[id] = o
          /\ \A x \in Slots : objects'[x] = objects[x]
      BY <2>1 DEF ArenaOK, Slots
    <2>3. Slots' = Slots \cup {id} /\ id \notin Slots
      BY <2>1, <2>2 DEF Slots, ArenaOK
    <2>4. FreeSlots = {} /\ FreeSlots' = {} /\ FreeDistinct' /\ free' \in Seq(Slots')
      BY <1>2, <2>1 DEF FreeSlots, FreeDistinct
    <2>5. Len(objects) \in Nat /\ Len(objects') <= MaxSlots
      BY <2>1, <2>2, HeapAssumption DEF ArenaOK
    <2>6. ArenaOK'
      BY <2>2, <2>4, <2>5 DEF ArenaOK
    <2>7. Len(objects) <= Len(objects')
      BY <2>2, <2>5
    <2> QED
      BY <2>2, <2>3, <2>4, <2>6, <2>7
  <1> QED
    BY <1>1, <1>2

\* Objects refer to slots of the arena; stated over fields, which is what the
\* provers need.
LEMMA RefsInSlots ==
    ASSUME TypeOK, NEW id \in Slots, NEW f \in Field
    PROVE  objects[id].fields[f] \in Slots \cup {Null}
  BY DEF TypeOK, References

\* The collector is told of references only.
LEMMA CollectedInSlots ==
    ASSUME TypeOK
    PROVE  \A id \in Slots : CollectRefs(id) \subseteq References(id) /\ CollectRefs(id) \subseteq Slots
  <1>1. \A id \in Slots : CollectRefs(id) \subseteq References(id)
    BY DEF CollectRefs, References
  <1> QED
    BY <1>1 DEF TypeOK

\* Allocation of a bare object keeps the arena part of the type invariant.
LEMMA AllocKeepsType ==
    ASSUME TypeOK, NEW id \in Id, NEW c \in Class,
           NEW nat \in Lit \cup AppClass \cup {Nothing}, Alloc(id, Bare(c, nat))
    PROVE  /\ objects' \in Seq(JObject) /\ Len(objects') <= MaxSlots
           /\ free' \in Seq(Slots')
           /\ Slots' = Slots \cup {id}
           /\ Slots \subseteq Slots' /\ id \in Slots'
           /\ \A x \in Slots' : References(x)' \subseteq Slots'
           /\ next \in 1..(Len(objects') + 1)
  <1>1. ArenaOK
    BY DEF TypeOK, ArenaOK
  <1>2. Bare(c, nat) \in JObject /\ \A f \in Field : Bare(c, nat).fields[f] = Null
    BY BareFacts
  <1>3. /\ ArenaOK'
        /\ Slots' = Slots \cup {id}
        /\ Len(objects) <= Len(objects')
        /\ objects'[id] = Bare(c, nat)
        /\ \A x \in Slots : x # id => objects'[x] = objects[x]
    BY <1>1, <1>2, AllocFacts
  <1>4. ASSUME NEW x \in Slots' PROVE References(x)' \subseteq Slots'
    <2>1. CASE x = id
      BY <1>2, <1>3, <2>1 DEF References
    <2>2. CASE x # id
      BY <1>3, <2>2 DEF References, TypeOK
    <2> QED
      BY <2>1, <2>2
  <1>5. next \in 1..(Len(objects') + 1)
    <2>1. Len(objects) \in Nat /\ Len(objects') \in Nat
      BY <1>1, <1>3 DEF ArenaOK
    <2>2. next \in 1..(Len(objects) + 1)
      BY DEF TypeOK
    <2> QED
      BY <1>3, <2>1, <2>2
  <1> QED
    BY <1>3, <1>4, <1>5 DEF ArenaOK

LEMMA RootsInSlots ==
    ASSUME TypeOK
    PROVE  Roots \subseteq Slots
  BY DEF TypeOK, Roots

\* An entry a collection can start for.
EntryOK(en) ==
    /\ en \in [op : {"none", "gc", "call", "callStatic", "invoke", "invoke_on"},
               arg : AppClass \cup Ref]
    /\ en.op \in {"call", "callStatic"} => en.arg \in AppClass
    /\ en.op # "invoke_on"

LEMMA GcStartTypeOK ==
    ASSUME TypeOK, GcStart, EntryOK(entry'),
           UNCHANGED <<heapVars, rootVars, lastInstance, regs>>
    PROVE  TypeOK'
  <1>1. /\ objects' = objects /\ free' = free /\ Slots' = Slots
        /\ \A id \in Slots : References(id)' = References(id)
    BY DEF heapVars, Slots, References
  <1>2. marks' \subseteq Slots /\ grey' \subseteq marks'
    BY RootsInSlots DEF GcStart
  <1>3. next' \in 1..(Len(objects') + 1)
    <2>1. next' = 1 /\ Len(objects') \in Nat
      BY <1>1 DEF GcStart, TypeOK
    <2> QED
      BY <2>1
  <1>4. phase' = "mark" /\ held' \in {held, Null} /\ clean' \in BOOLEAN
    BY DEF GcStart, TypeOK
  <1>5. \A id \in Slots' : References(id)' \subseteq Slots'
    BY <1>1 DEF TypeOK
  <1>6. UNCHANGED <<statics, strings, classObj, monitors, lastInstance, regs>>
    BY DEF rootVars
  <1> QED
    BY <1>1, <1>2, <1>3, <1>4, <1>5, <1>6 DEF TypeOK, EntryOK

LEMMA InitTypeOK == Init => TypeOK
  BY HeapAssumption DEF Init, TypeOK, Slots, Id, Ref, Null, NoEntry, References

\* Every step keeps the types.
LEMMA NextTypeOK == TypeOK /\ [Next]_vars => TypeOK'
  <1> SUFFICES ASSUME TypeOK, [Next]_vars PROVE TypeOK'
    OBVIOUS
  <1> USE DEF Null
  <1>u. CASE UNCHANGED vars
    BY <1>u DEF vars, TypeOK, Slots, References
  <1>1. CASE HostGc
    <2>1. /\ EntryOK(entry') /\ GcStart
          /\ UNCHANGED <<heapVars, rootVars, lastInstance, regs>>
      BY <1>1 DEF HostGc, EntryOK, Ref
    <2> QED
      BY <2>1, GcStartTypeOK
  <1>2. ASSUME NEW id \in grey, GcMark(id) PROVE TypeOK'
    <2>1. /\ CollectRefs(id) \subseteq Slots
          /\ marks' \subseteq Slots /\ grey' \subseteq marks'
      BY <1>2, CollectedInSlots DEF GcMark, TypeOK
    <2> QED
      BY <1>2, <2>1 DEF GcMark, TypeOK, Slots, References, heapVars, rootVars
  <1>3. CASE GcMarked
    BY <1>3 DEF GcMarked, TypeOK, Slots, References, heapVars, rootVars
  <1>4. CASE GcSweep
    <2>1. /\ Len(objects) \in Nat /\ next \in Slots
          /\ next' = next + 1 /\ next' \in 1..(Len(objects) + 1)
      BY <1>4 DEF GcSweep, TypeOK, Slots
    <2>2. free' \in Seq(Slots)
      <3> HIDE DEF Slots
      <3>1. CASE next \in marks
        BY <1>4, <3>1 DEF GcSweep, TypeOK
      <3>2. CASE next \notin marks
        <4>1. free' = Append(free, next)
          BY <1>4, <3>2 DEF GcSweep, Reclaim
        <4>2. free \in Seq(Slots)
          BY DEF TypeOK
        <4> QED
          BY <2>1, <4>1, <4>2
      <3> QED
        BY <3>1, <3>2
    <2> QED
      BY <1>4, <2>1, <2>2 DEF GcSweep, TypeOK, Slots, References, rootVars
  <1>5. CASE GcDone
    <2>1. /\ monitors' \in [Id -> Nat]
          /\ \A id \in Id : monitors'[id] > 0 => id \in Slots
      BY <1>5 DEF GcDone, TypeOK
    <2>2. entry' \in {entry, NoEntry} /\ phase' \in {"idle", "enter"}
      BY <1>5 DEF GcDone
    <2>3. marks' = {} /\ next' = 1 /\ 1 \in 1..(Len(objects) + 1) /\ grey' = {}
      BY <1>5 DEF GcDone, TypeOK
    <2> QED
      BY <1>5, <2>1, <2>2, <2>3 DEF GcDone, TypeOK, Slots, References, heapVars, NoEntry, Ref
  <1>6. ASSUME NEW c \in AppClass, NEW b \in BOOLEAN, HostCall(c, b) PROVE TypeOK'
    <2>1. /\ EntryOK(entry') /\ GcStart
          /\ UNCHANGED <<heapVars, rootVars, lastInstance, regs>>
      BY <1>6 DEF HostCall, EntryOK
    <2> QED
      BY <2>1, GcStartTypeOK
  <1>8. CASE HostInvoke
    <2>1. regs' \in [Reg -> Slots \cup {Null}]
      BY <1>8 DEF HostInvoke, Enter, TypeOK
    <2>2. lastInstance \in Ref
      BY <1>8, HeapAssumption DEF TypeOK, Slots, Ref, Id
    <2> QED
      BY <1>8, <2>1, <2>2 DEF HostInvoke, Enter, TypeOK, Slots, References, heapVars, rootVars, gcVars
  <1>9. ASSUME NEW obj \in Id, HostInvokeOn(obj) PROVE TypeOK'
    <2>1. regs' \in [Reg -> Slots \cup {Null}]
      BY <1>9 DEF HostInvokeOn, Enter, TypeOK
    <2>2. obj \in Slots /\ obj \in Ref
      BY <1>9, HeapAssumption DEF HostInvokeOn, TypeOK, Slots, Ref, Id
    <2> QED
      BY <1>9, <2>1, <2>2 DEF HostInvokeOn, Enter, TypeOK, Slots, References, heapVars, rootVars, gcVars
  <1>7. CASE CallEnter
    <2>1. PICK arg \in {strings[l] : l \in Lit} \cup {held, Null} :
            \/ \E this \in {Null, lastInstance} :
                 Enter(this, arg) /\ UNCHANGED <<heapVars, lastInstance>>
            \/ /\ entry.op = "call"
               /\ \E id \in Id : /\ Alloc(id, Bare(entry.arg, Nothing))
                                 /\ lastInstance' = id
                                 /\ Enter(id, arg)
      BY <1>7 DEF CallEnter
    <2>2. arg \in Slots \cup {Null}
      BY DEF TypeOK
    <2>3. ASSUME NEW this \in {Null, lastInstance},
                 Enter(this, arg), UNCHANGED <<heapVars, lastInstance>>
          PROVE  TypeOK'
      <3>1. regs' \in [Reg -> Slots \cup {Null}] /\ phase' = "run"
        BY <2>2, <2>3 DEF Enter, TypeOK
      <3> QED
        BY <1>7, <2>3, <3>1 DEF CallEnter, TypeOK, Slots, References, heapVars, rootVars
    <2>4. ASSUME entry.op = "call", NEW id \in Id, Alloc(id, Bare(entry.arg, Nothing)),
                 lastInstance' = id, Enter(id, arg)
          PROVE  TypeOK'
      <3>1. /\ objects' \in Seq(JObject) /\ Len(objects') <= MaxSlots
            /\ free' \in Seq(Slots')
            /\ Slots \subseteq Slots' /\ id \in Slots'
            /\ \A x \in Slots' : References(x)' \subseteq Slots'
            /\ next \in 1..(Len(objects') + 1)
        BY <2>4, AllocKeepsType DEF TypeOK, Class
      <3>2. regs' \in [Reg -> Slots' \cup {Null}] /\ phase' = "run"
        BY <2>2, <2>4, <3>1 DEF Enter, TypeOK
      <3> QED
        BY <1>7, <2>4, <3>1, <3>2 DEF CallEnter, TypeOK, rootVars
    <2> QED
      BY <2>1, <2>3, <2>4
  <1>10. ASSUME NEW c \in AppClass, HostAlloc(c) PROVE TypeOK'
    <2>1. PICK id \in Id : Alloc(id, Bare(c, Nothing)) /\ held' = id
      BY <1>10 DEF HostAlloc
    <2>2. /\ objects' \in Seq(JObject) /\ Len(objects') <= MaxSlots
          /\ free' \in Seq(Slots')
          /\ Slots \subseteq Slots' /\ id \in Slots'
          /\ \A x \in Slots' : References(x)' \subseteq Slots'
          /\ next \in 1..(Len(objects') + 1)
      BY <2>1, AllocKeepsType DEF Class
    <2> QED
      BY <1>10, <2>1, <2>2 DEF HostAlloc, TypeOK, rootVars, gcVars
  <1>11. ASSUME NEW v \in Ref, Return(v) PROVE TypeOK'
    <2>1. v \in Slots \cup {Null}
      BY <1>11 DEF Return, TypeOK
    <2>2. lastInstance' \in Slots \cup {Null} /\ entry' = NoEntry
      BY <1>11, <2>1 DEF Return, TypeOK
    <2>3. NoEntry \in [op : {"none", "gc", "call", "callStatic", "invoke", "invoke_on"},
                       arg : AppClass \cup Ref]
      BY DEF NoEntry, Ref
    <2>4. regs' \in [Reg -> Slots \cup {Null}]
      BY <1>11 DEF Return
    <2> QED
      BY <1>11, <2>1, <2>2, <2>3, <2>4, SMTT(30)
         DEF Return, TypeOK, NoEntry, Slots, References, heapVars, rootVars, gcVars
  <1>12. ASSUME NEW v \in Ref, Fail(v) PROVE TypeOK'
    <2>1. v \in Slots \cup {Null}
      BY <1>12 DEF Fail, TypeOK
    <2>2. NoEntry \in [op : {"none", "gc", "call", "callStatic", "invoke", "invoke_on"},
                       arg : AppClass \cup Ref]
      BY DEF NoEntry, Ref
    <2>3. regs' \in [Reg -> Slots \cup {Null}]
      BY <1>12 DEF Fail
    <2> QED
      BY <1>12, <2>1, <2>2, <2>3
         DEF Fail, TypeOK, NoEntry, Slots, References, heapVars, rootVars, gcVars
  <1>13. ASSUME NEW r \in Reg, NEW c \in AppClass, GuestNew(r, c) PROVE TypeOK'
    <2>1. PICK id \in Id : Alloc(id, Bare(c, Nothing)) /\ regs' = [regs EXCEPT ![r] = id]
      BY <1>13 DEF GuestNew
    <2>2. /\ objects' \in Seq(JObject) /\ Len(objects') <= MaxSlots
          /\ free' \in Seq(Slots')
          /\ Slots \subseteq Slots' /\ id \in Slots'
          /\ \A x \in Slots' : References(x)' \subseteq Slots'
          /\ next \in 1..(Len(objects') + 1)
      BY <2>1, AllocKeepsType DEF Class
    <2> QED
      BY <1>13, <2>1, <2>2 DEF GuestNew, GuestFrame, TypeOK, rootVars, gcVars
  <1>14. ASSUME NEW r \in Reg, NEW l \in Lit, GuestString(r, l) PROVE TypeOK'
    <2>1. CASE strings[l] # Null
      <3>1. regs' \in [Reg -> Slots \cup {Null}]
        BY <1>14, <2>1 DEF GuestString, TypeOK
      <3>2. UNCHANGED <<heapVars, strings>>
        BY <1>14, <2>1 DEF GuestString
      <3> QED
        BY <1>14, <3>1, <3>2 DEF GuestString, GuestFrame, TypeOK, Slots, References, heapVars, gcVars
    <2>2. CASE strings[l] = Null
      <3>1. PICK id \in Id : /\ Alloc(id, Bare(StringClass, l))
                             /\ strings' = [strings EXCEPT ![l] = id]
                             /\ regs' = [regs EXCEPT ![r] = id]
        BY <1>14, <2>2 DEF GuestString
      <3>2. /\ objects' \in Seq(JObject) /\ Len(objects') <= MaxSlots
            /\ free' \in Seq(Slots')
            /\ Slots \subseteq Slots' /\ id \in Slots'
            /\ \A x \in Slots' : References(x)' \subseteq Slots'
            /\ next \in 1..(Len(objects') + 1)
        BY <3>1, AllocKeepsType DEF Class
      <3> QED
        BY <1>14, <3>1, <3>2 DEF GuestString, GuestFrame, TypeOK, gcVars
    <2> QED
      BY <2>1, <2>2
  <1>15. ASSUME NEW r \in Reg, NEW c \in AppClass, GuestClass(r, c) PROVE TypeOK'
    <2>1. CASE classObj[c] # Null
      <3>1. regs' \in [Reg -> Slots \cup {Null}]
        BY <1>15, <2>1 DEF GuestClass, TypeOK
      <3>2. UNCHANGED <<heapVars, classObj>>
        BY <1>15, <2>1 DEF GuestClass
      <3> QED
        BY <1>15, <3>1, <3>2 DEF GuestClass, GuestFrame, TypeOK, Slots, References, heapVars, gcVars
    <2>2. CASE classObj[c] = Null
      <3>1. PICK id \in Id : /\ Alloc(id, Bare(ClassClass, c))
                             /\ classObj' = [classObj EXCEPT ![c] = id]
                             /\ regs' = [regs EXCEPT ![r] = id]
        BY <1>15, <2>2 DEF GuestClass
      <3>2. /\ objects' \in Seq(JObject) /\ Len(objects') <= MaxSlots
            /\ free' \in Seq(Slots')
            /\ Slots \subseteq Slots' /\ id \in Slots'
            /\ \A x \in Slots' : References(x)' \subseteq Slots'
            /\ next \in 1..(Len(objects') + 1)
        BY <3>1, AllocKeepsType DEF Class
      <3> QED
        BY <1>15, <3>1, <3>2 DEF GuestClass, GuestFrame, TypeOK, gcVars
    <2> QED
      BY <2>1, <2>2
  <1>16. ASSUME NEW r \in Reg, NEW s \in Reg, NEW f \in Field, GuestGet(r, s, f)
         PROVE  TypeOK'
    <2>1. regs' \in [Reg -> Slots \cup {Null}]
      BY <1>16, RefsInSlots DEF GuestGet, TypeOK
    <2> QED
      BY <1>16, <2>1 DEF GuestGet, GuestFrame, TypeOK, Slots, References, heapVars, rootVars, gcVars
  <1>17. ASSUME NEW r \in Reg, NEW s \in Reg, NEW f \in Field, GuestPut(r, s, f)
         PROVE  TypeOK'
    <2>1. objects' = [objects EXCEPT ![regs[s]].fields[f] = regs[r]]
      BY <1>17 DEF GuestPut
    <2>2. /\ regs[s] \in Slots /\ regs[r] \in Slots \cup {Null} /\ regs[r] \in Ref
          /\ objects \in Seq(JObject)
      BY <1>17, HeapAssumption DEF GuestPut, TypeOK, Slots, Ref, Id
    <2>3. /\ Len(objects') = Len(objects)
          /\ objects' \in Seq(JObject)
          /\ \A x \in Slots, g \in Field :
               objects'[x].fields[g] \in {objects[x].fields[g], regs[r]}
      <3> DEFINE x0 == regs[s]
                 o0 == [objects[x0] EXCEPT !.fields[f] = regs[r]]
      <3>1. objects[x0] \in JObject
        BY <2>2 DEF Slots
      <3>2. /\ o0 \in JObject
            /\ \A g \in Field : o0.fields[g] \in {objects[x0].fields[g], regs[r]}
        BY <2>2, <3>1 DEF JObject
      <3>3. objects' = [objects EXCEPT ![x0] = o0]
        BY <2>1
      <3> HIDE DEF o0
      <3> QED
        BY <2>2, <3>2, <3>3 DEF Slots
    <2>4. Slots' = Slots
      BY <2>3 DEF Slots
    <2>5. \A x \in Slots' : References(x)' \subseteq Slots'
      BY <2>2, <2>3, <2>4, RefsInSlots DEF References
    <2> QED
      BY <1>17, <2>3, <2>4, <2>5 DEF GuestPut, GuestFrame, TypeOK, rootVars, gcVars
  <1>18. ASSUME NEW r \in Reg, NEW c \in AppClass, GuestSGet(r, c) PROVE TypeOK'
    BY <1>18 DEF GuestSGet, GuestFrame, TypeOK, Slots, References, heapVars, rootVars, gcVars
  <1>19. ASSUME NEW r \in Reg, NEW c \in AppClass, GuestSPut(r, c) PROVE TypeOK'
    BY <1>19 DEF GuestSPut, GuestFrame, TypeOK, Slots, References, heapVars, gcVars
  <1>20. ASSUME NEW r \in Reg, GuestMonitorEnter(r) \/ GuestMonitorExit(r) PROVE TypeOK'
    <2>1. regs[r] \in Slots /\ regs[r] \in Id /\ monitors \in [Id -> Nat]
      BY <1>20, HeapAssumption DEF GuestMonitorEnter, GuestMonitorExit, TypeOK, Id, Slots
    <2>2. PICK n \in Nat : monitors' = [monitors EXCEPT ![regs[r]] = n]
      <3>1. CASE GuestMonitorEnter(r)
        <4>1. monitors[regs[r]] + 1 \in Nat
          BY <2>1
        <4> QED
          BY <3>1, <4>1 DEF GuestMonitorEnter
      <3>2. CASE GuestMonitorExit(r)
        <4>1. (IF monitors[regs[r]] = 0 THEN 0 ELSE monitors[regs[r]] - 1) \in Nat
          BY <2>1
        <4> QED
          BY <3>2, <4>1 DEF GuestMonitorExit
      <3> QED
        BY <1>20, <3>1, <3>2
    <2>3. /\ monitors' \in [Id -> Nat]
          /\ \A id \in Id : monitors'[id] > 0 => id \in Slots
      BY <2>1, <2>2 DEF TypeOK
    <2>4. UNCHANGED <<objects, free, statics, strings, classObj, regs, lastInstance,
                      held, phase, entry, marks, grey, next, clean>>
      BY <1>20 DEF GuestMonitorEnter, GuestMonitorExit, GuestFrame, heapVars, gcVars
    <2> QED
      BY <2>3, <2>4 DEF TypeOK, Slots, References
  <1>21. CASE GcStep
    BY <1>2, <1>3, <1>4, <1>5, <1>21 DEF GcStep
  <1>22. CASE HostStep
    BY <1>1, <1>6, <1>7, <1>8, <1>9, <1>10, <1>11, <1>12, <1>22 DEF HostStep
  <1>23. CASE GuestStep
    BY <1>13, <1>14, <1>15, <1>16, <1>17, <1>18, <1>19, <1>20, <1>23 DEF GuestStep
  <1> QED
    BY <1>u, <1>21, <1>22, <1>23 DEF Next

\* Type correctness of the heap and its entry points: every id the program
\* holds names an existing arena slot, so indexing the arena never fails.
THEOREM TypeCorrect == Spec => []TypeOK
  BY InitTypeOK, NextTypeOK, PTL DEF Spec

-----------------------------------------------------------------------------
(* The marking phase *)

LEMMA NextMarkOK == TypeOK /\ MarkOK /\ QuietOK /\ [Next]_vars => MarkOK' /\ QuietOK'
  <1> SUFFICES ASSUME TypeOK, MarkOK, QuietOK, [Next]_vars PROVE MarkOK' /\ QuietOK'
    OBVIOUS
  <1> USE DEF Null
  <1>u. CASE UNCHANGED vars
    <2>1. Roots' = Roots /\ Slots' = Slots /\ \A x : CollectRefs(x)' = CollectRefs(x)
      BY <1>u DEF vars, Roots, Slots, CollectRefs
    <2>2. \A S : Closed(S)' = Closed(S)
      BY <1>u DEF vars, Closed, CollectRefs
    <2> QED
      BY <1>u, <2>1, <2>2 DEF vars, MarkOK, QuietOK
  <1>1. ASSUME GcStart, UNCHANGED <<heapVars, rootVars, lastInstance, regs>>,
               phase = "idle", entry'.op # "invoke_on"
        PROVE  MarkOK' /\ QuietOK'
    BY <1>1 DEF GcStart, MarkOK, QuietOK, Roots, Slots, CollectRefs, Closed, heapVars, rootVars
  <1>2. ASSUME NEW id \in grey, GcMark(id) PROVE MarkOK' /\ QuietOK'
    <2>1. UNCHANGED <<objects, free, statics, strings, classObj, monitors, lastInstance,
                      held, regs, phase, entry, next, clean>>
      BY <1>2 DEF GcMark, heapVars, rootVars
    <2>2. Roots' = Roots /\ Slots' = Slots /\ \A x \in Slots : CollectRefs(x)' = CollectRefs(x)
      BY <2>1 DEF Roots, Slots, CollectRefs
    <2>3. \A S : Closed(S)' = Closed(S)
      BY <2>1 DEF Closed, CollectRefs
    <2>4. /\ marks' = marks \cup CollectRefs(id)
          /\ grey' = (grey \ {id}) \cup (CollectRefs(id) \ marks)
          /\ phase = "mark"
      BY <1>2 DEF GcMark
    <2>5. marks \subseteq Slots /\ grey \subseteq marks /\ CollectRefs(id) \subseteq Slots
      BY CollectedInSlots DEF TypeOK
    <2>6. \A x \in marks' \ grey' : CollectRefs(x)' \subseteq marks'
      BY <2>2, <2>4, <2>5 DEF MarkOK
    <2>7. \A S \in SUBSET Slots : Roots \subseteq S /\ Closed(S) => marks' \subseteq S
      BY <2>4, <2>5 DEF MarkOK, Closed
    <2> QED
      BY <2>1, <2>2, <2>3, <2>4, <2>6, <2>7 DEF MarkOK, QuietOK
  <1>3. CASE GcMarked
    BY <1>3 DEF GcMarked, MarkOK, QuietOK, Roots, Slots, CollectRefs, Closed, heapVars, rootVars
  <1>4. CASE GcSweep
    BY <1>4 DEF GcSweep, MarkOK, QuietOK, Roots, Slots, CollectRefs, Closed, rootVars
  <1>5. CASE GcDone
    BY <1>5 DEF GcDone, MarkOK, QuietOK
  <1>6. CASE GcStep
    BY <1>2, <1>3, <1>4, <1>5, <1>6 DEF GcStep
  <1>7. CASE HostGc
    BY <1>1, <1>7 DEF HostGc
  <1>8. ASSUME NEW c \in AppClass, NEW b \in BOOLEAN, HostCall(c, b)
        PROVE  MarkOK' /\ QuietOK'
    <2>1. entry'.op # "invoke_on"
      BY <1>8 DEF HostCall
    <2> QED
      BY <1>1, <1>8, <2>1 DEF HostCall
  <1>9. ASSUME NEW c \in AppClass, HostAlloc(c) PROVE MarkOK' /\ QuietOK'
    BY <1>9 DEF HostAlloc, MarkOK, QuietOK
  <1>10. CASE CallEnter
    BY <1>10 DEF CallEnter, Enter, MarkOK, QuietOK
  <1>11. CASE HostInvoke
    BY <1>11 DEF HostInvoke, Enter, MarkOK, QuietOK
  <1>12. ASSUME NEW obj \in Id, HostInvokeOn(obj) PROVE MarkOK' /\ QuietOK'
    BY <1>12 DEF HostInvokeOn, Enter, MarkOK, QuietOK
  <1>13. ASSUME NEW v \in Ref, Return(v) \/ Fail(v) PROVE MarkOK' /\ QuietOK'
    BY <1>13 DEF Return, Fail, MarkOK, QuietOK
  <1>14. CASE HostStep
    BY <1>7, <1>8, <1>9, <1>10, <1>11, <1>12, <1>13, <1>14 DEF HostStep
  <1>15. CASE GuestStep
    <2>1. phase = "run" /\ phase' = "run"
      BY <1>15 DEF GuestStep, GuestNew, GuestString, GuestClass, GuestGet, GuestPut, GuestSGet,
                   GuestSPut, GuestMonitorEnter, GuestMonitorExit, GuestFrame
    <2> QED
      BY <2>1 DEF MarkOK, QuietOK
  <1> QED
    BY <1>u, <1>6, <1>14, <1>15 DEF Next

LEMMA InitMarkOK == Init => MarkOK /\ QuietOK
  BY DEF Init, MarkOK, QuietOK

\* Whenever Vm::gc starts to sweep, the mark bits are exactly the objects
\* reachable from its roots: the work list loop computes reachability on every
\* object graph, cyclic ones and slots aliased by a double reclaim included.
THEOREM MarkingExact == Spec => []MarksAreReachable
  <1>1. TypeOK /\ MarkOK => MarksAreReachable
    BY DEF TypeOK, MarkOK, MarksAreReachable, Reachable, Closed
  <1> QED
    BY <1>1, InitTypeOK, NextTypeOK, InitMarkOK, NextMarkOK, PTL DEF Spec

\* A collection never drops an entered monitor: its object is a root, so it is
\* marked and monitors.retain keeps its entry.
THEOREM MonitorsKept == Spec => GcKeepsMonitors
  <1>1. TypeOK /\ MarkOK /\ [Next]_vars => [phase = "sweep" => monitors' = monitors]_vars
    <2> SUFFICES ASSUME TypeOK, MarkOK, Next, phase = "sweep" PROVE monitors' = monitors
      OBVIOUS
    <2>1. CASE GcSweep
      BY <2>1 DEF GcSweep, rootVars
    <2>2. CASE GcDone
      <3>1. \A id \in Id : monitors[id] \in Nat /\ (monitors[id] > 0 => id \in marks)
        BY DEF TypeOK, MarkOK, Roots, Slots, Null
      <3>2. \A id \in Id : monitors'[id] = monitors[id]
        BY <2>2, <3>1 DEF GcDone
      <3>3. monitors' \in [Id -> Nat] /\ monitors \in [Id -> Nat]
        BY <2>2, <3>1 DEF GcDone, TypeOK
      <3> QED
        BY <3>2, <3>3
    <2>3. GcSweep \/ GcDone
      BY DEF Next, GcStep, GcMark, GcMarked, HostStep, GuestStep, HostGc, CallEnter, HostInvoke,
             HostCall, HostInvokeOn, HostAlloc, Return, Fail, GuestNew, GuestString, GuestClass,
             GuestGet, GuestPut, GuestSGet, GuestSPut, GuestMonitorEnter, GuestMonitorExit
    <2> QED
      BY <2>1, <2>2, <2>3
  <1> QED
    BY <1>1, InitTypeOK, NextTypeOK, InitMarkOK, NextMarkOK, PTL DEF Spec, GcKeepsMonitors

\* Each step of a collection marks a slot that was not marked, or pops the work
\* list without pushing to it, or moves on: to the sweep, to the next slot, or
\* out of the collection.
GcAdvances ==
    /\ phase = "mark" =>
         \/ phase' = "sweep" /\ next' = 1
         \/ /\ phase' = "mark" /\ objects' = objects /\ marks' \subseteq Slots
            /\ \/ marks \subseteq marks' /\ marks' # marks
               \/ marks' = marks /\ grey' \subseteq grey /\ grey' # grey
    /\ phase = "sweep" =>
         \/ phase' \notin {"mark", "sweep"}
         \/ phase' = "sweep" /\ objects' = objects /\ next <= Len(objects) /\ next' = next + 1

\* Nothing but Vm::gc runs until the collection is over, and each of its steps
\* comes nearer to the end, however the objects refer to one another: the part of
\* GcTerminates that needs no fairness.
THEOREM CollectionsAdvance == Spec => [][GcAdvances]_vars
  <1>1. TypeOK /\ MarkOK /\ [Next]_vars => [GcAdvances]_vars
    <2> SUFFICES ASSUME TypeOK, MarkOK, Next, phase \in {"mark", "sweep"} PROVE GcAdvances
      BY DEF GcAdvances
    <2>1. ASSUME NEW id \in grey, GcMark(id) PROVE GcAdvances
      <3>1. /\ phase = "mark" /\ phase' = "mark" /\ objects' = objects
            /\ marks' = marks \cup CollectRefs(id)
            /\ grey' = (grey \ {id}) \cup (CollectRefs(id) \ marks)
        BY <2>1 DEF GcMark, heapVars
      <3>2. marks' \subseteq Slots
        BY <3>1, CollectedInSlots DEF TypeOK
      <3>3. CASE CollectRefs(id) \subseteq marks
        <4>1. marks' = marks /\ grey' = grey \ {id}
          BY <3>1, <3>3
        <4> QED
          BY <3>1, <3>2, <4>1 DEF GcAdvances
      <3>4. CASE ~(CollectRefs(id) \subseteq marks)
        <4>1. marks \subseteq marks' /\ marks' # marks
          BY <3>1, <3>4
        <4> QED
          BY <3>1, <3>2, <4>1 DEF GcAdvances
      <3> QED
        BY <3>3, <3>4
    <2>2. CASE GcMarked
      BY <2>2 DEF GcMarked, GcAdvances, MarkOK
    <2>3. CASE GcSweep
      BY <2>3 DEF GcSweep, GcAdvances
    <2>4. CASE GcDone
      BY <2>4 DEF GcDone, GcAdvances
    <2>5. (\E id \in grey : GcMark(id)) \/ GcMarked \/ GcSweep \/ GcDone
      BY DEF Next, GcStep, HostStep, GuestStep, HostGc, CallEnter, HostInvoke,
             HostCall, HostInvokeOn, HostAlloc, Return, Fail, GuestNew, GuestString, GuestClass,
             GuestGet, GuestPut, GuestSGet, GuestSPut, GuestMonitorEnter, GuestMonitorExit
    <2> QED
      BY <2>1, <2>2, <2>3, <2>4, <2>5
  <1> QED
    BY <1>1, InitTypeOK, NextTypeOK, InitMarkOK, NextMarkOK, PTL DEF Spec

-----------------------------------------------------------------------------
(* The free list in clean histories *)

LEMMA NullNotFree ==
    ASSUME TypeOK
    PROVE  Null \notin FreeSlots /\ FreeSlots \subseteq Slots
  BY DEF TypeOK, FreeSlots, Slots, Null

\* The invariant that carries the proof, less the parts only gc can disturb.
HeapOK == FreeDistinct /\ NamedInUse /\ InUseClosed

\* Allocation in a sound heap: the slot handed out was not nameable before, and
\* everything else stays as it was.
LEMMA AllocKeepsHeap ==
    ASSUME TypeOK, HeapOK, NEW id \in Id, NEW c \in Class,
           NEW nat \in Lit \cup AppClass \cup {Nothing}, Alloc(id, Bare(c, nat))
    PROVE  /\ FreeDistinct' /\ InUseClosed'
           /\ id \notin FreeSlots'
           /\ FreeSlots' \subseteq FreeSlots
           /\ Slots' = Slots \cup {id}
           /\ objects'[id] = Bare(c, nat)
           /\ \A x \in Slots : x \notin FreeSlots => x # id /\ objects'[x] = objects[x]
  <1>1. ArenaOK /\ FreeDistinct /\ Bare(c, nat) \in JObject
    BY BareFacts DEF TypeOK, ArenaOK, HeapOK
  <1>2. /\ Slots' = Slots \cup {id}
        /\ objects'[id] = Bare(c, nat)
        /\ \A x \in Slots : x # id => objects'[x] = objects[x]
        /\ id \in Slots => id \in FreeSlots
        /\ FreeSlots' \subseteq FreeSlots /\ FreeSlots \subseteq FreeSlots' \cup {id}
        /\ FreeDistinct' /\ id \notin FreeSlots'
    BY <1>1, AllocFacts
  <1>3. References(id)' = {}
    BY <1>2, BareFacts DEF References
  <1>4. ASSUME NEW x \in Slots', x # id
        PROVE  x \in FreeSlots' \/ References(x)' \cap FreeSlots' = {}
    <2>1. x \in Slots /\ References(x)' = References(x)
      BY <1>2, <1>4 DEF References
    <2> QED
      BY <1>2, <1>4, <2>1 DEF HeapOK, InUseClosed
  <1>5. InUseClosed'
    BY <1>3, <1>4 DEF InUseClosed
  <1> QED
    BY <1>2, <1>5

\* The parts of the invariant about clean histories.
SafeOK == CleanOK /\ InternedIdentity

\* Outside a collection the clean invariant is HeapOK.
LEMMA CleanIsHeapOK ==
    ASSUME clean, phase \notin {"mark", "sweep"}
    PROVE  CleanOK <=> HeapOK
  BY DEF CleanOK, HeapOK

\* A step that allocates outside a collection and stores the new id, or an id
\* already in use, wherever it likes.
AllocStep(id, k, nat) ==
    /\ Alloc(id, Bare(k, nat))
    /\ phase \notin {"mark", "sweep"} /\ phase' \notin {"mark", "sweep"}
    /\ monitors' = monitors /\ entry' = entry
    /\ lastInstance' = lastInstance \/ lastInstance' = id
    /\ held' = held \/ held' = id
    /\ \A r \in Reg : \/ regs'[r] = Null \/ regs'[r] = id \/ regs'[r] = regs[r]
                       \/ regs'[r] = held
                       \/ \E l \in Lit : regs'[r] = strings[l]
    /\ \A c \in AppClass : statics'[c] = statics[c] /\ (classObj'[c] = classObj[c] \/ classObj'[c] = id)
    /\ \A l \in Lit : \/ strings'[l] = strings[l]
                       \/ (strings'[l] = id /\ k = StringClass /\ nat = l)

LEMMA NextSafeOK ==
    TypeOK /\ MarkOK /\ QuietOK /\ SafeOK /\ [Next]_vars => SafeOK'
  <1> SUFFICES ASSUME TypeOK, MarkOK, QuietOK, SafeOK, [Next]_vars, clean' PROVE SafeOK'
    BY DEF SafeOK, CleanOK, InternedIdentity
  <1> USE DEF Null
  <1>0. /\ Null \notin FreeSlots /\ FreeSlots \subseteq Slots
        /\ CleanOK /\ InternedIdentity
    BY NullNotFree DEF SafeOK
  <1>c. clean
    BY DEF Next, vars, GcStep, GcMark, GcMarked, GcSweep, GcDone, HostStep, GuestStep, HostGc,
           GcStart, CallEnter, HostInvoke, HostCall, HostInvokeOn, HostAlloc, Return, Fail,
           GuestNew, GuestString, GuestClass, GuestGet, GuestPut, GuestSGet, GuestSPut,
           GuestMonitorEnter, GuestMonitorExit, GuestFrame, gcVars
  <1>u. CASE UNCHANGED vars
    <2>1. FreeSlots' = FreeSlots /\ Slots' = Slots /\ \A x : References(x)' = References(x)
      BY <1>u DEF vars, FreeSlots, Slots, References
    <2>2. /\ FreeDistinct' = FreeDistinct /\ NamedInUse' = NamedInUse
          /\ InUseClosed' = InUseClosed /\ InternedIdentity' = InternedIdentity
      BY <1>u, <2>1 DEF vars, InternedIdentity, FreeDistinct, NamedInUse, InUseClosed
    <2> QED
      BY <1>0, <1>u, <2>1, <2>2 DEF vars, SafeOK, CleanOK
  <1>1. ASSUME GcStart, UNCHANGED <<heapVars, rootVars, lastInstance, regs>>, phase = "idle"
        PROVE  SafeOK'
    <2>0. free = <<>>
      BY <1>1, Zenon DEF GcStart
    <2>1. free = <<>> /\ free' = <<>> /\ FreeSlots' = {} /\ phase' = "mark"
      BY <1>1, <2>0 DEF GcStart, heapVars, FreeSlots
    <2>2. InternedIdentity'
      BY <1>0, <1>1, <1>c DEF InternedIdentity, heapVars, rootVars
    <2> QED
      BY <2>1, <2>2 DEF SafeOK, CleanOK, FreeDistinct, NamedInUse, InUseClosed
  <1>2. ASSUME NEW id \in grey, GcMark(id) PROVE SafeOK'
    <2>1. free = <<>> /\ free' = <<>> /\ FreeSlots' = {} /\ phase' = "mark"
      BY <1>0, <1>2, <1>c DEF GcMark, heapVars, FreeSlots, CleanOK
    <2>2. InternedIdentity'
      BY <1>0, <1>2, <1>c DEF GcMark, InternedIdentity, heapVars, rootVars
    <2> QED
      BY <2>1, <2>2 DEF SafeOK, CleanOK, FreeDistinct, NamedInUse, InUseClosed
  <1>3. CASE GcMarked
    <2>1. free = <<>> /\ free' = <<>> /\ FreeSlots' = {} /\ phase' = "sweep" /\ next' = 1
      BY <1>0, <1>3, <1>c DEF GcMarked, heapVars, FreeSlots, CleanOK, MarkOK
    <2>2. InternedIdentity'
      BY <1>0, <1>3, <1>c DEF GcMarked, InternedIdentity, heapVars, rootVars
    <2>3. /\ \A c \in AppClass : classObj'[c] \in marks' \cup {Null}
          /\ held' \in marks' \cup {Null}
          /\ \A id \in marks' : References(id)' \subseteq marks'
      <3>1. /\ Overlooked \subseteq marks /\ grey = {}
            /\ UNCHANGED <<objects, classObj, held, marks>>
        BY <1>3 DEF GcMarked, heapVars, rootVars
      <3>2. /\ \A c \in AppClass : classObj[c] \in marks \cup {Null}
            /\ held \in marks \cup {Null}
            /\ \A id \in marks, f \in Unreported : objects[id].fields[f] \in marks \cup {Null}
        BY <3>1 DEF Overlooked
      <3>3. \A id \in marks : CollectRefs(id) \subseteq marks
        BY <1>3, <3>1 DEF GcMarked, MarkOK
      <3>4. \A id \in marks : References(id) \subseteq marks
        BY <3>2, <3>3 DEF References, CollectRefs
      <3> QED
        BY <3>1, <3>2, <3>4 DEF References
    <2>4. {id \in Slots' : id < 1 /\ id \notin marks'} = {}
      BY DEF Slots
    <2> QED
      BY <2>1, <2>2, <2>3, <2>4 DEF SafeOK, CleanOK, FreeDistinct, NamedInUse, InUseClosed
  <1>4. CASE GcSweep
    <2>1. /\ phase = "sweep" /\ phase' = "sweep" /\ next' = next + 1
          /\ UNCHANGED <<objects, statics, strings, classObj, monitors, lastInstance, held,
                         regs, entry, marks, grey>>
          /\ next \in Slots
      BY <1>4 DEF GcSweep, rootVars, TypeOK, Slots
    <2>2. /\ FreeDistinct /\ FreeSlots = {id \in Slots : id < next /\ id \notin marks}
          /\ \A c \in AppClass : classObj[c] \in marks \cup {Null}
          /\ held \in marks \cup {Null}
          /\ \A id \in marks : References(id) \subseteq marks
      BY <1>0, <1>c, <2>1 DEF CleanOK
    <2>3. FreeDistinct' /\ FreeSlots' = FreeSlots \cup ({next} \ marks)
      <3>1. CASE next \in marks
        BY <1>4, <2>2, <3>1 DEF GcSweep, FreeDistinct, FreeSlots
      <3>2. CASE next \notin marks
        <4>1. /\ free \in Seq(Slots) /\ free' = Append(free, next)
              /\ Len(free) \in Nat
          BY <1>4, <3>2 DEF GcSweep, Reclaim, TypeOK
        <4>2. next \notin FreeSlots
          BY <2>1, <2>2 DEF Slots
        <4>3. /\ Len(free') = Len(free) + 1 /\ free'[Len(free) + 1] = next
              /\ \A i \in 1..Len(free) : free'[i] = free[i]
          <5> HIDE DEF Slots
          <5> QED
            BY <4>1, <2>1
        <4>4. \A i \in 1..Len(free') : i \in 1..Len(free) \/ i = Len(free) + 1
          BY <4>1, <4>3
        <4>5. FreeSlots' = FreeSlots \cup {next}
          BY <4>1, <4>3, <4>4 DEF FreeSlots
        <4>6. FreeDistinct'
          BY <2>2, <4>1, <4>2, <4>3, <4>4 DEF FreeDistinct, FreeSlots
        <4> QED
          BY <3>2, <4>5, <4>6
      <3> QED
        BY <3>1, <3>2
    <2>4. FreeSlots' = {id \in Slots' : id < next' /\ id \notin marks'}
      BY <2>1, <2>2, <2>3 DEF Slots
    <2>5. NamedInUse'
      <3>1. Roots \subseteq marks /\ (\A r \in Reg : regs[r] = Null)
            /\ entry.op # "invoke_on"
        BY <2>1 DEF MarkOK, QuietOK
      <3>2. FreeSlots' \cap marks = {} /\ Null \notin FreeSlots'
        BY <1>0, <2>1, <2>2, <2>3 DEF Slots
      <3>3. /\ lastInstance \in marks \cup {Null}
            /\ \A c \in AppClass : statics[c] \in marks \cup {Null}
            /\ \A l \in Lit : strings[l] \in marks \cup {Null}
            /\ \A id \in Slots : monitors[id] > 0 => id \in marks
        BY <3>1 DEF Roots, Slots
      <3>4. Slots' = Slots
        BY <2>1 DEF Slots
      <3> QED
        BY <2>1, <2>2, <3>1, <3>2, <3>3, <3>4 DEF NamedInUse
    <2>6. InternedIdentity'
      BY <1>0, <1>c, <2>1 DEF InternedIdentity
    <2>7. \A id \in marks' : References(id)' \subseteq marks'
      BY <2>1, <2>2 DEF References
    <2> QED
      BY <2>1, <2>2, <2>3, <2>4, <2>5, <2>6, <2>7 DEF SafeOK, CleanOK
  <1>5. CASE GcDone
    <2>1. /\ phase = "sweep" /\ phase' \in {"idle", "enter"} /\ next > Len(objects)
          /\ UNCHANGED <<objects, free, statics, strings, classObj, lastInstance, held, regs>>
          /\ \A id \in Id : monitors'[id] > 0 => id \in marks /\ monitors[id] > 0
          /\ entry' \in {entry, NoEntry}
      BY <1>5 DEF GcDone, heapVars, TypeOK
    <2>2. /\ FreeDistinct /\ NamedInUse
          /\ FreeSlots = {id \in Slots : id < next /\ id \notin marks}
      BY <1>0, <1>c, <2>1 DEF CleanOK
    <2>3. FreeSlots' = FreeSlots /\ Slots' = Slots
          /\ \A x : References(x)' = References(x)
      BY <2>1 DEF FreeSlots, Slots, References
    <2>4. FreeSlots = Slots \ marks
      BY <2>1, <2>2 DEF Slots, TypeOK
    <2>5. \A id \in marks : References(id) \subseteq marks
      BY <1>0, <1>c, <2>1 DEF CleanOK
    <2>6. InUseClosed'
      BY <2>3, <2>4, <2>5 DEF InUseClosed
    <2>7. NamedInUse'
      <3>1. \A id \in Slots : monitors'[id] > 0 => id \notin FreeSlots
        BY <2>1, <2>4, HeapAssumption DEF TypeOK, Slots, Id
      <3> QED
        BY <2>1, <2>2, <2>3, <3>1 DEF NamedInUse, NoEntry
    <2>8. FreeDistinct' /\ InternedIdentity'
      BY <1>0, <1>c, <2>1, <2>2 DEF FreeDistinct, InternedIdentity
    <2> QED
      BY <2>1, <2>6, <2>7, <2>8 DEF SafeOK, CleanOK
  <1>6. CASE GcStep
    BY <1>2, <1>3, <1>4, <1>5, <1>6 DEF GcStep
  <1>7. CASE HostGc
    BY <1>1, <1>7 DEF HostGc
  <1>8. ASSUME NEW c \in AppClass, NEW b \in BOOLEAN, HostCall(c, b) PROVE SafeOK'
    BY <1>1, <1>8 DEF HostCall
  \* From here on no collection is under way.
  <1>9. ASSUME phase \notin {"mark", "sweep"}
        PROVE  /\ HeapOK
               /\ \A l \in Lit : strings[l] # Null =>
                     /\ objects[strings[l]].class = StringClass
                     /\ objects[strings[l]].native = l
    BY <1>0, <1>9, <1>c, CleanIsHeapOK DEF InternedIdentity
  <1>10. ASSUME FreeDistinct', NamedInUse', InUseClosed', phase' \notin {"mark", "sweep"},
                \A l \in Lit : strings'[l] # Null =>
                     /\ objects'[strings'[l]].class = StringClass
                     /\ objects'[strings'[l]].native = l
         PROVE  SafeOK'
    BY <1>10 DEF SafeOK, CleanOK, InternedIdentity
  \* Steps that leave the arena alone.
  <1>11. ASSUME UNCHANGED <<objects, free, strings>>, NamedInUse',
                phase \notin {"mark", "sweep"}, phase' \notin {"mark", "sweep"}
         PROVE  SafeOK'
    <2>1. FreeSlots' = FreeSlots /\ Slots' = Slots /\ \A x : References(x)' = References(x)
      BY <1>11 DEF FreeSlots, Slots, References
    <2>2. FreeDistinct' /\ InUseClosed'
      BY <1>9, <1>11, <2>1 DEF HeapOK, FreeDistinct, InUseClosed
    <2> QED
      BY <1>9, <1>10, <1>11, <2>2
  \* Steps that allocate, whatever they do with the new object.
  <1>12. ASSUME NEW id \in Id, NEW k \in Class, NEW nat \in Lit \cup AppClass \cup {Nothing},
                AllocStep(id, k, nat)
         PROVE  SafeOK'
    <2> USE DEF AllocStep
    <2>1. HeapOK
      BY <1>9, <1>12
    <2>2. /\ FreeDistinct' /\ InUseClosed'
          /\ id \notin FreeSlots' /\ FreeSlots' \subseteq FreeSlots
          /\ Slots' = Slots \cup {id}
          /\ objects'[id] = Bare(k, nat)
          /\ \A x \in Slots : x \notin FreeSlots => x # id /\ objects'[x] = objects[x]
      BY <1>12, <2>1, AllocKeepsHeap
    <2>3. NamedInUse /\ Null \notin FreeSlots'
      BY <1>0, <2>1, <2>2 DEF HeapOK
    <2>4. NamedInUse'
      <3>1. \A x \in Slots' : monitors'[x] > 0 => x \notin FreeSlots'
        BY <1>12, <2>2, <2>3 DEF NamedInUse
      <3>2. \A r \in Reg : regs'[r] \notin FreeSlots'
        BY <1>12, <2>2, <2>3 DEF NamedInUse
      <3>3. \A c \in AppClass : statics'[c] \notin FreeSlots' /\ classObj'[c] \notin FreeSlots'
        BY <1>12, <2>2, <2>3 DEF NamedInUse
      <3>4. \A l \in Lit : strings'[l] \notin FreeSlots'
        BY <1>12, <2>2, <2>3 DEF NamedInUse
      <3>5. /\ lastInstance' \notin FreeSlots' /\ held' \notin FreeSlots'
            /\ entry'.op = "invoke_on" => entry'.arg \notin FreeSlots'
        BY <1>12, <2>2, <2>3 DEF NamedInUse
      <3> QED
        BY <3>1, <3>2, <3>3, <3>4, <3>5 DEF NamedInUse
    <2>5. ASSUME NEW l \in Lit, strings'[l] # Null
          PROVE  objects'[strings'[l]].class = StringClass /\ objects'[strings'[l]].native = l
      <3>1. CASE strings'[l] = strings[l]
        <4>1. strings[l] \in Slots /\ strings[l] \notin FreeSlots
          BY <2>3, <2>5, <3>1 DEF TypeOK, NamedInUse
        <4> QED
          BY <1>9, <1>12, <2>2, <2>5, <3>1, <4>1
      <3>2. CASE strings'[l] = id /\ k = StringClass /\ nat = l
        BY <2>2, <3>2, BareFacts
      <3> QED
        BY <1>12, <3>1, <3>2
    <2> QED
      BY <1>10, <1>12, <2>2, <2>4, <2>5
  <1>13. ASSUME NEW this, NEW arg, Enter(this, arg)
         PROVE  phase' = "run" /\ \A r \in Reg : regs'[r] \in {this, arg, Null}
    BY <1>13 DEF Enter
  <1>14. CASE CallEnter
    <2>0. /\ phase = "enter"
          /\ UNCHANGED <<statics, strings, classObj, monitors, held, entry>>
      BY <1>14 DEF CallEnter, rootVars
    <2>1. PICK arg \in {strings[l] : l \in Lit} \cup {held, Null} :
            \/ \E this \in {Null, lastInstance} :
                 Enter(this, arg) /\ UNCHANGED <<heapVars, lastInstance>>
            \/ /\ entry.op = "call"
               /\ \E id \in Id : /\ Alloc(id, Bare(entry.arg, Nothing))
                                 /\ lastInstance' = id
                                 /\ Enter(id, arg)
      BY <1>14 DEF CallEnter
    <2>2. ASSUME NEW this \in {Null, lastInstance}, Enter(this, arg),
                 UNCHANGED <<heapVars, lastInstance>>
          PROVE  SafeOK'
      <3>1. NamedInUse
        BY <1>9, <2>0 DEF HeapOK
      <3>2. FreeSlots' = FreeSlots /\ Slots' = Slots
        BY <2>2 DEF heapVars, FreeSlots, Slots
      <3>3. \A r \in Reg : regs'[r] \notin FreeSlots'
        BY <1>0, <1>13, <2>2, <3>1, <3>2 DEF NamedInUse
      <3>4. NamedInUse'
        BY <2>0, <2>2, <3>1, <3>2, <3>3 DEF NamedInUse
      <3> QED
        BY <1>11, <1>13, <2>0, <2>2, <3>4 DEF heapVars
    <2>3. ASSUME entry.op = "call", NEW id \in Id, Alloc(id, Bare(entry.arg, Nothing)),
                 lastInstance' = id, Enter(id, arg)
          PROVE  SafeOK'
      <3>1. entry.arg \in Class
        BY <2>3 DEF TypeOK, Class
      <3>2. phase' = "run" /\ \A r \in Reg : regs'[r] \in {id, arg, Null}
        BY <1>13, <2>3
      <3>3. AllocStep(id, entry.arg, Nothing)
        BY <2>0, <2>3, <3>2 DEF AllocStep
      <3> QED
        BY <1>12, <3>1, <3>3
    <2> QED
      BY <2>1, <2>2, <2>3
  <1>15. CASE HostInvoke
    <2>1. PICK arg \in {held, Null} : Enter(lastInstance, arg)
      BY <1>15 DEF HostInvoke
    <2>2. /\ phase = "idle" /\ entry'.op = "invoke"
          /\ UNCHANGED <<objects, free, statics, strings, classObj, monitors, lastInstance, held>>
      BY <1>15 DEF HostInvoke, heapVars, rootVars
    <2>3. NamedInUse /\ FreeSlots' = FreeSlots /\ Slots' = Slots
      BY <1>9, <2>2 DEF HeapOK, FreeSlots, Slots
    <2>4. \A r \in Reg : regs'[r] \notin FreeSlots'
      BY <1>0, <1>13, <2>1, <2>3 DEF NamedInUse
    <2>5. NamedInUse'
      BY <2>2, <2>3, <2>4 DEF NamedInUse
    <2> QED
      BY <1>11, <1>13, <2>1, <2>2, <2>5
  <1>16. ASSUME NEW obj \in Id, HostInvokeOn(obj) PROVE SafeOK'
    <2>1. PICK arg \in {held, Null} : Enter(obj, arg)
      BY <1>16 DEF HostInvokeOn
    <2>2. /\ phase = "idle" /\ entry'.arg = obj /\ obj \in {held, lastInstance}
          /\ UNCHANGED <<objects, free, statics, strings, classObj, monitors, lastInstance, held>>
      BY <1>16 DEF HostInvokeOn, heapVars, rootVars
    <2>3. NamedInUse /\ FreeSlots' = FreeSlots /\ Slots' = Slots
      BY <1>9, <2>2 DEF HeapOK, FreeSlots, Slots
    <2>4. \A r \in Reg : regs'[r] \notin FreeSlots'
      BY <1>0, <1>13, <2>1, <2>2, <2>3 DEF NamedInUse
    <2>5. NamedInUse'
      BY <2>2, <2>3, <2>4 DEF NamedInUse
    <2> QED
      BY <1>11, <1>13, <2>1, <2>2, <2>5
  <1>17. ASSUME NEW c \in AppClass, HostAlloc(c) PROVE SafeOK'
    <2>1. PICK id \in Id : Alloc(id, Bare(c, Nothing)) /\ held' = id
      BY <1>17 DEF HostAlloc
    <2>2. /\ phase = "idle"
          /\ UNCHANGED <<statics, strings, classObj, monitors, lastInstance, regs, phase, entry>>
      BY <1>17 DEF HostAlloc, rootVars
    <2>3. AllocStep(id, c, Nothing)
      BY <2>1, <2>2 DEF AllocStep
    <2> QED
      BY <1>12, <2>3 DEF Class
  <1>18. ASSUME NEW v \in Ref, Return(v) \/ Fail(v) PROVE SafeOK'
    <2>1. /\ phase = "run" /\ phase' = "idle" /\ entry' = NoEntry /\ held' = v
          /\ v \in {regs[r] : r \in Reg} \cup {Null}
          /\ \A r \in Reg : regs'[r] = Null
          /\ UNCHANGED <<objects, free, statics, strings, classObj, monitors>>
      BY <1>18 DEF Return, Fail, heapVars, rootVars
    <2>2. \/ lastInstance' \in {lastInstance, v}
          \/ lastInstance' = entry.arg /\ entry.op = "invoke_on"
      BY <1>18 DEF Return, Fail
    <2>3. NamedInUse /\ FreeSlots' = FreeSlots /\ Slots' = Slots
      BY <1>9, <2>1 DEF HeapOK, FreeSlots, Slots
    <2>4. v \notin FreeSlots
      BY <1>0, <2>1, <2>3 DEF NamedInUse
    <2>5. lastInstance' \notin FreeSlots
      BY <2>2, <2>3, <2>4 DEF NamedInUse
    <2>6. NamedInUse'
      BY <1>0, <2>1, <2>3, <2>4, <2>5 DEF NamedInUse, NoEntry
    <2> QED
      BY <1>11, <2>1, <2>6
  <1>19. CASE HostStep
    BY <1>7, <1>8, <1>14, <1>15, <1>16, <1>17, <1>18, <1>19 DEF HostStep
  \* Guest instructions.
  <1>20. ASSUME GuestFrame, phase = "run"
         PROVE  phase' = "run" /\ UNCHANGED <<lastInstance, held, entry>>
    BY <1>20 DEF GuestFrame
  <1>21. ASSUME NEW r \in Reg, NEW c \in AppClass, GuestNew(r, c) PROVE SafeOK'
    <2>1. PICK id \in Id : Alloc(id, Bare(c, Nothing)) /\ regs' = [regs EXCEPT ![r] = id]
      BY <1>21 DEF GuestNew
    <2>2. /\ phase = "run" /\ phase' = "run"
          /\ UNCHANGED <<lastInstance, held, entry, statics, strings, classObj, monitors>>
      BY <1>20, <1>21 DEF GuestNew, rootVars
    <2>3. \A x \in Reg : regs'[x] = regs[x] \/ regs'[x] = id
      BY <2>1 DEF TypeOK
    <2>4. AllocStep(id, c, Nothing)
      BY <2>1, <2>2, <2>3 DEF AllocStep
    <2> QED
      BY <1>12, <2>4 DEF Class
  <1>22. ASSUME NEW r \in Reg, NEW l \in Lit, GuestString(r, l) PROVE SafeOK'
    <2>2. /\ phase = "run" /\ phase' = "run"
          /\ UNCHANGED <<lastInstance, held, entry, statics, classObj, monitors>>
      BY <1>20, <1>22 DEF GuestString
    <2>3. CASE strings[l] # Null
      <3>1. /\ regs' = [regs EXCEPT ![r] = strings[l]]
            /\ UNCHANGED <<objects, free, strings>>
        BY <1>22, <2>3 DEF GuestString, heapVars
      <3>2. NamedInUse /\ FreeSlots' = FreeSlots /\ Slots' = Slots
        BY <1>9, <2>2, <3>1 DEF HeapOK, FreeSlots, Slots
      <3>3. \A x \in Reg : regs'[x] \notin FreeSlots
        BY <3>1, <3>2 DEF NamedInUse, TypeOK
      <3>4. NamedInUse'
        BY <2>2, <3>1, <3>2, <3>3 DEF NamedInUse
      <3> QED
        BY <1>11, <2>2, <3>1, <3>4
    <2>4. CASE strings[l] = Null
      <3>1. PICK id \in Id : /\ Alloc(id, Bare(StringClass, l))
                             /\ strings' = [strings EXCEPT ![l] = id]
                             /\ regs' = [regs EXCEPT ![r] = id]
        BY <1>22, <2>4 DEF GuestString
      <3>2. /\ \A x \in Reg : regs'[x] = regs[x] \/ regs'[x] = id
            /\ \A k \in Lit : strings'[k] = strings[k] \/ (strings'[k] = id /\ k = l)
        <4>1. strings \in [Lit -> Slots \cup {Null}] /\ regs \in [Reg -> Slots \cup {Null}]
          BY DEF TypeOK
        <4> QED
          BY <3>1, <4>1
      <3>3. AllocStep(id, StringClass, l)
        BY <2>2, <3>1, <3>2 DEF AllocStep
      <3> QED
        BY <1>12, <3>3 DEF Class
    <2> QED
      BY <2>3, <2>4
  <1>23. ASSUME NEW r \in Reg, NEW c \in AppClass, GuestClass(r, c) PROVE SafeOK'
    <2>2. /\ phase = "run" /\ phase' = "run"
          /\ UNCHANGED <<lastInstance, held, entry, statics, strings, monitors>>
      BY <1>20, <1>23 DEF GuestClass
    <2>3. CASE classObj[c] # Null
      <3>1. /\ regs' = [regs EXCEPT ![r] = classObj[c]]
            /\ UNCHANGED <<objects, free, classObj>>
        BY <1>23, <2>3 DEF GuestClass, heapVars
      <3>2. NamedInUse /\ FreeSlots' = FreeSlots /\ Slots' = Slots
        BY <1>9, <2>2, <3>1 DEF HeapOK, FreeSlots, Slots
      <3>3. \A x \in Reg : regs'[x] \notin FreeSlots
        BY <3>1, <3>2 DEF NamedInUse, TypeOK
      <3>4. NamedInUse'
        BY <2>2, <3>1, <3>2, <3>3 DEF NamedInUse
      <3> QED
        BY <1>11, <2>2, <3>1, <3>4
    <2>4. CASE classObj[c] = Null
      <3>1. PICK id \in Id : /\ Alloc(id, Bare(ClassClass, c))
                             /\ classObj' = [classObj EXCEPT ![c] = id]
                             /\ regs' = [regs EXCEPT ![r] = id]
        BY <1>23, <2>4 DEF GuestClass
      <3>2. /\ \A x \in Reg : regs'[x] = regs[x] \/ regs'[x] = id
            /\ \A k \in AppClass : classObj'[k] = classObj[k] \/ classObj'[k] = id
        BY <3>1 DEF TypeOK
      <3>3. AllocStep(id, ClassClass, c)
        BY <2>2, <3>1, <3>2 DEF AllocStep
      <3> QED
        BY <1>12, <3>3 DEF Class
    <2> QED
      BY <2>3, <2>4
  \* Steps that only move ids in use between registers, statics and monitors.
  <1>24. ASSUME phase = "run", phase' = "run",
                UNCHANGED <<objects, free, strings, classObj, lastInstance, held, entry>>,
                \A x \in Reg : regs'[x] \notin FreeSlots,
                \A k \in AppClass : statics'[k] \notin FreeSlots,
                \A id \in Slots : monitors'[id] > 0 => id \notin FreeSlots
         PROVE  SafeOK'
    <2>1. NamedInUse /\ FreeSlots' = FreeSlots /\ Slots' = Slots
      BY <1>9, <1>24 DEF HeapOK, FreeSlots, Slots
    <2>2. NamedInUse'
      BY <1>24, <2>1 DEF NamedInUse
    <2> QED
      BY <1>11, <1>24, <2>2
  <1>25. ASSUME NEW r \in Reg, NEW s \in Reg, NEW f \in Field, GuestGet(r, s, f) PROVE SafeOK'
    <2>1. /\ phase = "run" /\ phase' = "run" /\ regs[s] # Null
          /\ regs' = [regs EXCEPT ![r] = objects[regs[s]].fields[f]]
          /\ UNCHANGED <<objects, free, statics, strings, classObj, monitors,
                         lastInstance, held, entry>>
      BY <1>20, <1>25 DEF GuestGet, heapVars, rootVars
    <2>2. HeapOK /\ NamedInUse
      BY <1>9, <2>1 DEF HeapOK
    <2>3. regs[s] \in Slots /\ regs[s] \notin FreeSlots
      BY <2>1, <2>2 DEF TypeOK, NamedInUse
    <2>4. objects[regs[s]].fields[f] \notin FreeSlots
      BY <1>0, <2>2, <2>3 DEF HeapOK, InUseClosed, References
    <2>5. \A x \in Reg : regs'[x] \notin FreeSlots
      BY <2>1, <2>2, <2>4 DEF TypeOK, NamedInUse
    <2> QED
      BY <1>24, <2>1, <2>2, <2>5 DEF NamedInUse
  <1>26. ASSUME NEW r \in Reg, NEW s \in Reg, NEW f \in Field, GuestPut(r, s, f) PROVE SafeOK'
    <2>1. /\ phase = "run" /\ phase' = "run" /\ regs[s] # Null
          /\ objects' = [objects EXCEPT ![regs[s]].fields[f] = regs[r]]
          /\ UNCHANGED <<free, statics, strings, classObj, monitors, regs,
                         lastInstance, held, entry>>
      BY <1>20, <1>26 DEF GuestPut, rootVars
    <2>2. HeapOK /\ NamedInUse
      BY <1>9, <2>1 DEF HeapOK
    <2>3. /\ Slots' = Slots
          /\ \A x \in Slots : /\ objects'[x].class = objects[x].class
                              /\ objects'[x].native = objects[x].native
                              /\ \A g \in Field : \/ objects'[x].fields[g] = objects[x].fields[g]
                                                  \/ objects'[x].fields[g] = regs[r]
      <3> DEFINE x0 == regs[s]
                 o0 == [objects[x0] EXCEPT !.fields[f] = regs[r]]
      <3>1. x0 \in Slots /\ objects \in Seq(JObject) /\ objects[x0] \in JObject
        BY <2>1 DEF TypeOK, Slots
      <3>2. /\ o0.class = objects[x0].class /\ o0.native = objects[x0].native
            /\ \A g \in Field : o0.fields[g] = objects[x0].fields[g] \/ o0.fields[g] = regs[r]
        BY <3>1 DEF JObject
      <3>3. objects' = [objects EXCEPT ![x0] = o0]
        BY <2>1
      <3> HIDE DEF o0
      <3> QED
        BY <3>1, <3>2, <3>3 DEF Slots
    <2>4. FreeSlots' = FreeSlots /\ FreeDistinct'
      BY <2>1, <2>2 DEF FreeSlots, HeapOK, FreeDistinct
    <2>5. InUseClosed'
      <3>1. regs[r] \notin FreeSlots
        BY <2>2 DEF NamedInUse
      <3>2. ASSUME NEW x \in Slots, x \notin FreeSlots
            PROVE  References(x)' \cap FreeSlots = {}
        <4>1. References(x) \cap FreeSlots = {}
          BY <2>2, <3>2 DEF HeapOK, InUseClosed
        <4>2. References(x)' \subseteq References(x) \cup {regs[r]}
          BY <2>3, <3>2 DEF References
        <4> QED
          BY <3>1, <4>1, <4>2
      <3> QED
        BY <2>3, <2>4, <3>2 DEF InUseClosed
    <2>6. NamedInUse'
      BY <2>1, <2>2, <2>3, <2>4 DEF NamedInUse
    <2>7. \A l \in Lit : strings'[l] # Null =>
              objects'[strings'[l]].class = StringClass /\ objects'[strings'[l]].native = l
      BY <1>9, <2>1, <2>3 DEF TypeOK
    <2> QED
      BY <1>10, <2>1, <2>4, <2>5, <2>6, <2>7
  <1>27. ASSUME NEW r \in Reg, NEW c \in AppClass, GuestSGet(r, c) PROVE SafeOK'
    <2>1. /\ phase = "run" /\ phase' = "run"
          /\ regs' = [regs EXCEPT ![r] = statics[c]]
          /\ UNCHANGED <<objects, free, statics, strings, classObj, monitors,
                         lastInstance, held, entry>>
      BY <1>20, <1>27 DEF GuestSGet, heapVars, rootVars
    <2>2. NamedInUse
      BY <1>9, <2>1 DEF HeapOK
    <2>3. \A x \in Reg : regs'[x] \notin FreeSlots
      BY <2>1, <2>2 DEF TypeOK, NamedInUse
    <2> QED
      BY <1>24, <2>1, <2>2, <2>3 DEF NamedInUse
  <1>28. ASSUME NEW r \in Reg, NEW c \in AppClass, GuestSPut(r, c) PROVE SafeOK'
    <2>1. /\ phase = "run" /\ phase' = "run"
          /\ statics' = [statics EXCEPT ![c] = regs[r]]
          /\ UNCHANGED <<objects, free, strings, classObj, monitors, regs,
                         lastInstance, held, entry>>
      BY <1>20, <1>28 DEF GuestSPut, heapVars
    <2>2. NamedInUse
      BY <1>9, <2>1 DEF HeapOK
    <2>3. \A k \in AppClass : statics'[k] \notin FreeSlots
      BY <2>1, <2>2 DEF TypeOK, NamedInUse
    <2> QED
      BY <1>24, <2>1, <2>2, <2>3 DEF NamedInUse
  <1>29. ASSUME NEW r \in Reg, GuestMonitorEnter(r) \/ GuestMonitorExit(r) PROVE SafeOK'
    <2>1. /\ phase = "run" /\ phase' = "run" /\ regs[r] # Null
          /\ \A id \in Id : id # regs[r] => monitors'[id] = monitors[id]
          /\ UNCHANGED <<objects, free, statics, strings, classObj, regs,
                         lastInstance, held, entry>>
      BY <1>20, <1>29 DEF GuestMonitorEnter, GuestMonitorExit, heapVars, TypeOK
    <2>2. NamedInUse
      BY <1>9, <2>1 DEF HeapOK
    <2>3. \A id \in Slots : monitors'[id] > 0 => id \notin FreeSlots
      <3>1. \A id \in Slots : id \in Id
        BY HeapAssumption DEF TypeOK, Slots, Id
      <3> QED
        BY <2>1, <2>2, <3>1 DEF NamedInUse
    <2> QED
      BY <1>24, <2>1, <2>2, <2>3 DEF NamedInUse
  <1>30. CASE GuestStep
    BY <1>21, <1>22, <1>23, <1>25, <1>26, <1>27, <1>28, <1>29, <1>30 DEF GuestStep
  <1> QED
    BY <1>u, <1>6, <1>19, <1>30 DEF Next

LEMMA InitSafeOK == Init => SafeOK
  BY DEF Init, SafeOK, CleanOK, InternedIdentity, FreeDistinct, NamedInUse, InUseClosed,
         FreeSlots, Slots, Null, NoEntry

\* The inductive invariant holds in every reachable state.
THEOREM Inductive == Spec => []IInv
  <1>1. Init => IInv
    BY InitTypeOK, InitMarkOK, InitSafeOK DEF IInv, SafeOK
  <1>2. IInv /\ [Next]_vars => IInv'
    BY NextTypeOK, NextMarkOK, NextSafeOK DEF IInv, SafeOK
  <1> QED
    BY <1>1, <1>2, PTL DEF Spec

\* As long as no collection starts with reclaimed slots still unused and none
\* overlooks an object still named (a class mirror, the host's handle, what the
\* payload of a kept object refers to without reporting it), Arena::alloc never
\* hands out a slot that guest or host code can get at, through fields or
\* payloads, whatever the guest does to the object graph.
THEOREM NoDangling == Spec => []ReachableIsNotFree
  <1>1. IInv => ReachableIsNotFree
    <2> SUFFICES ASSUME IInv, clean PROVE Accessible(Named) \cap FreeSlots = {}
      BY DEF ReachableIsNotFree
    <2>1. TypeOK /\ MarkOK /\ QuietOK /\ CleanOK /\ NamedInUse
      BY DEF IInv, CleanOK
    <2>2. /\ Named \cap FreeSlots = {} /\ Named \subseteq Slots
          /\ Null \notin FreeSlots /\ FreeSlots \subseteq Slots
      BY <2>1, NullNotFree DEF Named, Roots, NamedInUse, TypeOK
    <2>3. CASE phase # "sweep"
      <3>1. InUseClosed
        BY <2>1, <2>3 DEF CleanOK
      <3>2. ClosedForCode(Slots \ FreeSlots) /\ Named \subseteq Slots \ FreeSlots
        BY <2>1, <2>2, <3>1 DEF ClosedForCode, InUseClosed, TypeOK
      <3> QED
        BY <3>2 DEF Accessible
    <2>4. CASE phase = "sweep"
      <3>1. /\ FreeSlots = {id \in Slots : id < next /\ id \notin marks}
            /\ ClosedForCode(marks) /\ held \in marks \cup {Null}
        BY <2>1, <2>4 DEF CleanOK, ClosedForCode
      <3>2. Roots \subseteq marks /\ marks \subseteq Slots
        BY <2>1, <2>4 DEF MarkOK, TypeOK
      <3>3. Named \subseteq marks
        BY <2>1, <2>4, <3>1, <3>2 DEF QuietOK, Named
      <3> QED
        BY <3>1, <3>2, <3>3 DEF Accessible
    <2> QED
      BY <2>3, <2>4
  <1> QED
    BY <1>1, Inductive, PTL

\* In the same histories a string literal keeps its identity: the object
\* alloc_string returns for it is a String holding that literal.
THEOREM InterningSound == Spec => []InternedIdentity
  <1>1. IInv => InternedIdentity
    BY DEF IInv
  <1> QED
    BY <1>1, Inductive, PTL

LEMMA CountOfInterval ==
    ASSUME NEW n \in Nat
    PROVE  IsFiniteSet(1..n) /\ Cardinality(1..n) = n
  <1>1. 1 \in Int /\ n \in Int
    OBVIOUS
  <1>2. /\ IsFiniteSet(1..n)
        /\ Cardinality(1..n) = IF 1 > n THEN 0 ELSE n - 1 + 1
    BY <1>1, FS_Interval, Zenon
  <1>3. (IF 1 > n THEN 0 ELSE n - 1 + 1) = n
    OBVIOUS
  <1> QED
    BY <1>2, <1>3

\* In the same histories the length of the free list is the number of free
\* slots, so that the subtraction in Arena::live_count neither wraps nor
\* counts a slot twice, for an arena of any size.
THEOREM LiveCountIsExact == Spec => []LiveCountExact
  <1>1. IInv => LiveCountExact
    <2> SUFFICES ASSUME IInv, clean PROVE LiveCount = Cardinality(Slots \ FreeSlots)
      BY DEF LiveCountExact
    <2> DEFINE I == 1..Len(free)
               f == [i \in I |-> free[i]]
    <2>1. /\ FreeDistinct /\ free \in Seq(Slots)
          /\ Len(free) \in Nat /\ Len(objects) \in Nat
      BY DEF IInv, CleanOK, TypeOK
    <2>2. FreeSlots \subseteq Slots
      BY <2>1 DEF FreeSlots
    <2>3. f \in Bijection(I, FreeSlots)
      <3>1. f \in [I -> FreeSlots]
        BY DEF FreeSlots
      <3>2. \A t \in FreeSlots : \E i \in I : f[i] = t
        BY DEF FreeSlots
      <3>3. \A i, j \in I : f[i] = f[j] => i = j
        BY <2>1 DEF FreeDistinct
      <3> QED
        BY <3>1, <3>2, <3>3 DEF Bijection, Injection, Surjection, IsInjective
    <2>4. IsFiniteSet(I) /\ Cardinality(I) = Len(free)
      BY <2>1, CountOfInterval
    <2> HIDE DEF I, f
    <2>5. Cardinality(FreeSlots) = Len(free)
      BY <2>3, <2>4, FS_Bijection DEF ExistsBijection
    <2>6. IsFiniteSet(Slots) /\ Cardinality(Slots) = Len(objects)
      BY <2>1, CountOfInterval DEF Slots
    <2>7. Slots \cap FreeSlots = FreeSlots
      BY <2>2
    <2>8. Cardinality(Slots \ FreeSlots) = Cardinality(Slots) - Cardinality(FreeSlots)
      BY <2>6, <2>7, FS_Difference, ZenonT(60)
    <2> QED
      BY <2>5, <2>6, <2>8 DEF LiveCount
  <1> QED
    BY <1>1, Inductive, PTL
=============================================================================
