---------------------------- MODULE ShimsProofs ----------------------------
(***************************************************************************)
(* Loading with the tables the program is built with, for any choice of    *)
(* features and any number of requests.  Of the tables the proofs use the  *)
(* facts of HostTableFacts alone.  The loads under way are nested by        *)
(* Height: each is of a class strictly nearer to Object than the one below  *)
(* it, so none is of the same class.                                       *)
(***************************************************************************)
EXTENDS Shims, HostTableFacts, Integers, TLAPS

Frame == [name : Named, todo : Seq(Named)]
In(cs, c) == \E i \in 1..Len(cs) : cs[i] = c

(* A load under way: of a class the build has and that is not loaded yet,   *)
(* with parents that the build has, nearer to Object.                      *)
FrameSound(b, cs, f) ==
    /\ shim_or_native(b, f.name)
    /\ ~In(cs, f.name)
    /\ \A k \in 1..Len(f.todo) :
         shim_or_native(b, f.todo[k]) /\ Height[f.todo[k]] < Height[f.name]

(* f is of a class at least k steps nearer to Object than that of g. *)
Nearer(f, g, k) == Height[f.name] + k <= Height[g.name]

StackSound(b, cs, st) ==
    /\ st \in Seq(Frame)
    /\ \A i \in 1..Len(st) : FrameSound(b, cs, st[i])
    /\ \A i, j \in 1..Len(st) : i < j => Nearer(st[j], st[i], j - i)

ClassesSound(b, cs) ==
    /\ cs \in Seq(Named)
    /\ \A i \in 1..Len(cs) : shim_or_native(b, cs[i])
    /\ \A i, j \in 1..Len(cs) : cs[i] = cs[j] => i = j

(* What the outermost load is for, and what is there when it has ended. *)
OpSound(b, cs, st, o) ==
    /\ o \in [kind : {"boot", "make", "throw", "static", "done"},
              class : Named \cup ShThrown \cup {NoParent}, ok : BOOLEAN]
    /\ st # <<>> => st[1].name = o.class /\ o.kind # "done"
    /\ o.kind # "done" /\ st = <<>> /\ shim_or_native(b, o.class) => In(cs, o.class)
    /\ o.ok = FALSE => ~shim_or_native(b, o.class)
    /\ o.kind = "throw" => o.class \in ShThrown
    /\ o.kind = "boot" => o.class = "java/lang/String"
    /\ o.kind # "boot" => cs # <<>>

MadeSound(cs, c) == c = NoParent \/ In(cs, c)

ShInv ==
    /\ shBuild \in SUBSET Feature
    /\ ClassesSound(shBuild, shClasses)
    /\ StackSound(shBuild, shClasses, shStack)
    /\ OpSound(shBuild, shClasses, shStack, shOp)
    /\ MadeSound(shClasses, shMade)

-----------------------------------------------------------------------------
LEMMA HeightNat == \A c \in Named : Height[c] \in Nat /\ Height[c] <= MaxHeight
  BY TablesAssumption DEF MaxHeight

(* A frame of a stack of frames names a class the tables know. *)
LEMMA FrameNamed ==
    ASSUME NEW st \in Seq(Frame), NEW i \in 1..Len(st)
    PROVE  /\ st[i] \in Frame /\ st[i].name \in Named
           /\ Height[st[i].name] \in Nat /\ Height[st[i].name] <= MaxHeight
  <1>1. st[i] \in Frame
    OBVIOUS
  <1> DEFINE f == st[i]
  <1> HIDE DEF f
  <1>2. f \in Frame
    BY <1>1 DEF f
  <1>3. f.name \in Named
    BY <1>2 DEF Frame
  <1>4. Height[f.name] \in Nat /\ Height[f.name] <= MaxHeight
    BY <1>3, HeightNat
  <1> QED
    BY <1>2, <1>3, <1>4 DEF f

(* A sequence without its last element. *)
LEMMA FrontFacts ==
    ASSUME NEW S, NEW s \in Seq(S), s # <<>>
    PROVE  /\ Len(s) \in Nat /\ Len(s) \in 1..Len(s) /\ Len(s) - 1 \in Nat
           /\ SubSeq(s, 1, Len(s) - 1) \in Seq(S)
           /\ Len(SubSeq(s, 1, Len(s) - 1)) = Len(s) - 1
           /\ \A i \in 1..(Len(s) - 1) : SubSeq(s, 1, Len(s) - 1)[i] = s[i]
  <1> DEFINE n == Len(s)
  <1>1. n \in Nat /\ n # 0 /\ \A i \in 1..n : s[i] \in S
    OBVIOUS
  <1>2. n = Len(s)
    OBVIOUS
  <1> HIDE DEF n
  <1>3. n \in 1..n /\ n - 1 \in Nat /\ \A i \in 1..(n - 1) : i \in 1..n
    BY <1>1
  <1> DEFINE q == SubSeq(s, 1, n - 1)
  <1>4. q = [i \in 1..(n - 1) |-> s[i]]
    BY <1>1, <1>2, <1>3
  <1> HIDE DEF q
  <1>5. q \in Seq(S) /\ Len(q) = n - 1 /\ \A i \in 1..(n - 1) : q[i] = s[i]
    BY <1>1, <1>3, <1>4
  <1> QED
    BY <1>1, <1>2, <1>3, <1>5 DEF q

(* A load that starts is sound. *)
LEMMA ActivationSound ==
    ASSUME NEW b \in SUBSET Feature, NEW cs, NEW c \in Named, shim_or_native(b, c), ~In(cs, c)
    PROVE  LET f == [name |-> c, todo |-> Parents(b, c)] IN
           f \in Frame /\ FrameSound(b, cs, f) /\ f.name = c
  <1>1. ParentsThere(b)
    BY TablesAssumption
  <1>2. /\ Parents(b, c) \in Seq(Named)
        /\ \A i \in 1..Len(Parents(b, c)) :
             shim_or_native(b, Parents(b, c)[i]) /\ Height[Parents(b, c)[i]] < Height[c]
    BY <1>1, Zenon DEF ParentsThere
  <1> DEFINE t == Parents(b, c)
             f == [name |-> c, todo |-> t]
  <1> HIDE DEF t
  <1>3. f \in Frame /\ f.name = c /\ f.todo = t
    BY <1>2 DEF Frame, t
  <1> HIDE DEF f
  <1>4. FrameSound(b, cs, f)
    BY <1>2, <1>3 DEF FrameSound, t
  <1> QED
    BY <1>3, <1>4 DEF f, t

(* A stack of one load, and the empty one. *)
LEMMA SingleSound ==
    ASSUME NEW b \in SUBSET Feature, NEW cs, NEW f \in Frame, FrameSound(b, cs, f)
    PROVE  StackSound(b, cs, <<f>>)
  BY DEF StackSound

LEMMA EmptySound ==
    ASSUME NEW b, NEW cs PROVE StackSound(b, cs, <<>>)
  BY DEF StackSound

(* The innermost load drops a parent: the loads and their order stay. *)
Dropped(st) ==
    Append(SubSeq(st, 1, Len(st) - 1), [st[Len(st)] EXCEPT !.todo = Tail(@)])

Waiting(st) == st # <<>> /\ st[Len(st)].todo # <<>>

SameLoads(st, r) == Len(r) = Len(st) /\ \A i \in 1..Len(st) : r[i].name = st[i].name

LEMMA DroppedSound ==
    ASSUME NEW b, NEW cs, NEW st, StackSound(b, cs, st), Waiting(st)
    PROVE  StackSound(b, cs, Dropped(st)) /\ SameLoads(st, Dropped(st))
  <1> DEFINE n == Len(st)
             f == st[n]
             g == [f EXCEPT !.todo = Tail(@)]
             r == Dropped(st)
  <1>1. st \in Seq(Frame) /\ n \in Nat /\ n \in 1..n /\ f \in Frame
    BY DEF StackSound, Waiting
  <1>2. f.todo \in Seq(Named) /\ f.todo # <<>>
    BY <1>1 DEF Frame, Waiting
  <1> DEFINE t == Tail(f.todo)
  <1>3. /\ t \in Seq(Named)
        /\ \A k \in 1..Len(t) : k + 1 \in 1..Len(f.todo) /\ t[k] = f.todo[k + 1]
    BY <1>2
  <1>4. g \in Frame /\ g.name = f.name /\ g.todo = t
    <2> HIDE DEF t
    <2>1. g = [f EXCEPT !.todo = t]
      BY DEF t
    <2> HIDE DEF f, g
    <2> QED
      BY <1>1, <1>3, <2>1 DEF Frame
  <1>5. FrameSound(b, cs, g)
    <2>1. FrameSound(b, cs, f)
      BY <1>1 DEF StackSound
    <2> HIDE DEF f, g, t
    <2> QED
      BY <1>3, <1>4, <2>1 DEF FrameSound
  <1>6. r = Append(SubSeq(st, 1, n - 1), g)
    BY DEF Dropped
  <1> HIDE DEF g, r
  <1>7. r \in Seq(Frame) /\ Len(r) = n /\ r[n] = g /\ \A i \in 1..(n - 1) : r[i] = st[i]
    <2> DEFINE q == SubSeq(st, 1, n - 1)
    <2>1. /\ n \in Nat /\ n - 1 \in Nat /\ q \in Seq(Frame) /\ Len(q) = n - 1
          /\ \A i \in 1..(n - 1) : q[i] = st[i]
      BY <1>1, FrontFacts DEF Waiting
    <2>2. r = Append(q, g) /\ g \in Frame
      BY <1>4, <1>6
    <2> HIDE DEF n, q, f
    <2> QED
      BY <2>1, <2>2
  <1>8. \A i \in 1..n : r[i].name = st[i].name /\ FrameSound(b, cs, r[i])
    <2>1. \A i \in 1..n : FrameSound(b, cs, st[i])
      BY DEF StackSound
    <2>2. ASSUME NEW i \in 1..n PROVE r[i].name = st[i].name /\ FrameSound(b, cs, r[i])
      <3>1. CASE i = n
        BY <1>4, <1>5, <1>7, <3>1
      <3>2. CASE i # n
        <4>1. i \in 1..(n - 1)
          BY <1>1, <3>2
        <4> QED
          BY <1>7, <2>1, <4>1
      <3> QED
        BY <3>1, <3>2
    <2> QED
      BY <2>2
  <1> HIDE DEF n, f
  <1>9. StackSound(b, cs, r)
    <2>1. \A i, j \in 1..n : i < j => Nearer(st[j], st[i], j - i)
      BY DEF StackSound, n
    <2>2. \A i, j \in 1..n : i < j => Nearer(r[j], r[i], j - i)
      BY <1>8, <2>1 DEF Nearer
    <2> QED
      BY <1>7, <1>8, <2>2 DEF StackSound
  <1> QED
    BY <1>7, <1>8, <1>9 DEF r, n, SameLoads

(* One more load on top, of a class nearer to Object. *)
LEMMA PushedSound ==
    ASSUME NEW b, NEW cs, NEW st, StackSound(b, cs, st), st # <<>>,
           NEW f \in Frame, FrameSound(b, cs, f), Height[f.name] < Height[st[Len(st)].name]
    PROVE  StackSound(b, cs, Append(st, f)) /\ Append(st, f)[1] = st[1]
  <1> DEFINE n == Len(st)
             r == Append(st, f)
  <1>1. st \in Seq(Frame) /\ n \in Nat /\ n \in 1..n
    BY DEF StackSound
  <1>2. r \in Seq(Frame) /\ Len(r) = n + 1 /\ r[n + 1] = f /\ \A i \in 1..n : r[i] = st[i]
    BY <1>1
  <1>3. \A i \in 1..n : st[i].name \in Named /\ Height[st[i].name] \in Nat
    BY <1>1, FrameNamed
  <1>4. f.name \in Named /\ Height[f.name] \in Nat
    BY HeightNat DEF Frame
  <1> HIDE DEF n, r
  <1>5. ASSUME NEW i \in 1..n PROVE Nearer(f, st[i], (n + 1) - i)
    <2>1. Height[f.name] + 1 <= Height[st[n].name]
      <3>1. Height[f.name] < Height[st[n].name]
        BY DEF n
      <3> QED
        BY <1>1, <1>3, <1>4, <3>1
    <2>2. CASE i = n
      BY <1>1, <2>1, <2>2 DEF Nearer
    <2>3. CASE i # n
      <3>1. i < n
        BY <1>1, <2>3
      <3>2. Height[st[n].name] + (n - i) <= Height[st[i].name]
        BY <1>1, <3>1 DEF StackSound, Nearer, n
      <3> DEFINE x == Height[f.name]
                 y == Height[st[n].name]
                 z == Height[st[i].name]
      <3>3. x \in Nat /\ y \in Nat /\ z \in Nat /\ x + 1 <= y /\ y + (n - i) <= z
        BY <1>1, <1>3, <1>4, <2>1, <3>2
      <3> HIDE DEF x, y, z
      <3>4. x + ((n + 1) - i) <= z
        BY <1>1, <3>3
      <3> QED
        BY <3>4 DEF Nearer, x, z
    <2> QED
      BY <2>2, <2>3
  <1>6. \A i \in 1..(n + 1) : FrameSound(b, cs, r[i])
    <2>1. \A i \in 1..n : FrameSound(b, cs, st[i])
      BY DEF StackSound, n
    <2>2. \A i \in 1..(n + 1) : i \in 1..n \/ i = n + 1
      BY <1>1
    <2> QED
      BY <1>2, <2>1, <2>2
  <1>7. ASSUME NEW i \in 1..(n + 1), NEW j \in 1..(n + 1), i < j
        PROVE  Nearer(r[j], r[i], j - i)
    <2>1. i \in 1..n /\ r[i] = st[i]
      BY <1>1, <1>2, <1>7
    <2>2. CASE j = n + 1
      BY <1>2, <1>5, <2>1, <2>2
    <2>3. CASE j # n + 1
      <3>1. j \in 1..n /\ r[j] = st[j]
        BY <1>1, <1>2, <2>3
      <3>2. Nearer(st[j], st[i], j - i)
        BY <1>7, <2>1, <3>1 DEF StackSound, n
      <3> QED
        BY <2>1, <3>1, <3>2
    <2> QED
      BY <2>2, <2>3
  <1>8. StackSound(b, cs, r)
    BY <1>2, <1>6, <1>7 DEF StackSound
  <1>9. r[1] = st[1]
    BY <1>1, <1>2
  <1> QED
    BY <1>8, <1>9 DEF r

(* The innermost load ends: its class is there, and of no other load. *)
LEMMA PoppedSound ==
    ASSUME NEW b, NEW cs, NEW st, ClassesSound(b, cs), StackSound(b, cs, st), st # <<>>
    PROVE  LET c == st[Len(st)].name
               r == SubSeq(st, 1, Len(st) - 1) IN
           /\ ClassesSound(b, Append(cs, c))
           /\ StackSound(b, Append(cs, c), r)
           /\ In(Append(cs, c), c)
           /\ \A d : In(cs, d) => In(Append(cs, c), d)
           /\ IF r = <<>> THEN c = st[1].name ELSE r[1] = st[1]
  <1> DEFINE n == Len(st)
             c == st[n].name
             r == SubSeq(st, 1, n - 1)
             ds == Append(cs, c)
             m == Len(cs)
  <1>1. st \in Seq(Frame) /\ n \in Nat /\ n \in 1..n /\ cs \in Seq(Named) /\ m \in Nat
    BY DEF StackSound, ClassesSound
  <1>2. \A i \in 1..n : st[i].name \in Named /\ Height[st[i].name] \in Nat
    BY <1>1, FrameNamed
  <1>3. c \in Named /\ shim_or_native(b, c) /\ ~In(cs, c)
    BY <1>1, <1>2 DEF StackSound, FrameSound
  <1>4. r \in Seq(Frame) /\ Len(r) = n - 1 /\ \A i \in 1..(n - 1) : r[i] = st[i]
    BY <1>1, FrontFacts
  <1> HIDE DEF c
  <1>5. ds \in Seq(Named) /\ Len(ds) = m + 1 /\ ds[m + 1] = c /\ \A i \in 1..m : ds[i] = cs[i]
    BY <1>1, <1>3
  <1> HIDE DEF r, ds, m
  <1>6. \A i \in 1..(m + 1) : i \in 1..m \/ i = m + 1
    BY <1>1
  <1>7. \A d : In(ds, d) <=> In(cs, d) \/ d = c
    <2>1. m = Len(cs) /\ m + 1 \in 1..(m + 1) /\ \A i \in 1..m : i \in 1..(m + 1)
      BY <1>1 DEF m
    <2> QED
      BY <1>5, <1>6, <2>1 DEF In
  <1>8. ClassesSound(b, ds)
    <2>1. /\ \A i \in 1..m : shim_or_native(b, cs[i])
          /\ \A i, j \in 1..m : cs[i] = cs[j] => i = j
      BY DEF ClassesSound, m
    <2>2. \A i \in 1..m : cs[i] # c
      BY <1>3 DEF In, m
    <2>3. \A i \in 1..(m + 1) : shim_or_native(b, ds[i])
      BY <1>3, <1>5, <1>6, <2>1
    <2>4. \A i, j \in 1..(m + 1) : ds[i] = ds[j] => i = j
      BY <1>5, <1>6, <2>1, <2>2
    <2> QED
      BY <1>5, <2>3, <2>4 DEF ClassesSound
  <1>9. ASSUME NEW i \in 1..(n - 1)
        PROVE  i \in 1..n /\ FrameSound(b, ds, r[i])
    <2>1. i \in 1..n /\ i < n
      BY <1>1
    <2>2. FrameSound(b, cs, st[i]) /\ Height[st[n].name] + (n - i) <= Height[st[i].name]
      BY <1>1, <2>1 DEF StackSound, Nearer
    <2>3. st[i].name # c
      <3>1. Height[st[n].name] \in Nat
        BY <1>1, <1>2
      <3> HIDE DEF n
      <3> QED
        BY <1>1, <2>1, <2>2, <3>1 DEF c
    <2>4. FrameSound(b, ds, st[i])
      BY <1>7, <2>2, <2>3 DEF FrameSound
    <2> QED
      BY <1>4, <2>1, <2>4
  <1>10. StackSound(b, ds, r)
    <2>1. ASSUME NEW i \in 1..(n - 1), NEW j \in 1..(n - 1), i < j
          PROVE  Nearer(r[j], r[i], j - i)
      <3>1. i \in 1..n /\ j \in 1..n
        BY <1>1
      <3>2. Nearer(st[j], st[i], j - i)
        BY <2>1, <3>1 DEF StackSound
      <3> QED
        BY <1>4, <3>2
    <2> QED
      BY <1>4, <1>9, <2>1 DEF StackSound
  <1>11. IF r = <<>> THEN c = st[1].name ELSE r[1] = st[1]
    <2>1. CASE n = 1
      BY <1>4, <2>1 DEF c
    <2>2. CASE n # 1
      <3>1. 1 \in 1..(n - 1)
        <4> HIDE DEF n
        <4> QED
          BY <1>1, <2>2
      <3> QED
        BY <1>4, <3>1
    <2> QED
      BY <2>1, <2>2
  <1> QED
    BY <1>7, <1>8, <1>10, <1>11 DEF c, r, ds

-----------------------------------------------------------------------------
(* The invariant. *)
BOOT == "java/lang/String"

LEMMA InitInv == ShInit => ShInv
  <1> SUFFICES ASSUME ShInit PROVE ShInv
    OBVIOUS
  <1>1. shBuild \in SUBSET Feature
    BY BuildsAssumption DEF ShInit
  <1>2. shClasses = <<>> /\ shMade = NoParent
    BY DEF ShInit
  <1>3. BOOT \in Named /\ shim_or_native(shBuild, BOOT)
    BY <1>1, TablesAssumption, Zenon DEF NamedThere, BOOT
  <1>4. \A c : ~In(shClasses, c)
    BY <1>2 DEF In
  <1>5. ClassesSound(shBuild, shClasses)
    BY <1>2 DEF ClassesSound
  <1> DEFINE f == [name |-> BOOT, todo |-> Parents(shBuild, BOOT)]
  <1>6. shStack = <<f>>
    BY DEF ShInit, Activation, BOOT
  <1>7. f \in Frame /\ FrameSound(shBuild, shClasses, f) /\ f.name = BOOT
    BY <1>1, <1>3, <1>4, ActivationSound, Zenon
  <1> HIDE DEF f
  <1>8. StackSound(shBuild, shClasses, shStack)
    BY <1>1, <1>6, <1>7, SingleSound
  <1>9. shStack # <<>> /\ shStack[1].name = BOOT
    BY <1>6, <1>7
  <1>10. OpSound(shBuild, shClasses, shStack, shOp)
    <2>1. shOp = [kind |-> "boot", class |-> BOOT, ok |-> TRUE]
      BY DEF ShInit, BOOT
    <2> QED
      BY <1>3, <1>9, <2>1 DEF OpSound, BOOT
  <1>11. MadeSound(shClasses, shMade)
    BY <1>2 DEF MadeSound
  <1> QED
    BY <1>1, <1>5, <1>8, <1>10, <1>11 DEF ShInv

(* A request starts the load of a class that the build has and has not     *)
(* loaded, and nothing else.                                               *)
Requests(kind, c) ==
    /\ shOp' = [kind |-> kind, class |-> c, ok |-> TRUE]
    /\ shStack' = IF Loaded(c) \/ ~shim_or_native(shBuild, c) THEN <<>>
                  ELSE <<Activation(c)>>
    /\ UNCHANGED <<shBuild, shClasses, shMade>>

LEMMA RequestInv ==
    ASSUME ShInv, ShIdle, NEW kind \in {"make", "throw", "static"}, NEW c \in Named \cup ShThrown,
           kind = "throw" => c \in ShThrown, Requests(kind, c)
    PROVE  ShInv'
  <1>1. shBuild \in SUBSET Feature /\ ClassesSound(shBuild, shClasses)
        /\ MadeSound(shClasses, shMade) /\ OpSound(shBuild, shClasses, shStack, shOp)
    BY DEF ShInv
  <1>2. shBuild' = shBuild /\ shClasses' = shClasses /\ shMade' = shMade
    BY DEF Requests
  <1>3. shClasses # <<>>
    BY <1>1 DEF OpSound, ShIdle
  <1>4. shOp' = [kind |-> kind, class |-> c, ok |-> TRUE]
    BY DEF Requests
  <1>5. Loaded(c) <=> In(shClasses, c)
    BY DEF Loaded, In
  <1>6. shim_or_native(shBuild, c) => c \in Named
    <2>1. \A d \in ShThrown : shim_or_native(shBuild, d) => d \in Named
      BY <1>1, TablesAssumption, Zenon DEF NamedThere
    <2> QED
      BY <2>1, Zenon
  <1>7. /\ StackSound(shBuild, shClasses, shStack')
        /\ shStack' # <<>> => shStack'[1].name = c
        /\ shStack' = <<>> /\ shim_or_native(shBuild, c) => In(shClasses, c)
    <2>1. CASE Loaded(c) \/ ~shim_or_native(shBuild, c)
      <3>1. shStack' = <<>>
        BY <2>1 DEF Requests
      <3> QED
        BY <1>5, <2>1, <3>1, EmptySound
    <2>2. CASE ~(Loaded(c) \/ ~shim_or_native(shBuild, c))
      <3> DEFINE f == [name |-> c, todo |-> Parents(shBuild, c)]
      <3>1. shStack' = <<f>>
        BY <2>2 DEF Requests, Activation
      <3>2. f \in Frame /\ FrameSound(shBuild, shClasses, f) /\ f.name = c
        BY <1>1, <1>5, <1>6, <2>2, ActivationSound, Zenon
      <3> HIDE DEF f
      <3>3. StackSound(shBuild, shClasses, shStack')
        BY <1>1, <3>1, <3>2, SingleSound
      <3>4. shStack' # <<>> /\ shStack'[1].name = c
        BY <3>1, <3>2
      <3> QED
        BY <3>3, <3>4
    <2> QED
      BY <2>1, <2>2
  <1>8. OpSound(shBuild, shClasses, shStack', shOp')
    BY <1>3, <1>4, <1>7 DEF OpSound
  <1> QED
    BY <1>1, <1>2, <1>7, <1>8 DEF ShInv

LEMMA MakeInv == ASSUME ShInv, Make PROVE ShInv'
  <1>1. PICK c \in Named : ShAsk("make", c)
    BY DEF Make
  <1>2. ShIdle /\ Requests("make", c)
    BY <1>1, Zenon DEF ShAsk, Requests
  <1> QED
    BY <1>2, RequestInv

LEMMA ThrowInv == ASSUME ShInv, ShThrow PROVE ShInv'
  <1>1. PICK c \in ShThrown : ShAsk("throw", c)
    BY DEF ShThrow
  <1>2. ShIdle /\ Requests("throw", c)
    BY <1>1, Zenon DEF ShAsk, Requests
  <1> QED
    BY <1>2, RequestInv

LEMMA StaticInv == ASSUME ShInv, static_field_get PROVE ShInv'
  <1>1. shBuild \in SUBSET Feature /\ ClassesSound(shBuild, shClasses)
        /\ MadeSound(shClasses, shMade)
    BY DEF ShInv
  <1>2. shMade # NoParent /\ ShIdle
    BY DEF static_field_get
  <1>3. shMade \in Named
    BY <1>1, <1>2 DEF MadeSound, In, ClassesSound
  <1>4. ShimDef(shBuild, shMade).statics \subseteq Named
    BY <1>1, <1>3, TablesAssumption, Zenon DEF NamedThere
  <1>5. PICK c \in ShimDef(shBuild, shMade).statics : Requests("static", c)
    BY Zenon DEF static_field_get, Requests
  <1>6. c \in Named
    BY <1>4, <1>5
  <1> QED
    BY <1>2, <1>5, <1>6, RequestInv

(* The parents of the innermost load: each is there and nearer to Object,  *)
(* so the load never ends for want of one.                                 *)
LEMMA NextParentInv == ASSUME ShInv, NextParent PROVE ShInv'
  <1> DEFINE n == Len(shStack)
             top == shStack[n]
             p == Head(top.todo)
             rest == Dropped(shStack)
  <1>1. shBuild \in SUBSET Feature /\ ClassesSound(shBuild, shClasses)
        /\ MadeSound(shClasses, shMade) /\ OpSound(shBuild, shClasses, shStack, shOp)
        /\ StackSound(shBuild, shClasses, shStack)
    BY DEF ShInv
  <1>2. shBuild' = shBuild /\ shClasses' = shClasses /\ shMade' = shMade
    BY DEF NextParent
  <1>3. shStack # <<>> /\ top.todo # <<>>
    BY DEF NextParent, ShTop
  <1>4. n \in 1..n /\ shStack \in Seq(Frame) /\ 1 \in 1..n
    BY <1>1, <1>3 DEF StackSound
  <1>5. top \in Frame /\ top.name \in Named /\ FrameSound(shBuild, shClasses, top)
    BY <1>1, <1>4, FrameNamed DEF StackSound
  <1>6. p \in Named /\ shim_or_native(shBuild, p) /\ Height[p] < Height[top.name]
    <2> HIDE DEF top
    <2>1. top.todo \in Seq(Named)
      BY <1>5 DEF Frame
    <2>2. 1 \in 1..Len(top.todo) /\ p = top.todo[1] /\ p \in Named
      BY <1>3, <2>1
    <2> QED
      BY <1>5, <2>2 DEF FrameSound
  <1>7. Loaded(p) <=> In(shClasses, p)
    BY DEF Loaded, In
  <1>8. /\ StackSound(shBuild, shClasses, rest) /\ Len(rest) = n
        /\ \A i \in 1..n : rest[i].name = shStack[i].name
    <2>1. StackSound(shBuild, shClasses, shStack) /\ Waiting(shStack)
      BY <1>1, <1>3 DEF Waiting
    <2>2. StackSound(shBuild, shClasses, rest) /\ SameLoads(shStack, rest)
      BY <2>1, DroppedSound, Zenon
    <2> QED
      BY <2>2 DEF SameLoads
  <1>9. \/ Loaded(p) /\ shStack' = rest /\ shOp' = shOp
        \/ ~Loaded(p) /\ shStack' = Append(rest, Activation(p)) /\ shOp' = shOp
    BY <1>6, Zenon DEF NextParent, ShTop, ShBelow, Dropped
  <1> HIDE DEF n, top, p, rest
  <1>10. rest # <<>> /\ rest[1].name = shStack[1].name
    BY <1>4, <1>8 DEF StackSound
  <1>11. /\ StackSound(shBuild, shClasses, shStack')
         /\ shStack' # <<>> /\ shStack'[1].name = shStack[1].name
    <2>1. CASE Loaded(p) /\ shStack' = rest
      BY <1>8, <1>10, <2>1
    <2>2. CASE ~Loaded(p) /\ shStack' = Append(rest, Activation(p))
      <3> DEFINE f == [name |-> p, todo |-> Parents(shBuild, p)]
      <3>1. shStack' = Append(rest, f)
        BY <2>2 DEF Activation
      <3>2. f \in Frame /\ FrameSound(shBuild, shClasses, f) /\ f.name = p
        BY <1>1, <1>6, <1>7, <2>2, ActivationSound, Zenon
      <3> HIDE DEF f
      <3>3. Height[f.name] < Height[rest[Len(rest)].name]
        <4>1. rest[Len(rest)].name = top.name
          BY <1>4, <1>8 DEF top
        <4> QED
          BY <1>6, <3>2, <4>1
      <3>4. StackSound(shBuild, shClasses, shStack') /\ shStack'[1] = rest[1]
        BY <1>8, <1>10, <3>1, <3>2, <3>3, PushedSound
      <3>5. shStack' # <<>>
        BY <1>8, <3>1, <3>2 DEF StackSound
      <3> QED
        BY <1>10, <3>4, <3>5
    <2> QED
      BY <1>9, <2>1, <2>2
  <1>12. OpSound(shBuild, shClasses, shStack', shOp')
    BY <1>1, <1>3, <1>9, <1>11 DEF OpSound
  <1> QED
    BY <1>1, <1>2, <1>11, <1>12 DEF ShInv

LEMMA DefineInv == ASSUME ShInv, Define PROVE ShInv'
  <1> DEFINE n == Len(shStack)
             c == shStack[n].name
             r == SubSeq(shStack, 1, n - 1)
             ds == Append(shClasses, c)
  <1>1. shBuild \in SUBSET Feature /\ ClassesSound(shBuild, shClasses)
        /\ MadeSound(shClasses, shMade) /\ OpSound(shBuild, shClasses, shStack, shOp)
        /\ StackSound(shBuild, shClasses, shStack)
    BY DEF ShInv
  <1>2. shStack # <<>> /\ shBuild' = shBuild /\ shOp' = shOp /\ shMade' = shMade
    BY DEF Define
  <1>3. shClasses' = ds /\ shStack' = r
    BY DEF Define, ShTop, ShBelow
  <1>4. /\ ClassesSound(shBuild, ds)
        /\ StackSound(shBuild, ds, r)
        /\ In(ds, c)
        /\ \A d : In(shClasses, d) => In(ds, d)
        /\ IF r = <<>> THEN c = shStack[1].name ELSE r[1] = shStack[1]
    BY <1>1, <1>2, PoppedSound
  <1> HIDE DEF n, c, r, ds
  <1>5. ds # <<>>
    BY <1>4 DEF In
  <1>6. OpSound(shBuild, ds, r, shOp)
    BY <1>1, <1>2, <1>4, <1>5 DEF OpSound
  <1>7. MadeSound(ds, shMade)
    BY <1>1, <1>4 DEF MadeSound
  <1> QED
    BY <1>1, <1>2, <1>3, <1>4, <1>6, <1>7 DEF ShInv

(* Only a class no build has is not found. *)
LEMMA FinishInv == ASSUME ShInv, Finish PROVE ShInv'
  <1>1. shBuild \in SUBSET Feature /\ ClassesSound(shBuild, shClasses)
        /\ MadeSound(shClasses, shMade) /\ OpSound(shBuild, shClasses, shStack, shOp)
        /\ StackSound(shBuild, shClasses, shStack)
    BY DEF ShInv
  <1>2. /\ shBuild' = shBuild /\ shClasses' = shClasses /\ shStack' = shStack
        /\ shStack = <<>> /\ shOp.kind # "done"
    BY DEF Finish
  <1> DEFINE c == shOp.class
  <1>3. Loaded(c) <=> In(shClasses, c)
    BY DEF Loaded, In
  <1>4. c \in Named \cup ShThrown \cup {NoParent} /\ (shim_or_native(shBuild, c) => In(shClasses, c))
    BY <1>1, <1>2 DEF OpSound
  <1>5. shClasses # <<>> /\ In(shClasses, shClasses[1])
    <2>1. shClasses # <<>>
      <3>1. CASE shOp.kind = "boot"
        <4>1. c = BOOT
          BY <1>1, <3>1 DEF OpSound, BOOT
        <4>2. shim_or_native(shBuild, BOOT)
          BY <1>1, TablesAssumption, Zenon DEF NamedThere, BOOT
        <4> QED
          BY <1>4, <4>1, <4>2 DEF In
      <3>2. CASE shOp.kind # "boot"
        BY <1>1, <3>2 DEF OpSound
      <3> QED
        BY <3>1, <3>2
    <2>2. 1 \in 1..Len(shClasses)
      BY <1>1, <2>1 DEF ClassesSound
    <2> QED
      BY <2>1, <2>2 DEF In
  <1>6. CASE Loaded(c)
    <2>1. shOp' = [kind |-> "done", class |-> NoParent, ok |-> TRUE]
          /\ shMade' \in {NoParent, c}
      BY <1>6 DEF Finish, ShDone
    <2>2. OpSound(shBuild, shClasses, shStack, shOp')
      BY <1>2, <1>5, <2>1 DEF OpSound
    <2>3. MadeSound(shClasses, shMade')
      BY <1>3, <1>6, <2>1 DEF MadeSound
    <2> QED
      BY <1>1, <1>2, <2>2, <2>3 DEF ShInv
  <1>7. CASE ~Loaded(c)
    <2>1. shOp' = [kind |-> "done", class |-> c, ok |-> FALSE]
          /\ shMade' \in {NoParent, shClasses[1]}
      BY <1>7 DEF Finish, NotFound
    <2>2. OpSound(shBuild, shClasses, shStack, shOp')
      <3> HIDE DEF c
      <3> QED
        BY <1>2, <1>3, <1>4, <1>5, <1>7, <2>1 DEF OpSound
    <2>3. MadeSound(shClasses, shMade')
      BY <1>5, <2>1 DEF MadeSound
    <2> QED
      BY <1>1, <1>2, <2>2, <2>3 DEF ShInv
  <1> QED
    BY <1>6, <1>7

LEMMA StutterInv == ASSUME ShInv, UNCHANGED shVars PROVE ShInv'
  BY DEF ShInv, shVars

LEMMA InvHolds == ShSpec => []ShInv
  <1>1. ASSUME ShInv, [ShNext]_shVars PROVE ShInv'
    <2>1. CASE Make
      BY <1>1, <2>1, MakeInv
    <2>2. CASE ShThrow
      BY <1>1, <2>2, ThrowInv
    <2>3. CASE static_field_get
      BY <1>1, <2>3, StaticInv
    <2>4. CASE NextParent
      BY <1>1, <2>4, NextParentInv
    <2>5. CASE Define
      BY <1>1, <2>5, DefineInv
    <2>6. CASE Finish
      BY <1>1, <2>6, FinishInv
    <2>7. CASE UNCHANGED shVars
      BY <1>1, <2>7, StutterInv
    <2> QED
      BY <1>1, <2>1, <2>2, <2>3, <2>4, <2>5, <2>6, <2>7 DEF ShNext
  <1> QED
    BY <1>1, InitInv, PTL DEF ShSpec

-----------------------------------------------------------------------------
(* In every choice of features, and whatever has been loaded before, the   *)
(* recursion of load_shim_class into the parents of a class meets no class *)
(* whose load is under way, no class gets two ids, and a load fails only   *)
(* for a class that neither SHIM_CLASSES nor a native table has.           *)
THEOREM LoadsInEveryBuildThm == ShSpec => []LoadsInEveryBuild
  <1>1. ASSUME ShInv PROVE LoadsInEveryBuild
    <2>1. ASSUME NEW i \in 1..Len(shStack), NEW j \in 1..Len(shStack),
                 shStack[i].name = shStack[j].name
          PROVE  i = j
      <3>1. /\ shStack \in Seq(Frame)
            /\ \A k, l \in 1..Len(shStack) :
                 k < l => Height[shStack[l].name] + (l - k) <= Height[shStack[k].name]
        BY <1>1 DEF ShInv, StackSound, Nearer
      <3>2. Height[shStack[i].name] \in Nat
        BY <3>1, FrameNamed
      <3>3. ~(i < j) /\ ~(j < i)
        BY <2>1, <3>1, <3>2
      <3> QED
        BY <3>1, <3>3
    <2>2. \A i, j \in 1..Len(shClasses) : shClasses[i] = shClasses[j] => i = j
      BY <1>1 DEF ShInv, ClassesSound
    <2>3. ~shOp.ok => ~shim_or_native(shBuild, shOp.class)
      BY <1>1 DEF ShInv, OpSound
    <2> QED
      BY <2>1, <2>2, <2>3 DEF LoadsInEveryBuild
  <1> QED
    BY <1>1, InvHolds, PTL

(* load_shim_class calls itself on the host's stack: in every build the    *)
(* loads nested in one another are at most as many as the hierarchy of the *)
(* tables is deep, here seven.                                             *)
THEOREM LoadsNestBounded == ShSpec => [](Len(shStack) <= MaxHeight + 1)
  <1>1. ASSUME ShInv PROVE Len(shStack) <= MaxHeight + 1
    <2> DEFINE n == Len(shStack)
    <2>1. /\ shStack \in Seq(Frame) /\ n \in Nat
          /\ \A i, j \in 1..n : i < j => Nearer(shStack[j], shStack[i], j - i)
      BY <1>1 DEF ShInv, StackSound
    <2>2. MaxHeight \in Nat
      BY DEF MaxHeight
    <2>3. CASE n <= 1
      BY <2>1, <2>2, <2>3
    <2>4. CASE n > 1
      <3>1. 1 \in 1..n /\ n \in 1..n
        <4> HIDE DEF n
        <4> QED
          BY <2>1, <2>4
      <3>2. /\ Height[shStack[1].name] \in Nat /\ Height[shStack[1].name] <= MaxHeight
            /\ Height[shStack[n].name] \in Nat
        BY <2>1, <3>1, FrameNamed
      <3>3. Height[shStack[n].name] + (n - 1) <= Height[shStack[1].name]
        BY <2>1, <2>4, <3>1 DEF Nearer
      <3> HIDE DEF n
      <3>4. n <= MaxHeight + 1
        BY <2>1, <2>2, <3>2, <3>3
      <3> QED
        BY <3>4 DEF n
    <2> QED
      BY <2>1, <2>3, <2>4
  <1> QED
    BY <1>1, InvHolds, PTL

(* On whatever object of a host class native code or the guest has made    *)
(* last, the calls that host code makes by name and descriptor find a      *)
(* method, but for those on a source that are left to the extension, in    *)
(* every choice of features and however many classes were asked for before. *)
THEOREM HostCallsResolveThm == ShSpec => []HostCallsResolve
  <1>1. ASSUME ShInv PROVE HostCallsResolve
    <2> SUFFICES ASSUME shMade \notin NeverMade \cup {NoParent}
                 PROVE  /\ \A m \in CalledOnAll : Resolves(shBuild, shMade, m)
                        /\ shMade \in DOMAIN BridgeCalls
                             /\ {"okhttp", "tachiyomi"} \subseteq shBuild
                             => \A m \in BridgeCalls[shMade] :
                                    Resolves(shBuild, shMade, m) <=> m \notin LeftToExtension
      BY DEF HostCallsResolve
    <2>1. In(shClasses, shMade)
      BY <1>1 DEF ShInv, MadeSound
    <2>2. shMade \in Named \ NeverMade /\ shim_or_native(shBuild, shMade)
      BY <1>1, <2>1 DEF ShInv, ClassesSound, In
    <2>3. CallsThere(shBuild)
      BY <1>1, TablesAssumption DEF ShInv
    <2> QED
      BY <2>2, <2>3, Zenon DEF CallsThere
  <1> QED
    BY <1>1, InvHolds, PTL

(* Once the class that native code throws is there, the next step makes an *)
(* object of that very class, and a handler for Throwable catches it.      *)
THEOREM ThrownIsCaughtThm == ShSpec => ThrownIsCaught
  <1>1. ASSUME ShInv, [ShNext]_shVars PROVE [ThrowCaught]_shVars
    <2> SUFFICES ASSUME ShNext, shOp.kind = "throw", shStack = <<>>,
                        shOp.class \notin UnknownThrown
                 PROVE  /\ shMade' = shOp.class
                        /\ Assignable(shBuild, shMade', "java/lang/Throwable")
      BY <1>1 DEF ThrowCaught
    <2>1. Finish
      BY DEF ShNext, Make, ShThrow, ShAsk, static_field_get, ShIdle, NextParent, Define
    <2>2. OpSound(shBuild, shClasses, shStack, shOp) /\ shBuild \in SUBSET Feature
      BY <1>1 DEF ShInv
    <2>3. shOp.class \in ShThrown \ UnknownThrown
      BY <2>2 DEF OpSound
    <2>4. ThrownThere(shBuild)
      BY <2>2, TablesAssumption
    <2>5. /\ shim_or_native(shBuild, shOp.class)
          /\ Assignable(shBuild, shOp.class, "java/lang/Throwable")
      BY <2>3, <2>4, Zenon DEF ThrownThere
    <2>6. In(shClasses, shOp.class)
      BY <2>2, <2>5 DEF OpSound
    <2>7. shMade' = shOp.class
      BY <2>1, <2>6 DEF Finish, Loaded, In
    <2> QED
      BY <2>5, <2>7
  <1> QED
    BY <1>1, InvHolds, PTL DEF ThrownIsCaught, ShSpec

=============================================================================
