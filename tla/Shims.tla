------------------------------- MODULE Shims -------------------------------
(***************************************************************************)
(* The classes the host provides, with the tables the program is built     *)
(* with: how one is loaded on demand together with everything it extends,  *)
(* what happens when native code makes or throws an object of a class by    *)
(* name, and which class answers a call on that object.  A build compiles  *)
(* in the entries of the features it selects.                              *)
(*                                                                         *)
(* No dex file declares any of these classes here, and the host has        *)
(* registered nothing: ClassTable has both, over abstract tables.          *)
(***************************************************************************)
EXTENDS HostTables

CONSTANTS
    Builds,     \* the feature selections to explore
    MaxAsked    \* bound on the classes asked for after the start

ASSUME BuildsAssumption == Builds \subseteq SUBSET Feature

VARIABLES
    shBuild,    \* the features of this build
    shClasses,  \* the names of the loaded classes; a class's id is its index less 1
    shStack,    \* the loads under way, each with the parents it still needs
    shOp,       \* what the innermost load is for
    shMade,     \* the class of the object made last
    shAsked     \* how many classes have been asked for

shVars == <<shBuild, shClasses, shStack, shOp, shMade, shAsked>>

-----------------------------------------------------------------------------
(* Loading. *)
Loaded(c) == \E i \in 1..Len(shClasses) : shClasses[i] = c
Activation(c) == [name |-> c, todo |-> Parents(shBuild, c)]

ShIdle == shStack = <<>> /\ shOp.kind = "done"
ShDone == [kind |-> "done", class |-> NoParent, ok |-> TRUE]
NotFound(c) == [kind |-> "done", class |-> c, ok |-> FALSE]

(* Vm::new makes java.lang.String the first class asked for; with it comes *)
(* Object, which gets id 0.                                                *)
ShInit ==
    /\ shBuild \in Builds
    /\ shClasses = <<>>
    /\ shStack = <<Activation("java/lang/String")>>
    /\ shOp = [kind |-> "boot", class |-> "java/lang/String", ok |-> TRUE]
    /\ shMade = NoParent
    /\ shAsked = 0

(* ensure_class_by_desc for a request: a loaded class is there already.     *)
ShAsk(kind, c) ==
    /\ ShIdle
    /\ shAsked < MaxAsked
    /\ shAsked' = shAsked + 1
    /\ shOp' = [kind |-> kind, class |-> c, ok |-> TRUE]
    /\ shStack' = IF Loaded(c) \/ ~shim_or_native(shBuild, c) THEN <<>>
                  ELSE <<Activation(c)>>
    /\ UNCHANGED <<shBuild, shClasses, shMade>>

(* Guest code instantiates a class, or native code does with alloc. *)
Make == \E c \in Named : ShAsk("make", c)

(* Native code throws with throwable_of. *)
ShThrow == \E c \in ShThrown : ShAsk("throw", c)

(* The first read of a static field makes its value. *)
static_field_get ==
    /\ ShIdle
    /\ shMade # NoParent
    /\ \E c \in ShimDef(shBuild, shMade).statics :
         /\ shOp' = [kind |-> "static", class |-> c, ok |-> TRUE]
         /\ shStack' = IF Loaded(c) \/ ~shim_or_native(shBuild, c) THEN <<>>
                       ELSE <<Activation(c)>>
    /\ UNCHANGED <<shBuild, shClasses, shMade, shAsked>>

ShTop == shStack[Len(shStack)]
ShBelow == SubSeq(shStack, 1, Len(shStack) - 1)

(* The next parent of the innermost load: present, loaded first, or the    *)
(* end of every load under way.                                            *)
NextParent ==
    /\ shStack # <<>>
    /\ ShTop.todo # <<>>
    /\ LET p == Head(ShTop.todo)
           rest == Append(ShBelow, [ShTop EXCEPT !.todo = Tail(@)])
       IN  \/ /\ Loaded(p)
              /\ shStack' = rest
              /\ UNCHANGED shOp
           \/ /\ ~Loaded(p) /\ shim_or_native(shBuild, p)
              /\ shStack' = Append(rest, Activation(p))
              /\ UNCHANGED shOp
           \/ /\ ~Loaded(p) /\ ~shim_or_native(shBuild, p)
              /\ shStack' = <<>>
              /\ shOp' = [shOp EXCEPT !.ok = FALSE]
    /\ UNCHANGED <<shBuild, shClasses, shMade, shAsked>>

(* The rest of load_shim_class, once the parents are there. *)
Define ==
    /\ shStack # <<>>
    /\ ShTop.todo = <<>>
    /\ shClasses' = Append(shClasses, ShTop.name)
    /\ shStack' = ShBelow
    /\ UNCHANGED <<shBuild, shOp, shMade, shAsked>>

(* alloc passes the failure of the load on; throwable_of makes its object  *)
(* all the same, of class 0.                                               *)
Finish ==
    /\ shStack = <<>>
    /\ shOp.kind # "done"
    /\ IF Loaded(shOp.class)
         THEN /\ shOp' = ShDone
              /\ shMade' = IF shOp.kind = "boot" THEN NoParent ELSE shOp.class
         ELSE /\ shOp' = NotFound(shOp.class)
              /\ shMade' = IF shOp.kind = "throw" THEN shClasses[1] ELSE NoParent
    /\ UNCHANGED <<shBuild, shClasses, shStack, shAsked>>

ShNext == Make \/ ShThrow \/ static_field_get \/ NextParent \/ Define \/ Finish

ShSpec == ShInit /\ [][ShNext]_shVars

-----------------------------------------------------------------------------
(* Loading a class never meets a class whose load is under way, which      *)
(* load_shim_class would load again without end, loads no class twice, and *)
(* never fails for want of a parent: every build that has a class has what *)
(* it extends.                                                             *)
LoadsInEveryBuild ==
    /\ \A i, j \in 1..Len(shStack) :
         shStack[i].name = shStack[j].name => i = j
    /\ \A i, j \in 1..Len(shClasses) : shClasses[i] = shClasses[j] => i = j
    /\ ~shOp.ok => ~shim_or_native(shBuild, shOp.class)

(* A call that host code makes by name and descriptor finds a method on    *)
(* every object of a host class it may be made on, and the calls on a      *)
(* source that find none are those left to the extension: a table that     *)
(* lost or misspelt an entry shows only when the call is made.             *)
HostCallsResolve ==
    shMade \notin NeverMade \cup {NoParent} =>
      /\ \A m \in CalledOnAll : Resolves(shBuild, shMade, m)
      /\ shMade \in DOMAIN BridgeCalls /\ {"okhttp", "tachiyomi"} \subseteq shBuild
           => \A m \in BridgeCalls[shMade] :
                  Resolves(shBuild, shMade, m) <=> m \notin LeftToExtension

ThrowCaught ==
    shOp.kind = "throw" /\ shStack = <<>> /\ shOp.class \notin UnknownThrown =>
        shMade' = shOp.class /\ Assignable(shBuild, shMade', "java/lang/Throwable")

(* What native code throws is an object of the class it names, and a       *)
(* handler for Throwable catches it, in every build and whatever has been  *)
(* loaded before.  The two classes no table has are not covered: they are  *)
(* thrown as an Object.                                                    *)
ThrownIsCaught == [][ThrowCaught]_shVars
=============================================================================
