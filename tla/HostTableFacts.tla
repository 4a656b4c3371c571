--------------------------- MODULE HostTableFacts ---------------------------
(***************************************************************************)
(* Facts of the tables the program is built with, in each of the builds    *)
(* the six features allow.  The proofs about loading rest on them and on    *)
(* nothing else of the tables; TLC evaluates them.                         *)
(***************************************************************************)
EXTENDS HostTables

(* How far a class is below Object, which a class that a build does not    *)
(* declare extends.                                                        *)
Height[c \in Named] ==
    LET ps == Parents(Feature, c) IN
    IF c = "java/lang/Object" THEN 0
    ELSE IF ps = <<>> THEN 1
    ELSE 1 + CHOOSE h \in {Height[ps[i]] : i \in 1..Len(ps)} :
               \A i \in 1..Len(ps) : Height[ps[i]] <= h

MaxHeight == 6

(* A class a build has extends classes that it has, and none in a circle.  *)
ParentsThere(b) ==
    \A c \in Named : shim_or_native(b, c) =>
        /\ Parents(b, c) \in Seq(Named)
        /\ \A i \in 1..Len(Parents(b, c)) :
             LET p == Parents(b, c)[i] IN
             /\ shim_or_native(b, p)
             /\ Height[p] < Height[c]

(* The calls of host code resolve on every class a build has, but for those *)
(* that only an extension answers.                                          *)
CallsThere(b) ==
    \A c \in Named \ NeverMade : shim_or_native(b, c) =>
        /\ \A m \in CalledOnAll : Resolves(b, c, m)
        /\ c \in DOMAIN BridgeCalls /\ {"okhttp", "tachiyomi"} \subseteq b
             => \A m \in BridgeCalls[c] : Resolves(b, c, m) <=> m \notin LeftToExtension

(* What native code throws is there, and below Throwable. *)
ThrownThere(b) ==
    \A c \in ShThrown \ UnknownThrown :
        shim_or_native(b, c) /\ Assignable(b, c, "java/lang/Throwable")

(* Only named classes are there; the first class and those of the static    *)
(* fields are named.                                                       *)
NamedThere(b) ==
    /\ \A c \in ShThrown : shim_or_native(b, c) => c \in Named
    /\ \A c \in Named : ShimDef(b, c).statics \subseteq Named
    /\ "java/lang/String" \in Named /\ shim_or_native(b, "java/lang/String")

ASSUME TablesAssumption ==
    /\ NoParent \notin Named
    /\ \A c \in Named : Height[c] \in 0..MaxHeight
    /\ \A b \in SUBSET Feature :
         ParentsThere(b) /\ CallsThere(b) /\ ThrownThere(b) /\ NamedThere(b)
=============================================================================
