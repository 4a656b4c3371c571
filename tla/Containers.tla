------------------------------ MODULE Containers ------------------------------
(***************************************************************************)
(* The java.util containers (src/src/vm/native/java/util): ArrayList,        *)
(* HashSet, HashMap and ArrayDeque are vectors, an iterator is a container   *)
(* and a position, a map entry is a map and a position.                     *)
(*                                                                         *)
(* equals, hashCode, compareTo and compare are guest code, and may use the   *)
(* container they are called for.  A native that calls them works on a copy  *)
(* of the vector it took first (ContBegin) and writes its result afterwards  *)
(* (ListCommit, SetCommit, MapCommit); the operations the callbacks make     *)
(* happen in between.  Equal elements are one value of Elem here, and what   *)
(* an operation returns is left out where it is not one of its errors.       *)
(*                                                                         *)
(* equals and hashCode return here.  java_equals answers false and java_hash *)
(* 0 when they fail, whatever the error: an equal key is then not found.     *)
(***************************************************************************)
EXTENDS Integers, Sequences, SequencesExt, FiniteSets, Vectors

CONSTANTS
    Elem,       \* elements, keys and values
    MaxItems,   \* bound on the length of a container
    MaxNested   \* bound on operations inside one another

ASSUME ElemAssumption == IsFiniteSet(Elem)

VARIABLES
    cKind,     \* "list", "set", "map" or "deque"
    cItems,    \* its vector; a map has pairs <<key, value>>
    cCalls,    \* operations waiting for callbacks, innermost last: [op, arg, snap]
    cIter,     \* an iterator: [on, idx, seen], seen being history; NoIter
    cEntry,    \* a Map.Entry: [idx, key], key being history; NoEntry
    cOut       \* "ok", an exception of the last operation itself, or "panic"

cVars == <<cKind, cItems, cCalls, cIter, cEntry, cOut>>

NullRef  == "null"
NoIter   == [on |-> FALSE, idx |-> 0, seen |-> <<>>]
NoEntry  == [idx |-> 0, key |-> NullRef]

Everything == SetToSeq({<<k, k>> : k \in Elem})
One == {<<x>> : x \in Elem}     \* arguments of the bulk operations
Keys(m) == [i \in DOMAIN m |-> m[i][1]]

\* The vector becomes v.  The history of an iterator or an entry starts anew
\* when the elements (for an entry, the keys) change other than at the end.
Becomes(v) ==
    /\ cItems' = v
    /\ cIter' = IF IsPrefix(cItems, v) THEN cIter ELSE NoIter
    /\ cEntry' = IF cKind = "map" /\ ~IsPrefix(Keys(cItems), Keys(v)) THEN NoEntry ELSE cEntry
    /\ UNCHANGED cKind

\* An operation without callbacks.
Does(v)   == Becomes(v) /\ cOut' = "ok" /\ UNCHANGED cCalls

\* An exception of the operation itself changes nothing; it is shown outside
\* callbacks only.
Throws(e) == cCalls = <<>> /\ cOut' = e /\ UNCHANGED <<cKind, cItems, cCalls, cIter, cEntry>>

\* Positions are 0-based in the code.
InBounds(i) == i \in 0 .. Len(cItems) - 1

-----------------------------------------------------------------------------
(* ArrayList and Collections.                                              *)

ListGet(i)         == IF InBounds(i) THEN Does(cItems) ELSE Throws("IndexOutOfBounds")
ListSet(i, x)      == IF InBounds(i) THEN Does([cItems EXCEPT ![i + 1] = x]) ELSE Throws("IndexOutOfBounds")
ListAdd(x)         == Does(Append(cItems, x))
ListAddAt(i, x)    == IF i \in 0 .. Len(cItems) THEN Does(InsertAt(cItems, i + 1, x)) ELSE Throws("IndexOutOfBounds")
ListRemoveAt(i)    == IF InBounds(i) THEN Does(RemoveAt(cItems, i + 1)) ELSE Throws("IndexOutOfBounds")

\* addAll(int, coll) is registered to the native of addAll(coll), which takes
\* the int for the collection and fails.
ListAddAll(xs)     == Does(cItems \o xs)
ListAddAllAt(xs)   == Throws("NullPointer")

Clear              == Does(<<>>)
CollectionsReverse == Does(Reverse(cItems))

\* Collections.addAll extends a Set as it extends a List: duplicates stay.
CollectionsAddAll(xs) == Does(cItems \o xs)

-----------------------------------------------------------------------------
(* ArrayDeque.                                                             *)

DequeAddFirst(x)  == Does(<<x>> \o cItems)
DequeAddLast(x)   == Does(Append(cItems, x))
DequeRemoveFirst  == IF cItems = <<>> THEN Throws("NoSuchElement") ELSE Does(Tail(cItems))
DequeRemoveLast   == IF cItems = <<>> THEN Throws("NoSuchElement") ELSE Does(Front(cItems))

-----------------------------------------------------------------------------
(* What the operations with callbacks compute from their copy.             *)

\* First position of x in s, 0 if there is none.
FirstAt(s, x) ==
    IF x \in ToSet(s) THEN CHOOSE i \in DOMAIN s : s[i] = x /\ \A j \in 1 .. i - 1 : s[j] # x ELSE 0

MapFind(m, k) == FirstAt(Keys(m), k)

\* map_put replaces the value in place.
MapPut(m, k, v) ==
    IF MapFind(m, k) = 0 THEN Append(m, <<k, v>>)
    ELSE [i \in DOMAIN m |-> IF m[i][1] = k THEN <<m[i][1], v>> ELSE m[i]]

MapPutAll(m, src) ==
    LET acc[i \in 0 .. Len(src)] ==
          IF i = 0 THEN m ELSE MapPut(acc[i - 1], src[i][1], src[i][2])
    IN  acc[Len(src)]

\* map_remove(k) and map_remove(k, v): the first pair with the key, if its
\* value is the wanted one.
MapRemove(m, k, want) ==
    LET i == MapFind(m, k) IN
    IF i = 0 \/ (want # NullRef /\ m[i][2] # want) THEN m ELSE RemoveAt(m, i)

ItemsWithout(s, xs) == Keeping(s, ToSet(s) \ ToSet(xs))
Within(s, xs)       == Keeping(s, ToSet(s) \cap ToSet(xs))

SetAddAll(s, xs) ==
    LET acc[i \in 0 .. Len(xs)] ==
          IF i = 0 THEN s
          ELSE IF xs[i] \in ToSet(acc[i - 1]) THEN acc[i - 1] ELSE Append(acc[i - 1], xs[i])
    IN  acc[Len(xs)]

\* Any order of the elements: what a sort with some comparator makes of s.
Sorted(s) == {[i \in DOMAIN s |-> s[p[i]]] : p \in {f \in [DOMAIN s -> DOMAIN s] : IsInjective(f)}}

-----------------------------------------------------------------------------
(* The operations with callbacks.                                          *)

\* The operation starts: the native copies the vector and calls the guest.
ContBegin(op, arg) ==
    /\ Len(cCalls) < MaxNested
    /\ cCalls' = Append(cCalls, [op |-> op, arg |-> arg, snap |-> cItems])
    /\ cOut' = "ok"
    /\ UNCHANGED <<cKind, cItems, cIter, cEntry>>

Call == Last(cCalls)
Snap == Call.snap
Arg  == Call.arg

\* The operation ends, storing v or leaving the vector alone.
Stores(v) == Becomes(v) /\ cOut' = "ok" /\ cCalls' = Front(cCalls)
Ends(out) == cOut' = out /\ cCalls' = Front(cCalls) /\ UNCHANGED <<cKind, cItems, cIter, cEntry>>

\* list_remove_obj and set_remove look x up in their copy and remove at that
\* position from the vector as it is now: Vec::remove panics past the end.
RemoveFound(x) ==
    LET i == FirstAt(Snap, x) IN
    \/ i = 0 /\ Ends("ok")
    \/ i \in DOMAIN cItems /\ Stores(RemoveAt(cItems, i))
    \/ i > Len(cItems) /\ Ends("panic")

ListCommit ==
    \/ Call.op = "remove" /\ RemoveFound(Arg)
    \/ Call.op = "removeAll" /\ Stores(ItemsWithout(Snap, Arg))
    \/ Call.op = "retainAll" /\ Stores(Within(Snap, Arg))
    \/ Call.op = "sort" /\ \E v \in Sorted(Snap) : Stores(v)

\* set_add tests its copy and pushes onto the vector as it is now.
SetCommit ==
    \/ Call.op = "add" /\ Arg \in ToSet(Snap) /\ Ends("ok")
    \/ Call.op = "add" /\ Arg \notin ToSet(Snap) /\ Stores(Append(cItems, Arg))
    \/ Call.op = "remove" /\ RemoveFound(Arg)
    \/ Call.op = "addAll" /\ Stores(SetAddAll(Snap, Arg))

\* Mutant: put of a new key pushes onto the vector as it is now.
MapCommitLive ==
    \/ Call.op = "put" /\ MapFind(Snap, Arg[1]) = 0 /\ Stores(Append(cItems, Arg))
    \/ Call.op = "put" /\ MapFind(Snap, Arg[1]) # 0 /\ Stores(MapPut(Snap, Arg[1], Arg[2]))

\* The map operations store what they made of their copy: what the callbacks
\* did to the map meanwhile is overwritten.
MapCommit ==
    \/ Call.op = "put" /\ Stores(MapPut(Snap, Arg[1], Arg[2]))
    \/ Call.op = "putIfAbsent" /\ MapFind(Snap, Arg[1]) = 0 /\ Stores(Append(Snap, Arg))
    \/ Call.op = "putIfAbsent" /\ MapFind(Snap, Arg[1]) # 0 /\ Ends("ok")
    \/ Call.op = "putAll" /\ Stores(MapPutAll(Snap, Arg))
    \/ Call.op = "remove" /\ Stores(MapRemove(Snap, Arg[1], Arg[2]))

\* A comparator's exception ends the sort, and nothing is stored.
ComparatorThrows == cCalls # <<>> /\ Call.op = "sort" /\ Ends("ok")

-----------------------------------------------------------------------------
(* Iterators and entries.                                                  *)

\* iterator() is listIterator(0).  keySet(), values() and entrySet() of a map
\* copy it, so only lists and sets have live iterators.
IterNew(i) ==
    /\ cCalls = <<>>                    \* bound: made outside callbacks
    /\ cIter' = [on |-> TRUE, idx |-> i, seen |-> SubSeq(cItems, 1, i)]
    /\ cOut' = "ok" /\ UNCHANGED <<cKind, cItems, cCalls, cEntry>>

\* Mutant: next() returns the element after the one that is due.
IterNextSkipping ==
    /\ cIter.on
    /\ IF cIter.idx + 1 < Len(cItems)
       THEN /\ cIter' = [cIter EXCEPT !.idx = @ + 1, !.seen = Append(@, cItems[cIter.idx + 2])]
            /\ cOut' = "ok" /\ UNCHANGED <<cKind, cItems, cCalls, cEntry>>
       ELSE Throws("NoSuchElement")

IterNext ==
    /\ cIter.on
    /\ IF cIter.idx < Len(cItems)
       THEN /\ cIter' = [cIter EXCEPT !.idx = @ + 1, !.seen = Append(@, cItems[cIter.idx + 1])]
            /\ cOut' = "ok" /\ UNCHANGED <<cKind, cItems, cCalls, cEntry>>
       ELSE Throws("NoSuchElement")

IterRemove == cIter.on /\ Throws("UnsupportedOperation")

\* An entry from entrySet(): position i of the map.
EntryNew(i) ==
    /\ cCalls = <<>>                    \* bound: made outside callbacks
    /\ i \in DOMAIN cItems
    /\ cEntry' = [idx |-> i, key |-> cItems[i][1]]
    /\ cOut' = "ok" /\ UNCHANGED <<cKind, cItems, cCalls, cIter>>

EntryKey == IF cEntry.idx \in DOMAIN cItems THEN cItems[cEntry.idx][1] ELSE NullRef

\* setValue past the end changes nothing.
EntrySetValue(v) ==
    /\ cEntry # NoEntry
    /\ Does(IF cEntry.idx \in DOMAIN cItems THEN [cItems EXCEPT ![cEntry.idx][2] = v] ELSE cItems)

-----------------------------------------------------------------------------
Room == Len(cItems) < MaxItems

\* A container is new and empty, or made from a collection: a set made from
\* a list keeps the list's duplicates (set_init).
ContInit ==
    /\ cKind \in {"list", "set", "map", "deque"}
    /\ cItems \in CASE cKind = "set"  -> {<<>>} \cup {<<x, x>> : x \in Elem}
                    [] cKind = "list" -> {<<>>} \cup One
                    [] OTHER          -> {<<>>}
    /\ cCalls = <<>> /\ cIter = NoIter /\ cEntry = NoEntry /\ cOut = "ok"

ListOps ==
    \/ \E i \in -1 .. Len(cItems) :
          \/ ListGet(i) \/ ListRemoveAt(i)
          \/ \E x \in Elem : ListSet(i, x) \/ (Room /\ ListAddAt(i, x))
    \/ \E x \in Elem : (Room /\ ListAdd(x)) \/ ContBegin("remove", x)
    \/ Room /\ \E xs \in One : ListAddAll(xs) \/ ListAddAllAt(xs)
    \/ \E xs \in One : ContBegin("removeAll", xs) \/ ContBegin("retainAll", xs)
    \/ ContBegin("sort", NullRef) \/ CollectionsReverse \/ Clear
    \/ \E i \in 0 .. Len(cItems) : IterNew(i)
    \/ cCalls # <<>> /\ ListCommit

SetOps ==
    \/ \E x \in Elem : ContBegin("add", x) \/ ContBegin("remove", x)
    \/ \E xs \in One : ContBegin("addAll", xs) \/ (Room /\ CollectionsAddAll(xs))
    \/ Clear \/ IterNew(0)
    \/ cCalls # <<>> /\ (Room \/ Call.op # "add") /\ SetCommit

MapOps ==
    \/ \E k \in Elem : ContBegin("put", <<k, k>>) \/ ContBegin("putIfAbsent", <<k, k>>) \/ EntrySetValue(k)
    \/ ContBegin("putAll", Everything)
    \/ \E k \in Elem : ContBegin("remove", <<k, k>>) \/ ContBegin("remove", <<k, NullRef>>)
    \/ \E i \in 1 .. Cardinality(Elem) : EntryNew(i)
    \/ Clear
    \/ cCalls # <<>> /\ MapCommit

DequeOps ==
    \/ \E x \in Elem : Room /\ (DequeAddFirst(x) \/ DequeAddLast(x))
    \/ DequeRemoveFirst \/ DequeRemoveLast \/ Clear

\* After a panic nothing more happens.  An exception an operation itself
\* throws has changed nothing, and what may follow it is what may follow the
\* state before: the behaviour ends there too.
ContNext ==
    /\ cOut = "ok"
    /\ \/ cKind = "list" /\ ListOps
       \/ cKind = "set" /\ SetOps
       \/ cKind = "map" /\ MapOps
       \/ cKind = "deque" /\ DequeOps
       \/ IterNext \/ IterRemove \/ ComparatorThrows

ContSpec == ContInit /\ [][ContNext]_cVars

-----------------------------------------------------------------------------
(***************************************************************************)
(* A map has one entry per key, even when equals or hashCode of a key use   *)
(* the map they are called for, as long as they return: every map operation *)
(* stores a vector it computed from one copy, so nested operations may be   *)
(* lost but never mixed.                                                    *)
(***************************************************************************)
MapKeysDistinct == cKind = "map" => IsInjective(Keys(cItems))

(***************************************************************************)
(* An iterator has returned the elements of its container, in order and     *)
(* once each, and a map entry still denotes the key it was made for, as     *)
(* long as the container has only grown at its end since (for an entry,     *)
(* values may have changed too): however the operations in between nest.    *)
(***************************************************************************)
PositionsStand ==
    /\ cIter.on => Len(cIter.seen) = cIter.idx /\ IsPrefix(cIter.seen, cItems)
    /\ cEntry # NoEntry => EntryKey = cEntry.key
===============================================================================
