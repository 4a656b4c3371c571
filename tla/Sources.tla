------------------------------- MODULE Sources -------------------------------
(***************************************************************************)
(* The Source handles of the typed API and the objects behind them           *)
(* (src/src/keiyoushi.rs, src/src/context.rs).  A Source is an arena id; the *)
(* only root the bridge gives the collector is last_instance, and only       *)
(* Context::call collects.  Objects are numbered in the order they are made. *)
(***************************************************************************)
EXTENDS Naturals, FiniteSets

CONSTANT MaxSources     \* bound on the source objects of one behaviour

VARIABLES
    srcKind,    \* "factory": the apk has createSources(); "single": one source class
    srcHeld,    \* ids of all the Source values handed to the host
    srcLatest,  \* those of the latest sources() call
    srcAlive,   \* source objects the heap still has
    srcLast     \* sources reachable from last_instance, and whether it is one itself

srcVars == <<srcKind, srcHeld, srcLatest, srcAlive, srcLast>>

SrcInit ==
    /\ srcKind \in {"factory", "single"}
    /\ srcHeld = {} /\ srcLatest = {} /\ srcAlive = {}
    /\ srcLast = [keeps |-> {}, self |-> FALSE]

Ids(n) == Cardinality(srcHeld) + 1 .. Cardinality(srcHeld) + n

\* Context::gc before the constructor runs.
Collected == srcLast.keeps

\* sources() with a factory: the list createSources() returns becomes the
\* last instance and keeps its n sources.
SrcFactory(n) ==
    /\ srcKind = "factory" /\ Cardinality(srcHeld) + n <= MaxSources
    /\ srcHeld' = srcHeld \cup Ids(n)
    /\ srcLatest' = Ids(n)
    /\ srcAlive' = Collected \cup Ids(n)
    /\ srcLast' = [keeps |-> Ids(n), self |-> FALSE]
    /\ UNCHANGED srcKind

\* sources() whose constructor or createSources() fails: the heap was
\* collected, and the factory is the last instance.
SrcFactoryFails ==
    /\ srcKind = "factory"
    /\ srcLatest' = {}
    /\ srcAlive' = Collected
    /\ srcLast' = [keeps |-> {}, self |-> FALSE]
    /\ UNCHANGED <<srcKind, srcHeld>>

\* sources() without a factory: the constructor runs on the last instance
\* when that is a source already, else on a fresh object.
SrcSingle ==
    /\ srcKind = "single"
    /\ IF srcLast.self
       THEN /\ srcLatest' = srcLast.keeps
            /\ UNCHANGED <<srcHeld, srcLast>>
       ELSE /\ Cardinality(srcHeld) < MaxSources
            /\ srcHeld' = srcHeld \cup Ids(1)
            /\ srcLatest' = Ids(1)
            /\ srcLast' = [keeps |-> Ids(1), self |-> TRUE]
    /\ srcAlive' = Collected \cup srcLatest'
    /\ UNCHANGED srcKind

\* Mutant: invoke_on collects the heap first, as Context::call does.
SrcInvokeCollecting(s) ==
    /\ s \in srcHeld \cap srcAlive
    /\ srcAlive' = Collected
    /\ srcLast' = [keeps |-> {s}, self |-> TRUE]
    /\ UNCHANGED <<srcKind, srcHeld, srcLatest>>

\* invoke_on(source) that succeeds: the source is the last instance.
SrcInvoke(s) ==
    /\ s \in srcHeld \cap srcAlive
    /\ srcLast' = [keeps |-> {s}, self |-> TRUE]
    /\ UNCHANGED <<srcKind, srcHeld, srcLatest, srcAlive>>

\* invoke_on(request, builder, client, call, update object): the last step of
\* image_data and of the manga_update operations.
SrcInvokeOther ==
    /\ srcLast' = [keeps |-> {}, self |-> FALSE]
    /\ UNCHANGED <<srcKind, srcHeld, srcLatest, srcAlive>>

SrcNext ==
    \/ \E n \in 1 .. 2 : SrcFactory(n)
    \/ SrcFactoryFails
    \/ SrcSingle
    \/ \E s \in srcHeld : SrcInvoke(s)
    \/ SrcInvokeOther

SrcSpec == SrcInit /\ [][SrcNext]_srcVars

(***************************************************************************)
(* The sources returned by the latest sources() call are live objects,      *)
(* whatever operations ran on them or on others since: of the operations of *)
(* the typed API only sources() collects the heap.                          *)
(***************************************************************************)
LatestHandlesLive == srcLatest \subseteq srcAlive

(***************************************************************************)
(* What the doc of Source promises ("arena id, stable for the context       *)
(* lifetime"): a handle once given out keeps denoting its source.           *)
(***************************************************************************)
AllHandlesLive == srcHeld \subseteq srcAlive
==============================================================================
