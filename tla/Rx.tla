---------------------------------- MODULE Rx ----------------------------------
(***************************************************************************)
(* The RxJava shims (src/src/vm/native/rx.rs).  An Observable is a value     *)
(* object: the items it starts with, an error, a callable and a list of      *)
(* operators.  Operators build a new object; nothing runs until a terminal   *)
(* operation materialises it.                                               *)
(*                                                                         *)
(* An item is a sequence of strings (a list item is bracketed), an error a   *)
(* string.  RxCall(cb, x) is what the guest callback cb does with the item   *)
(* or error x: return an item, return an Observable, throw, or fail in the   *)
(* VM.                                                                      *)
(***************************************************************************)
EXTENDS Naturals, Sequences, SequencesExt

CONSTANTS
    RxCall(_, _),   \* callback, argument |-> outcome
    RxCallback,     \* callbacks that return items
    RxNestedCb,     \* callbacks that return Observables
    RxItem,         \* items to start from
    MaxRxOps        \* bound on the operators of one Observable

VARIABLES
    rxObs,   \* the Observable the guest is building
    rxOut    \* outcome of the terminal operation; RxFatal before it

rxVars == <<rxObs, rxOut>>

RxNone == "none"
RxOkItem(v)  == [k |-> "ok", v |-> v]
RxOkObs(o)   == [k |-> "ok", obs |-> o]      \* the caller gets an Observable
RxThrow(e)   == [k |-> "throw", e |-> e]
RxFatal      == [k |-> "fatal"]

RxAlloc(vs, e, c, ops) == [values |-> vs, error |-> e, callable |-> c, ops |-> ops]
RxJustValue(v)         == RxAlloc(<<v>>, RxNone, RxNone, <<>>)
RxErrorValue(e)        == RxAlloc(<<>>, e, RxNone, <<>>)
RxFrom(vs)             == RxAlloc(vs, RxNone, RxNone, <<>>)
RxFromCallable(c)      == RxAlloc(<<>>, RxNone, c, <<>>)
RxOperator(k, cb)      == [k |-> k, cb |-> cb]

\* rx_with_operator copies the payload: the receiver keeps its operators.
RxWithOperator(o, op) == [o EXCEPT !.ops = Append(@, op)]

-----------------------------------------------------------------------------
(* rx_materialize.  The state of an evaluation: items and error so far,      *)
(* whether the loop over the operators was left, whether the VM failed.      *)

Eval(vs, e)   == [values |-> vs, error |-> e, left |-> FALSE, vm |-> FALSE]
Broken(st)    == [st EXCEPT !.vm = TRUE, !.left = TRUE]
Errs(st, e)   == [st EXCEPT !.error = e]
ListItem(vs)  == <<"[">> \o FlattenSeq(vs) \o <<"]">>

\* What a callback returned, as items: itself, nothing, or what the Observable
\* it is materialises to.  Such an Observable has neither operators nor a
\* callable here (bound on nesting).
Yielded(as, v) ==
    CASE as = "item"       -> Eval(<<v>>, RxNone)
      [] as = "nothing"    -> Eval(<<>>, RxNone)
      [] as = "observable" -> Eval(v.values, v.error)

\* One turn of the loop over the items: nothing more once one has failed.
FeedItem(acc, v, cb, as) ==
    IF acc.vm \/ acc.error # RxNone THEN acc
    ELSE LET r == RxCall(cb, v) IN
         CASE r.k = "fatal" -> Broken(acc)
           [] r.k = "throw" -> Errs(acc, r.e)
           [] OTHER -> LET y == Yielded(as, r.v) IN
                       IF y.vm THEN Broken(acc)
                       ELSE IF y.error # RxNone THEN Errs(acc, y.error)
                       ELSE [acc EXCEPT !.values = @ \o y.values]

\* Feeds the items to the callback in order until one throws, and adds what
\* comes back to start.
Feed(items, cb, as, start) ==
    LET fed[i \in 0 .. Len(items)] ==
          IF i = 0 THEN Eval(start, RxNone) ELSE FeedItem(fed[i - 1], items[i], cb, as)
    IN  fed[Len(items)]

\* Mutant: the items before the error stay.
RecoverKeepingItems(st, cb, as) ==
    LET r == RxCall(cb, <<st.error>>) IN
    CASE st.error = RxNone -> st
      [] st.error # RxNone /\ r.k = "ok"    -> [Yielded(as, r.v) EXCEPT !.values = st.values \o @]
      [] st.error # RxNone /\ r.k = "throw" -> Errs(st, r.e)
      [] st.error # RxNone /\ r.k = "fatal" -> Broken(st)

\* OnErrorReturn and OnErrorResumeNext: what the callback makes of the error
\* replaces items and error.
Recover(st, cb, as) ==
    LET r == RxCall(cb, <<st.error>>) IN
    CASE st.error = RxNone -> st
      [] st.error # RxNone /\ r.k = "ok"    -> Yielded(as, r.v)
      [] st.error # RxNone /\ r.k = "throw" -> Errs(st, r.e)
      [] st.error # RxNone /\ r.k = "fatal" -> Broken(st)

Terminated(st, cb) ==
    LET r == RxCall(cb, <<"terminate">>) IN
    CASE r.k = "ok" -> st [] r.k = "throw" -> Errs(st, r.e) [] r.k = "fatal" -> Broken(st)

\* One turn of the loop.  A pending error leaves the loop at the first
\* operator that is neither an error handler nor doOnTerminate.
RxStep(op, st) ==
    IF st.left \/ st.vm THEN st ELSE
    CASE op.k = "onErrorReturn" -> Recover(st, op.cb, "item")
      [] op.k = "onErrorResume" -> Recover(st, op.cb, "observable")
      [] op.k = "doOnTerminate" -> Terminated(st, op.cb)
      [] op.k \in {"map", "flatMap", "doOnNext", "toList"} /\ st.error # RxNone ->
            [st EXCEPT !.left = TRUE]
      [] op.k = "map" /\ st.error = RxNone      -> Feed(st.values, op.cb, "item", <<>>)
      [] op.k = "flatMap" /\ st.error = RxNone  -> Feed(st.values, op.cb, "observable", <<>>)
      [] op.k = "doOnNext" /\ st.error = RxNone -> Feed(st.values, op.cb, "nothing", st.values)
      [] op.k = "toList" /\ st.error = RxNone   -> Eval(<<ListItem(st.values)>>, RxNone)

RxCalled(o) ==
    IF o.callable = RxNone THEN Eval(o.values, o.error)
    ELSE LET r == RxCall(o.callable, <<>>) IN
         CASE r.k = "ok"    -> Eval(Append(o.values, r.v), o.error)
           [] r.k = "throw" -> Eval(o.values, r.e)
           [] r.k = "fatal" -> Broken(Eval(o.values, o.error))

\* The evaluation after each of the operators, and after the last.
RxEvaluated(o) ==
    LET after[i \in 0 .. Len(o.ops)] ==
          IF i = 0 THEN RxCalled(o) ELSE RxStep(o.ops[i], after[i - 1])
    IN  after

RxMaterialize(o) == RxEvaluated(o)[Len(o.ops)]

-----------------------------------------------------------------------------
(* Terminal operations: what the caller gets, from a materialised m.        *)

Terminal(m, out) ==
    IF m.vm THEN RxFatal ELSE IF m.error # RxNone THEN RxThrow(m.error) ELSE out

RxFirst(m) ==
    Terminal(m, IF m.values = <<>> THEN RxThrow("NoSuchElementException") ELSE RxOkItem(Head(m.values)))

\* subscribe: the error callback is called with null; if it fails, the
\* error itself is thrown.  Without an error, the items go to onNext in order.
RxSubscribe(m, onNext, onError) ==
    IF m.vm THEN RxFatal
    ELSE IF m.error # RxNone
    THEN IF RxCall(onError, <<"null">>).k = "ok" THEN RxOkItem(<<>>) ELSE RxThrow(m.error)
    ELSE LET fed == Feed(m.values, onNext, "nothing", <<>>) IN
         IF fed.vm THEN RxFatal ELSE IF fed.error # RxNone THEN RxThrow(fed.error) ELSE RxOkItem(<<>>)

\* zip and combineLatest throw the errors of their inputs, first input
\* first, instead of returning an error Observable.
RxBoth(a, b, out) == Terminal(a, Terminal(b, out))

Zipped(a, b, cb) ==
    LET n    == IF Len(a.values) < Len(b.values) THEN Len(a.values) ELSE Len(b.values)
        rows == [i \in 1 .. n |-> a.values[i] \o b.values[i]]
    IN  Feed(rows, cb, "item", <<>>)

RxZip(a, b, cb) ==
    LET z == Zipped(a, b, cb) IN
    RxBoth(a, b, IF z.vm THEN RxFatal
                 ELSE IF z.error # RxNone THEN RxOkObs(RxErrorValue(z.error))
                 ELSE RxOkObs(RxFrom(z.values)))

RxCombineLatest(a, b, cb) ==
    RxBoth(a, b,
        IF a.values = <<>> \/ b.values = <<>> THEN RxOkObs(RxJustValue(<<"null">>))
        ELSE LET r == RxCall(cb, Last(a.values) \o Last(b.values)) IN
             CASE r.k = "ok"    -> RxOkObs(RxJustValue(r.v))
               [] r.k = "throw" -> RxOkObs(RxErrorValue(r.e))
               [] r.k = "fatal" -> RxFatal)

RxConcat(a, b) == RxBoth(a, b, RxOkObs(RxFrom(a.values \o b.values)))

-----------------------------------------------------------------------------
(* The guest.                                                              *)

RxPlain   == {RxJustValue(v) : v \in RxItem} \cup {RxErrorValue("e1"), RxFrom(<<>>)}
RxSources ==
    RxPlain \cup {RxFromCallable(c) : c \in RxCallback}
            \cup {RxFrom(vs) : vs \in RxItem \X RxItem}

RxOperators ==
    {RxOperator(k, cb) : k \in {"map", "doOnNext", "onErrorReturn", "doOnTerminate"}, cb \in RxCallback}
        \cup {RxOperator(k, cb) : k \in {"flatMap", "onErrorResume"}, cb \in RxNestedCb}
        \cup {RxOperator("toList", RxNone)}

RxInit ==
    /\ rxObs \in RxSources /\ rxOut = RxFatal

RxApply(op) ==
    /\ Len(rxObs.ops) < MaxRxOps
    /\ rxOut = RxFatal
    /\ rxObs' = RxWithOperator(rxObs, op)
    /\ UNCHANGED rxOut

\* A terminal operation, after which the Observable is of no interest; zip,
\* combineLatest and concat take another Observable b.
RxEnds ==
    /\ LET a == RxMaterialize(rxObs) IN
       \/ rxOut' = RxFirst(a)
       \/ \E f, g \in RxCallback : rxOut' = RxSubscribe(a, f, g)
       \/ \E b \in {RxMaterialize(o) : o \in RxPlain} :
             \/ \E f \in RxCallback : rxOut' = RxZip(a, b, f) \/ rxOut' = RxCombineLatest(a, b, f)
             \/ rxOut' = RxConcat(a, b)
    /\ rxOut = RxFatal
    /\ rxObs' = RxFrom(<<>>)

RxNext == (\E op \in RxOperators : RxApply(op)) \/ RxEnds

RxSpec == RxInit /\ [][RxNext]_rxVars

-----------------------------------------------------------------------------
(* Reference: an Observable as a stream of items that ends with "done", an   *)
(* error, or a VM failure; each operator as what it does to the stream.      *)

Stream(vs, end) == [items |-> vs, end |-> end]
Done == "done"
VmEnd == "vm"

EndOf(r) == IF r.k = "throw" THEN r.e ELSE VmEnd

\* s followed by t, if s completes.
Then(s, t) == IF s.end = Done THEN Stream(s.items \o t.items, t.end) ELSE s

\* What a callback's outcome r makes of t: t if it returned, else an end.
Replied(r, t) == IF r.k = "ok" THEN t ELSE Stream(<<>>, EndOf(r))

IsErr(end) == end \notin {Done, VmEnd}

Emits(v)     == Stream(<<v>>, Done)
OfNested(o)  == Stream(o.values, IF o.error = RxNone THEN Done ELSE o.error)

\* The stream an operator makes of the item v.
RefItem(op, v) ==
    LET r == RxCall(op.cb, v) IN
    CASE op.k = "map"      -> Replied(r, Emits(r.v))
      [] op.k = "flatMap"  -> Replied(r, OfNested(r.v))
      [] op.k = "doOnNext" -> Replied(r, Emits(v))

\* The streams of the items, one after the other.
EachItem(op, items) ==
    LET each[i \in 0 .. Len(items)] ==
          IF i = 0 THEN Stream(<<>>, Done)
          ELSE Then(each[i - 1], RefItem(op, items[i]))
    IN  each[Len(items)]

Mapped(op, s) ==
    LET m == EachItem(op, s.items) IN IF m.end = Done THEN Stream(m.items, s.end) ELSE m

RefStep(op, s) ==
    LET r == RxCall(op.cb, <<s.end>>)
        t == RxCall(op.cb, <<"terminate">>)
    IN
    CASE op.k \in {"map", "flatMap", "doOnNext"} -> Mapped(op, s)
      [] op.k = "toList" -> IF s.end = Done THEN Emits(ListItem(s.items)) ELSE Stream(<<>>, s.end)
      [] op.k = "onErrorReturn" ->
            IF IsErr(s.end) THEN Then(Stream(s.items, Done), Replied(r, Emits(r.v))) ELSE s
      [] op.k = "onErrorResume" ->
            IF IsErr(s.end) THEN Then(Stream(s.items, Done), Replied(r, OfNested(r.v))) ELSE s
      [] op.k = "doOnTerminate" ->
            IF s.end = VmEnd \/ t.k = "ok" THEN s ELSE Stream(s.items, EndOf(t))

RefStart(o) ==
    LET r == RxCall(o.callable, <<>>) IN
    IF o.callable = RxNone THEN OfNested(o) ELSE Replied(r, Emits(r.v))

\* The stream after each of the operators.
RefStreams(o) ==
    LET after[i \in 0 .. Len(o.ops)] ==
          IF i = 0 THEN RefStart(o) ELSE RefStep(o.ops[i], after[i - 1])
    IN  after

QuietTerminate(o) ==
    \A i \in DOMAIN o.ops :
        o.ops[i].k = "doOnTerminate" => RxCall(o.ops[i].cb, <<"terminate">>).k = "ok"

\* No item comes before an error that a handler meets.
ErrorsComeFirst(o) ==
    \A i \in DOMAIN o.ops :
        LET s == RefStreams(o)[i - 1] IN
        o.ops[i].k \in {"onErrorReturn", "onErrorResume"} /\ IsErr(s.end) => s.items = <<>>

(***************************************************************************)
(* An Observable that materialises without an error yields exactly the      *)
(* items of the stream it denotes: every operator applied once to every     *)
(* item and in order, every handled error replaced by what its handler made *)
(* of it.  (Not claimed: where items come before a handled error, which     *)
(* rx_materialize drops; where a doOnTerminate action throws; and where     *)
(* rx_materialize ends with an error, since the loop skips the handlers     *)
(* after the first operator it cannot run.)                                 *)
(***************************************************************************)
RxMatchesStream ==
    LET m == RxMaterialize(rxObs)
        s == RefStreams(rxObs)[Len(rxObs.ops)]
    IN  QuietTerminate(rxObs) /\ ErrorsComeFirst(rxObs) /\ ~m.vm /\ m.error = RxNone =>
            s.end = Done /\ m.values = s.items
===============================================================================
