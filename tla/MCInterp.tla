------------------------------ MODULE MCInterp ------------------------------
(***************************************************************************)
(* Interp for TLC: a family of two-method guest programs.  main has two    *)
(* free instructions, a return and a handler; a try item over one or both  *)
(* of the first two; helper and the initialiser vary in what they throw.   *)
(***************************************************************************)
EXTENDS Interp, TLC

CONSTANTS e1, e2, main, helper, init, nat, declared, abstract, K

MCExc == {e1, e2}
MCGuest == {main, helper, init}
MCNativeBacked == {nat}
MCDeclared == {declared}
MCAbstract == {abstract}
MCClass == {K}
MCClinitOf == K :> init

I(op) == [op |-> op, to |-> 1, m |-> None, e |-> None, c |-> None]
Inv(m) == [I("invoke") EXCEPT !.m = m]
Static(m) == [I("invokeStatic") EXCEPT !.m = m, !.c = K]
SGet == [I("sget") EXCEPT !.c = K]
Raise(op, e) == [I(op) EXCEPT !.e = e]

Try(start, end, handlers, all) ==
    [start |-> start, end |-> end, handlers |-> handlers, all |-> all]
On(e, addr) == [known |-> TRUE, types |-> {e}, addr |-> addr]
Missing(addr) == [known |-> FALSE, types |-> {}, addr |-> addr]

Code(m, first, second, entry, tries) ==
    [insns |-> <<first, second, I("return"), entry, second, I("return")>>,
     tries |-> tries]

Bodies(firsts, seconds, entries, tries) ==
    {Code(main, a, b, h, t) : a \in firsts, b \in seconds, h \in entries, t \in tries}

(* One level of catching in helper, which either throws or calls on. *)
HelperBodies ==
    {[insns |-> <<a, I("return"), I("moveException"), b, I("return")>>,
      tries |-> t] :
        a \in {Raise("throw", e2), Inv(nat), I("fail")},
        b \in {Raise("throw", e1)},
        t \in {<<>>, <<Try(1, 2, <<On(e2, 3)>>, 0)>>}}

InitBodies == {[insns |-> <<a, I("return")>>, tries |-> <<>>] :
                 a \in {I("plain"), Raise("throw", e1), SGet}}

Of(mains, helpers, inits) ==
    {main :> a @@ helper :> b @@ init :> c : a \in mains, b \in helpers, c \in inits}

MainTries ==
    {<<>>,
     <<Try(1, 2, <<On(e1, 4)>>, 0), Try(1, 3, <<>>, 4)>>,
     <<Try(1, 2, <<On(e2, 4), Missing(4)>>, 0)>>}

Take == {I("moveException")}
Skip == {I("plain")}

(* Every way to throw, call and return, one nested level. *)
UnwindPrograms ==
    Of(Bodies({Raise("trap", e1), Inv(helper), Inv(nat), Static(helper)},
              {Raise("throw", e2), I("if")}, Take, MainTries),
       HelperBodies, InitBodies)

(* Self and mutual recursion, loops, calls without code. *)
LoopPrograms ==
    Of(Bodies({I("goto"), Inv(main), Inv(nat), SGet},
              {I("goto"), Inv(declared), Inv(abstract), Static(declared)}, Take,
              {<<>>, <<Try(1, 2, <<>>, 4)>>}),
       {[insns |-> <<Inv(main)>>, tries |-> <<>>]},
       {[insns |-> <<Static(main)>>, tries |-> <<>>]})

AllPrograms == UnwindPrograms \cup LoopPrograms

(* d8 leaves move-exception out when the handler ignores the exception. *)
SkipPrograms ==
    Of(Bodies({Raise("throw", e1)}, {Inv(helper)}, Skip,
              {<<Try(1, 2, <<>>, 4), Try(4, 6, <<>>, 4)>>}),
       {[insns |-> <<Raise("throw", e2)>>, tries |-> <<>>]},
       {[insns |-> <<I("return")>>, tries |-> <<>>]})

(* A native-backed method called by the host, again and again. *)
PlainPrograms == Of(Bodies({I("plain")}, {I("plain")}, Take, {<<>>}),
                    {[insns |-> <<I("return")>>, tries |-> <<>>]},
                    {[insns |-> <<I("return")>>, tries |-> <<>>]})

=============================================================================
