---------------------------- MODULE MCClassTable ----------------------------
(***************************************************************************)
(* ClassTable for TLC: classes A and B, B mostly a subclass of A, and two  *)
(* interfaces I and J of which J may extend I, be a shim, or be missing    *)
(* from the dex until the host registers a native for it.                  *)
(***************************************************************************)
EXTENDS ClassTable, HostTableFacts, TLC

CONSTANTS A, B, I, J, m, n, x, y

MCDesc == {Object, A, B, I, J}

Code == [kind |-> "code", static |-> FALSE]
Jni == [kind |-> "jni", static |-> FALSE]
NoMethods == [k \in Key |-> None]
Only(k, i) == [NoMethods EXCEPT ![k] = i]

Bare(src) == [src |-> src, super |-> None, ifaces |-> <<>>, iface |-> FALSE,
              fields |-> <<>>, methods |-> NoMethods, const |-> None,
              natives |-> <<>>]
Interface(src) == [Bare(src) EXCEPT !.iface = TRUE]

ObjectShim == Bare("shim")
InterfaceI == [Interface("dex") EXCEPT !.methods = Only(m, Code)]
InterfacesJ ==
    {[Interface("dex") EXCEPT !.ifaces = <<I>>, !.methods = Only(n, Code)],
     [Interface("shim") EXCEPT !.natives = <<[key |-> m, static |-> FALSE]>>],
     Bare("none")}

ClassesA(fields) ==
    {[Bare("dex") EXCEPT !.super = s, !.ifaces = is, !.fields = fs, !.const = c] :
       s \in {Object, B}, is \in {<<>>, <<I>>, <<I, J>>}, fs \in fields,
       c \in {None, B, J}}
ClassesB(fields) ==
    {[Bare("dex") EXCEPT !.super = A, !.ifaces = is, !.fields = fs, !.methods = ms] :
       is \in {<<>>, <<J>>}, fs \in fields,
       ms \in {Only(n, Jni), Only(m, Code)}}

Of(as, bs) ==
    {Object :> ObjectShim @@ I :> InterfaceI @@ J :> j @@ A :> a @@ B :> b :
       j \in InterfacesJ, a \in as, b \in bs}

PlainWorlds == Of(ClassesA({<<>>, <<x>>}), ClassesB({<<y>>}))

HidingWorlds == Of({[Bare("dex") EXCEPT !.fields = <<x, y>>]},
                   {[Bare("dex") EXCEPT !.super = A, !.fields = <<x>>]})

MCOffered == {[cls |-> J, native |-> [key |-> n, static |-> FALSE]],
              [cls |-> B, native |-> [key |-> n, static |-> FALSE]]}
=============================================================================
