-------------------------------- MODULE OkHttp --------------------------------
(***************************************************************************)
(* okhttp3 calls as the shims run them (src/src/vm/native/okhttp/mod.rs):    *)
(* a call walks an interceptor chain and ends in the host's HTTP callback.   *)
(* Everything is one thread of nested invocations, kept here as a stack of   *)
(* frames.  A frame is guest code (an interceptor, a method of the source)   *)
(* that may do anything its API allows, or a native waiting for what it      *)
(* called.  `result` is what the last invocation handed back to a native or  *)
(* to the bridge, "running" while guest code is on top.                      *)
(*                                                                         *)
(* Errors come in two kinds, as in NatErr: a throwable the guest may catch   *)
(* (Throw), and a VM error no guest code sees (Fatal).                       *)
(***************************************************************************)
EXTENDS Capabilities

CONSTANTS
    Request,              \* requests: [id, url], url = [scheme, name, port]; scheme
                          \* "invalid" is a URL without a scheme or a host
    Client,               \* OkHttpClient objects: [ints, nets]
    DefaultInterceptors,  \* mihon_default_interceptors: stubs that pass through
    ResponseCode,         \* HTTP status codes the host answers with
    MaxFuel               \* bound on the calls guest code makes in one operation

VARIABLES
    grants,   \* the permission store
    http,     \* an HTTP callback is registered
    stack,    \* frames, innermost last
    result,   \* what the last invocation returned
    chains,   \* Interceptor$Chain objects: [ints, pos, req]
    sent,     \* history: the last request handed to the host, if any
    fuel,     \* guest calls left
    raised    \* history: the Fatal errors raised in this operation

httpVars == <<grants, http, stack, result, chains, sent, fuel, raised>>

-----------------------------------------------------------------------------
(* Values and results.                                                     *)

Null           == [t |-> "null"]
Response(c, r) == [t |-> "response", code |-> c, req |-> r]
Running        == [k |-> "running"]
Ok(v)          == [k |-> "ok", v |-> v]
Throw(cls)     == [k |-> "throw", cls |-> cls]
Fatal(e)       == [k |-> "fatal", cls |-> e]

\* An Observable as the shims keep it: the items known so far, the error it
\* ends with ("none"), and whether operators or a callable are still to run.
Observable(vs, e, p) == [t |-> "observable", values |-> vs, error |-> e, pending |-> p]

\* rx_from_result: a throwable becomes an error observable, a VM error does not.
ObservableOfAny(r) ==
    CASE r.k = "ok" -> Ok(Observable(<<r.v>>, "none", FALSE))
      [] OTHER      -> Ok(Observable(<<>>, r.cls, FALSE))
ObservableOf(r) ==
    CASE r.k = "ok"    -> Ok(Observable(<<r.v>>, "none", FALSE))
      [] r.k = "throw" -> Ok(Observable(<<>>, r.cls, FALSE))
      [] r.k = "fatal" -> r

\* okhttp_await_success: a response other than 2xx is an IOException.
Successful(r) ==
    IF r.k # "ok" THEN r
    ELSE IF r.v.t # "response" THEN Throw("NullPointerException")
    ELSE IF r.v.code \in 200 .. 299 THEN r
    ELSE Throw("IOException")

\* Natives that call guest code and wait for it: those that wrap a call, and
\* those that may drop a VM error of what they called.
CallWrappers == {"await", "observable", "observableSuccess", "enqueue"}
Lossy        == {"subscribe", "lenient"}
Wrappers     == CallWrappers \cup Lossy
Stub         == ToSet(DefaultInterceptors)
Native       == Wrappers \cup Stub \cup {"fetchDefault", "getDefault"}

\* The frames s get r back.  Guest code may do anything with a value or a
\* throwable it receives, so which one it was is forgotten there.
Deliver(s, r) ==
    /\ stack' = s
    /\ result' = IF s # <<>> /\ Last(s).code \notin Native /\ r.k # "fatal" THEN Running ELSE r

Frame(code, c) == [code |-> code, chain |-> c, pc |-> 0]
Top            == Last(stack)
Below          == Front(stack)
AtPc(n)        == Append(Below, [Top EXCEPT !.pc = n])

-----------------------------------------------------------------------------
(* Clients.                                                                *)

\* OkHttpClient.newBuilder() starts from the default stubs, whatever the
\* receiver was built with.
NewBuilder                   == [ints |-> DefaultInterceptors, nets |-> <<>>]
AddInterceptor(b, i)         == [b EXCEPT !.ints = Append(@, i)]
AddNetworkInterceptor(b, i)  == [b EXCEPT !.nets = Append(@, i)]

-----------------------------------------------------------------------------
(* The host's HTTP callback.                                               *)

DefaultPort(scheme) == CASE scheme = "http" -> 80 [] scheme = "https" -> 443 [] OTHER -> 0

\* check_network_url: the permission a URL asks for.
Target(url) ==
    [name |-> url.name, port |-> IF url.port # 0 THEN url.port ELSE DefaultPort(url.scheme)]

Permitted(url) == Holds(grants, Connect(Target(url)))

\* No frame of s drops VM errors.
Lossless(s) == \A i \in DOMAIN s : s[i].code \notin Lossy

\* Records a VM error with the method of the source it was raised below, and
\* whether a native on its way keeps no such errors.
Raised(e) == [e |-> e, at |-> IF stack = <<>> THEN "bridge" ELSE stack[1].code,
              dropped |-> ~Lossless(stack)]
Log(r) == raised' = IF r.k = "fatal" THEN raised \cup {Raised(r.cls)} ELSE raised

\* The frames of s in which interceptors of chain c handle its request, by
\* their place on the stack.
Handling(s, c) == [i \in {j \in DOMAIN s : s[j].chain = c} |-> s[i]]

\* Mutant: the URL is not checked.
HostExecuteUnchecked(s, req, c, by) ==
    \E code \in ResponseCode :
        /\ Deliver(s, Ok(Response(code, req)))
        /\ sent' = <<[req |-> req, chain |-> c, by |-> by]>>
        /\ UNCHANGED raised

\* host_execute and keiyoushi_execute: return to the frames s with the
\* host's answer to req, sent by chain c (0: no chain) while the frames `by`
\* were handling it.
HostExecute(s, req, c, by) ==
    \/ /\ req.url.scheme = "invalid"
       /\ Deliver(s, Fatal("Resolution"))
       /\ Log(Fatal("Resolution"))
       /\ UNCHANGED sent
    \/ /\ req.url.scheme # "invalid" /\ ~Permitted(req.url)
       /\ Deliver(s, Throw("SecurityException"))
       /\ UNCHANGED <<sent, raised>>
    \/ /\ req.url.scheme # "invalid" /\ Permitted(req.url) /\ ~http
       /\ Deliver(s, Throw("UnsupportedOperationException"))
       /\ UNCHANGED <<sent, raised>>
    \/ /\ req.url.scheme # "invalid" /\ Permitted(req.url) /\ http
       /\ \E code \in ResponseCode : Deliver(s, Ok(Response(code, req)))
       /\ sent' = <<[req |-> req, chain |-> c, by |-> by]>>
       /\ UNCHANGED raised

-----------------------------------------------------------------------------
(* Chains.                                                                 *)

\* okhttp_call_execute from the frames s.  The first interceptor is invoked
\* with the chain still at position 0.
CallExecute(s, cl, req, canceled) ==
    LET ints == cl.ints \o cl.nets IN
    CASE canceled ->
            /\ Deliver(s, Throw("IOException"))
            /\ UNCHANGED <<chains, sent, raised>>
      [] ~canceled /\ ints = <<>> ->
            /\ HostExecute(s, req, 0, <<>>)
            /\ UNCHANGED chains
      [] OTHER ->
            /\ chains' = Append(chains, [ints |-> ints, pos |-> 0, req |-> req])
            /\ stack' = Append(s, Frame(ints[1], Len(chains) + 1))
            /\ result' = Running
            /\ UNCHANGED <<sent, raised>>

\* Mutant: the chain moves on by two.
ProceedSkipping(s, c, req) ==
    LET ch == chains[c] IN
    IF ch.pos < Len(ch.ints)
    THEN /\ chains' = [chains EXCEPT ![c].req = req, ![c].pos = ch.pos + 2]
         /\ stack' = Append(s, Frame(ch.ints[ch.pos + 1], c))
         /\ result' = Running
         /\ UNCHANGED <<sent, raised>>
    ELSE /\ chains' = [chains EXCEPT ![c].req = req]
         /\ HostExecute(s, req, c, Handling(s, c))

\* chain_proceed(req) on chain c from the frames s: the interceptor at the
\* chain's position, or the host past the last one.  Position and request
\* belong to the chain, which every interceptor of the call shares: a second
\* proceed of one interceptor goes on after those the first one invoked.
ChainProceed(s, c, req) ==
    LET ch == chains[c] IN
    IF ch.pos < Len(ch.ints)
    THEN /\ chains' = [chains EXCEPT ![c].req = req, ![c].pos = ch.pos + 1]
         /\ stack' = Append(s, Frame(ch.ints[ch.pos + 1], c))
         /\ result' = Running
         /\ UNCHANGED <<sent, raised>>
    ELSE /\ chains' = [chains EXCEPT ![c].req = req]
         /\ HostExecute(s, req, c, Handling(s, c))

\* interceptor_pass_through: proceed with the chain's current request, then
\* hand the answer back.
PassThrough ==
    /\ stack # <<>> /\ Top.code \in Stub
    /\ \/ /\ Top.pc = 0
          /\ ChainProceed(AtPc(1), Top.chain, chains[Top.chain].req)
       \/ /\ Top.pc = 1
          /\ Deliver(Below, result)
          /\ UNCHANGED <<chains, sent, raised>>
    /\ UNCHANGED <<grants, http, fuel>>

-----------------------------------------------------------------------------
(* Natives that wrap a call (awaitSuccess, asObservable,                    *)
(* asObservableSuccess, enqueue), and natives that drop VM errors.          *)

\* Mutant: onFailure is invoked for what the callback throws, too.
EnqueueReturnsFailing ==
    \/ /\ IF Top.pc = 0 THEN result.k # "fatal" ELSE result.k = "throw"
       /\ stack' = Append(AtPc(1), Frame("callback", 0)) /\ result' = Running
    \/ /\ IF Top.pc = 0 THEN result.k = "fatal" ELSE result.k # "throw"
       /\ Deliver(Below, IF result.k = "ok" THEN Ok(Null) ELSE result)

\* okhttp_call_enqueue: onResponse or onFailure, at once.
EnqueueReturns ==
    \/ /\ Top.pc = 0 /\ result.k # "fatal"
       /\ stack' = Append(AtPc(1), Frame("callback", 0)) /\ result' = Running
    \/ /\ Top.pc = 0 /\ result.k = "fatal"
       /\ Deliver(Below, result)
    \/ /\ Top.pc = 1
       /\ Deliver(Below, IF result.k = "ok" THEN Ok(Null) ELSE result)

\* The wrapper on top of the stack has its answer.
WrapperReturns ==
    /\ stack # <<>> /\ Top.code \in Wrappers /\ result.k # "running"
    /\ \/ /\ Top.code = "await"
          /\ Deliver(Below, Successful(result))
       \/ /\ Top.code = "observable"
          /\ Deliver(Below, ObservableOf(result))
       \/ /\ Top.code = "observableSuccess"
          /\ Deliver(Below, ObservableOf(Successful(result)))
       \/ Top.code = "enqueue" /\ EnqueueReturns
       \* observable_subscribe, blocking_subscribe: whatever stops onError, the
       \* error of the Observable is thrown.
       \/ /\ Top.code = "subscribe"
          /\ Deliver(Below, IF result.k = "ok" THEN Ok(Null) ELSE Throw("IOException"))
       \* A failure is taken for a value (java_equals, java_hash, to_string_of,
       \* coroutines_async_default) or ignored (coroutines_launch_default,
       \* threads_kt_thread_default), becomes another throwable (java_cmp), or is
       \* answered unless a later callback fails (the sorts with a comparator).
       \/ /\ Top.code = "lenient"
          /\ \/ Deliver(Below, Ok(Null))
             \/ result.k # "ok" /\ Deliver(Below, Throw("NullPointerException"))
             \/ Deliver(Below, result)
    /\ UNCHANGED <<grants, http, chains, sent, fuel, raised>>

-----------------------------------------------------------------------------
(* Guest code.  GuestCode is what it may be; the operations of the bridge    *)
(* add their own methods to the interceptors and callbacks.                 *)

InterceptorCode == (UNION {ToSet(cl.ints) \cup ToSet(cl.nets) : cl \in Client}) \ Stub

GuestMayAct(code) == stack # <<>> /\ Top.code \in code /\ result.k # "fatal"

\* client.newCall(req).execute(), canceled before or not, alone or wrapped.
GuestCall(code, cl, req, canceled, wrapper) ==
    /\ GuestMayAct(code) /\ fuel > 0
    /\ CallExecute(IF wrapper = "none" THEN stack ELSE Append(stack, Frame(wrapper, 0)),
                   cl, req, canceled)
    /\ fuel' = fuel - 1
    /\ UNCHANGED <<grants, http>>

\* chain.proceed(req) by the interceptor on top; its pc counts them.
GuestProceed(req) ==
    /\ GuestMayAct(InterceptorCode) /\ fuel > 0
    /\ ChainProceed(AtPc(Top.pc + 1), Top.chain, req)
    /\ fuel' = fuel - 1
    /\ UNCHANGED <<grants, http>>

\* A native that drops VM errors calls a method of the guest: subscribe() on
\* an Observable that failed, its onError; launch, async and thread, their
\* block; a container, equals, hashCode, compareTo or toString of an element;
\* a sort, its comparator.
GuestCallsBack(code, native) ==
    /\ GuestMayAct(code) /\ fuel > 0
    /\ stack' = Append(Append(stack, Frame(native, 0)), Frame("callback", 0))
    /\ result' = Running
    /\ fuel' = fuel - 1
    /\ UNCHANGED <<grants, http, chains, sent, raised>>

\* The guest method on top ends with r: a value, a throwable of its own or
\* one it lets through, or a VM error met while running it.
GuestEnds(code, r) ==
    /\ GuestMayAct(code)
    /\ Deliver(Below, r)
    /\ Log(r)
    /\ UNCHANGED <<grants, http, chains, sent, fuel>>

\* A VM error unwinds through guest frames without running any handler.
GuestUnwinds(code) ==
    /\ stack # <<>> /\ Top.code \in code /\ result.k = "fatal"
    /\ Deliver(Below, result)
    /\ UNCHANGED <<grants, http, chains, sent, fuel, raised>>
===============================================================================
