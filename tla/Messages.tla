------------------------------- MODULE Messages -------------------------------
(***************************************************************************)
(* The headers of okhttp3 messages (src/src/vm/native/okhttp/mod.rs): guest  *)
(* code builds requests, responses and Headers, each with a Builder, copies  *)
(* headers from one to another and derives messages from messages.  Method,  *)
(* body and status have no part in it and are left out.                      *)
(***************************************************************************)
EXTENDS Naturals, Sequences, SequencesExt, Vectors

CONSTANTS
    Header,             \* headers guest code writes: <<name, value>>, values # 0
    Canon(_),           \* a name in lower case
    MaxMessages,        \* bound on the objects of one behaviour
    MaxHeaders          \* bound on the headers of one object

ASSUME HeaderAssumption == \A h \in Header : h = <<h[1], h[2]>> /\ h[2] # 0

VARIABLE msgs           \* object number |-> object

msgVars == <<msgs>>

Lowered == {Canon(h[1]) : h \in Header}

\* want is history: the value last written under each lower-case name, in
\* the builder the object is or comes from; 0 after a removal.
Message(kind, built, hs, want) ==
    [kind |-> kind, built |-> built, headers |-> hs, want |-> want]

Nothing == [n \in Lowered |-> 0]

MsgInit == msgs = <<>>

-----------------------------------------------------------------------------
(* Objects.                                                                *)

Alloc(o) == Len(msgs) < MaxMessages /\ msgs' = Append(msgs, o)

\* The Builder constructors.  A Response.Builder only comes from newBuilder().
EmptyBuilder(kind) == Alloc(Message(kind, FALSE, <<>>, Nothing))

\* The host's answer (keiyoushi_execute, host_execute).
HostResponse(h) == Alloc(Message("response", TRUE, <<h>>, [Nothing EXCEPT ![Canon(h[1])] = h[2]]))

\* build(): the message copies the builder's headers.
Build(i) == ~msgs[i].built /\ Alloc([msgs[i] EXCEPT !.built = TRUE])

\* newBuilder() copies the message's.
MessageNewBuilder(i) == msgs[i].built /\ Alloc([msgs[i] EXCEPT !.built = FALSE])

\* request.headers() and response.headers(): a copy.
HeadersOf(i) ==
    /\ msgs[i].built /\ msgs[i].kind # "headers"
    /\ Alloc([msgs[i] EXCEPT !.kind = "headers"])

-----------------------------------------------------------------------------
(* Headers of a builder.                                                   *)

Without(hs, n) == Keeping(hs, {h \in ToSet(hs) : Canon(h[1]) # Canon(n)})

\* Builder i has the headers hs afterwards; want is the history.
Rewrites(i, hs, want) ==
    /\ ~msgs[i].built /\ Len(hs) <= MaxHeaders
    /\ msgs' = [msgs EXCEPT ![i].headers = hs, ![i].want = want]

Wanting(i, n, v) == [msgs[i].want EXCEPT ![Canon(n)] = v]

\* header(n, v) of the request and response builders, set of the headers
\* builder: other values of the name go.
SetHeader(i, h) == Rewrites(i, Append(Without(msgs[i].headers, h[1]), h), Wanting(i, h[1], h[2]))

\* addHeader of the request builder, add of the headers builder, and
\* cacheControl, which adds the header it makes of a CacheControl.
AddHeader(i, h) ==
    /\ msgs[i].kind # "response"
    /\ Rewrites(i, Append(msgs[i].headers, h), Wanting(i, h[1], h[2]))

\* removeHeader, removeAll
RemoveHeader(i, n) == Rewrites(i, Without(msgs[i].headers, n), Wanting(i, n, 0))

\* headers(h) of the request builder and addAll of the headers builder add
\* to what is there; headers(h) of the response builder replaces it.
TakeHeaders(i, j) ==
    /\ msgs[j].kind = "headers" /\ msgs[j].built
    /\ LET w == msgs[j].want IN
       IF msgs[i].kind = "response"
       THEN Rewrites(i, msgs[j].headers, w)
       ELSE Rewrites(i, msgs[i].headers \o msgs[j].headers,
                     [n \in Lowered |-> IF w[n] # 0 THEN w[n] ELSE msgs[i].want[n]])

-----------------------------------------------------------------------------
(* Reading.                                                                *)

\* Mutant: the first value of the name.
FirstHeader(o, n) ==
    LET at == {k \in DOMAIN o.headers : Canon(o.headers[k][1]) = n} IN
    IF at = {} THEN 0 ELSE o.headers[CHOOSE k \in at : \A l \in at : k <= l][2]

\* header(n), get(n): the last value of the name, whatever its case.
HeaderOf(o, n) ==
    LET at == {k \in DOMAIN o.headers : Canon(o.headers[k][1]) = n} IN
    IF at = {} THEN 0 ELSE o.headers[CHOOSE k \in at : \A l \in at : l <= k][2]

MsgNext ==
    \/ \E kind \in {"request", "headers"} : EmptyBuilder(kind)
    \/ \E h \in Header : HostResponse(h)
    \/ \E i \in DOMAIN msgs :
          \/ Build(i) \/ MessageNewBuilder(i) \/ HeadersOf(i)
          \/ \E h \in Header : SetHeader(i, h) \/ AddHeader(i, h) \/ RemoveHeader(i, h[1])
          \/ \E j \in DOMAIN msgs : TakeHeaders(i, j)

MsgSpec == MsgInit /\ [][MsgNext]_msgVars

-----------------------------------------------------------------------------
(***************************************************************************)
(* The header a message or a builder answers for a name, in any case of     *)
(* letters, is the value last written under it, through all the copies      *)
(* between messages, headers and builders; what is done to a builder        *)
(* afterwards does not reach the messages it has built.                     *)
(***************************************************************************)
LastHeaderStands == \A i \in DOMAIN msgs : \A n \in Lowered : HeaderOf(msgs[i], n) = msgs[i].want[n]
===============================================================================
