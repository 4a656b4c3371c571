-------------------------------- MODULE Bridge --------------------------------
(***************************************************************************)
(* The typed extension API (src/src/keiyoushi.rs) on top of okhttp and the   *)
(* HttpSource defaults (src/src/vm/native/keiyoushi.rs).  One operation runs *)
(* at a time, on one thread: it invokes methods of the source (guest code,   *)
(* see OkHttp), sends requests, and ends with an answer for the host.        *)
(***************************************************************************)
EXTENDS OkHttp

CONSTANTS
    RxOp,        \* operations with a fetch* override: popular, latest, search, ...
    NoFetch,     \* those among them whose fetch* has no default (fetchLatestUpdates)
    HostCapability  \* permissions the host grants and revokes

ASSUME BridgeAssumption == NoFetch \subseteq RxOp

VARIABLES
    op,       \* the running operation: [name, stage], or Idle
    answer,   \* the answer of the last operation: [k, v]
    request,  \* image_data's local: the request
    client    \* image_data's local: the source's OkHttpClient

bridgeVars == <<op, answer, request, client>>
brVars == <<httpVars, bridgeVars>>

Idle     == [name |-> "none", stage |-> "idle"]
NoAnswer == [k |-> "none", v |-> Null]
Payload  == [t |-> "payload"]     \* the model object the operation reads
Other    == [t |-> "other"]       \* an object of another kind
Item(r)  == [t |-> "request", req |-> r]

\* Methods of the source that the bridge invokes.
SourceCode == {"init", "createSources", "fetch", "request", "parse", "suspend",
               "getter", "client", "imageRequest", "baseUrl", "createScreen", "setupScreen"}
GuestCode == SourceCode \cup InterceptorCode \cup {"callback"}

\* Clients carry sequences of interceptors, and an interceptor is none of the
\* other pieces of code.
ASSUME InterceptorAssumption ==
    /\ DefaultInterceptors \in Seq(STRING)
    /\ Client \subseteq [ints : Seq(STRING), nets : Seq(STRING)]
    /\ (Stub \cup InterceptorCode)
         \cap (SourceCode \cup Wrappers \cup {"fetchDefault", "getDefault", "callback"}) = {}

\* What guest code may hand back, by what it is.
Returns(code) ==
    CASE code = "fetch"  -> {Observable(<<Payload>>, "none", FALSE), Observable(<<>>, "none", FALSE),
                             Observable(<<Other>>, "none", TRUE), Observable(<<>>, "none", TRUE),
                             Observable(<<>>, "UnsupportedOperationException", FALSE),
                             Observable(<<>>, "IOException", FALSE), Other}
      [] code \in {"request", "imageRequest"} -> {Item(r) : r \in Request} \cup {Null}
      [] code \in InterceptorCode -> {Response(200, r) : r \in Request} \cup {Null}
      [] code \in {"callback", "init"} -> {Null}
      [] code = "client" -> {[t |-> "client", c |-> cl] : cl \in Client}
      [] OTHER -> {Payload, Other, Null}

Thrown    == {"IOException", "UnsupportedOperationException"}
VmError   == {"Resolution", "Budget"}

-----------------------------------------------------------------------------
(* Answers.                                                                *)

Fails(r) == [k |-> IF r.k = "throw" THEN "uncaught" ELSE "error", v |-> [t |-> r.cls]]

\* manga_pages, read_manga, read_chapter_list, read_page_list, read_filters:
\* an object of the wrong kind is a Resolution error.
ReadAs(v) ==
    IF v.t = "payload" THEN [k |-> "value", v |-> v] ELSE [k |-> "error", v |-> [t |-> "Resolution"]]

\* The operation returns a to the host, and its frames and objects are gone.
Answer(a) ==
    /\ answer' = a
    /\ op' = Idle
    /\ stack' = <<>> /\ result' = Running /\ chains' = <<>> /\ sent' = <<>>
    /\ fuel' = 0 /\ raised' = {} /\ request' = Null /\ client' = Null

\* The next method of the source is invoked; chains of the one before it are
\* out of reach.
GoOn(stage, code) ==
    /\ op' = [op EXCEPT !.stage = stage]
    /\ stack' = <<Frame(code, 0)>>
    /\ result' = Running /\ chains' = <<>> /\ sent' = <<>>
    /\ UNCHANGED <<answer, raised, client, fuel>>

\* The invocation of stage s is back.
Back(s) == op.stage = s /\ stack = <<>> /\ result.k # "running"
Quiet == UNCHANGED <<grants, http>>

-----------------------------------------------------------------------------
(* Starting operations.                                                    *)

Begin(name, stage, code) ==
    /\ op = Idle
    /\ op' = [name |-> name, stage |-> stage]
    /\ stack' = <<Frame(code, 0)>>
    /\ result' = Running
    /\ chains' = <<>> /\ sent' = <<>> /\ fuel' = MaxFuel /\ raised' = {}
    /\ answer' = NoAnswer /\ request' = Null /\ client' = Null
    /\ UNCHANGED <<grants, http>>

\* popular, latest, search, manga_details, chapters, pages.
StartRx(name, overridden) ==
    Begin(name, "fetch", IF overridden THEN "fetch" ELSE "fetchDefault")

\* popular_coro, latest_coro, search_coro, pages_coro.
StartSuspend(overridden) ==
    Begin("coro", "suspend", IF overridden THEN "suspend" ELSE "getDefault")

\* manga_update_details, manga_update_chapters.
StartUpdate == Begin("update", "update", "suspend")

\* source_name, source_id, filters, ...: one getter, read.
StartGetter == Begin("getter", "suspend", "getter")

StartImage == Begin("image", "client", "client")

\* preference_definitions
StartScreen == Begin("screen", "create", "createScreen")

\* sources(): the factory's constructor, then createSources().  Which objects
\* survive it is the subject of Sources.
StartSources == Begin("sources", "init", "init")

-----------------------------------------------------------------------------
(* Running them.                                                           *)

\* try_fetch_observable: Ok(None).  A Resolution error from anywhere below,
\* a result that is no Observable, or one without an error and an item;
\* pending operators and callables are not run.  An error of any class is the
\* answer: the code means to leave UnsupportedOperationException out, but
\* compares its descriptor with the dotted name class_desc_str returns.
FetchGaveNothing(r) ==
    \/ r.k = "fatal" /\ r.cls = "Resolution"
    \/ r.k = "ok" /\ r.v.t # "observable"
    \/ r.k = "ok" /\ r.v.t = "observable" /\ r.v.error = "none" /\ r.v.values = <<>>

FetchBack ==
    /\ Back("fetch")
    /\ IF FetchGaveNothing(result)
       THEN GoOn("request", "request") /\ UNCHANGED request
       ELSE IF result.k # "ok" THEN Answer(Fails(result))
       ELSE IF result.v.error # "none" THEN Answer(Fails(Throw(result.v.error)))
       ELSE Answer(ReadAs(Head(result.v.values)))
    /\ Quiet

\* *Request is back: execute() hands it to the host directly, past every
\* interceptor.
RequestBack ==
    /\ Back("request")
    /\ IF result.k # "ok" THEN Answer(Fails(result))
       ELSE IF result.v.t # "request" THEN Answer(Fails(Throw("NullPointerException")))
       ELSE /\ HostExecute(<<>>, result.v.req, 0, <<>>)
            /\ op' = [op EXCEPT !.stage = "execute"]
            /\ UNCHANGED <<answer, chains, request, client, fuel>>
    /\ Quiet

ExecuteBack ==
    /\ Back("execute")
    /\ IF result.k = "ok" THEN GoOn("parse", "parse") /\ UNCHANGED request ELSE Answer(Fails(result))
    /\ Quiet

\* *Parse, a get* entry point or a getter is back.
ReadBack ==
    /\ Back("parse") \/ Back("suspend")
    /\ Answer(IF result.k = "ok" THEN ReadAs(result.v) ELSE Fails(result))
    /\ Quiet

\* getMangaUpdate is back: getManga or getChapters on the object it returned.
UpdateBack ==
    /\ Back("update")
    /\ IF result.k # "ok" THEN Answer(Fails(result))
       ELSE IF result.v.t = "null" THEN Answer(Fails(Fatal("Resolution")))
       ELSE GoOn("updateRead", "getter") /\ UNCHANGED request
    /\ Quiet

UpdateRead ==
    /\ Back("updateRead")
    /\ Answer(IF result.k = "ok" THEN ReadAs(result.v) ELSE Fails(result))
    /\ Quiet

\* image_data: getClient, imageRequest, the base URL if the request has no
\* Referer (a failure of it is ignored), then the client's own call.
ClientBack ==
    /\ Back("client")
    /\ IF result.k # "ok" THEN Answer(Fails(result))
       ELSE /\ op' = [op EXCEPT !.stage = "imageRequest"]
            /\ stack' = <<Frame("imageRequest", 0)>>
            /\ result' = Running /\ chains' = <<>> /\ sent' = <<>>
            /\ client' = result.v
            /\ UNCHANGED <<answer, raised, request, fuel>>
    /\ Quiet

ExecuteImage(req) ==
    /\ CallExecute(<<>>, client.c, req, FALSE)
    /\ op' = [op EXCEPT !.stage = "image"]
    /\ request' = Null
    /\ UNCHANGED <<answer, client, fuel>>

ImageRequestBack ==
    /\ Back("imageRequest")
    /\ IF result.k # "ok" THEN Answer(Fails(result))
       ELSE IF result.v.t # "request" THEN Answer(Fails(Fatal("Resolution")))
       ELSE \/ ExecuteImage(result.v.req)
            \/ /\ op' = [op EXCEPT !.stage = "baseUrl"]
               /\ stack' = <<Frame("baseUrl", 0)>>
               /\ result' = Running /\ chains' = <<>> /\ sent' = <<>>
               /\ request' = result.v
               /\ UNCHANGED <<answer, raised, client, fuel>>
    /\ Quiet

BaseUrlBack ==
    /\ Back("baseUrl")
    /\ ExecuteImage(request.req)
    /\ Quiet

ImageBack ==
    /\ Back("image")
    /\ Answer(IF result.k # "ok" THEN Fails(result)
              ELSE IF result.v.t = "response" THEN [k |-> "value", v |-> Payload]
              ELSE Fails(Fatal("Resolution")))
    /\ Quiet

\* createPreferenceScreen is back: whatever its error, setupPreferenceScreen
\* is tried next.
CreateScreenBack ==
    /\ Back("create")
    /\ IF result.k = "ok" THEN Answer([k |-> "value", v |-> Payload])
       ELSE GoOn("setup", "setupScreen") /\ UNCHANGED request
    /\ Quiet

SetupScreenBack ==
    /\ Back("setup")
    /\ Answer(IF result.k = "ok" THEN [k |-> "value", v |-> Payload] ELSE Fails(result))
    /\ Quiet

\* sources(): the factory's constructor is back, then createSources().
InitBack ==
    /\ Back("init")
    /\ IF result.k = "ok" THEN GoOn("createSources", "createSources") /\ UNCHANGED request
       ELSE Answer(Fails(result))
    /\ Quiet

CreateSourcesBack ==
    /\ Back("createSources")
    /\ Answer(IF result.k # "ok" THEN Fails(result) ELSE ReadAs(result.v))
    /\ Quiet

\* http_source_fetch and http_source_get_suspend: the defaults of fetch* and
\* get*, a native that runs the request and parse pair.
DefaultMethod ==
    /\ stack # <<>> /\ Top.code \in {"fetchDefault", "getDefault"}
    /\ \/ /\ Top.pc = 0 /\ op.name \in NoFetch
          /\ Deliver(Below, Fatal("Resolution"))
          /\ UNCHANGED <<chains, sent, raised>>
       \/ /\ Top.pc = 0 /\ op.name \notin NoFetch
          /\ stack' = Append(AtPc(1), Frame("request", 0)) /\ result' = Running
          /\ UNCHANGED <<chains, sent, raised>>
       \/ /\ Top.pc = 1 /\ result.k = "ok"
          /\ IF result.v.t = "request"
             THEN HostExecute(AtPc(2), result.v.req, 0, <<>>)
             ELSE /\ stack' = AtPc(3) /\ result' = Throw("NullPointerException")
                  /\ UNCHANGED <<sent, raised>>
          /\ UNCHANGED chains
       \/ /\ Top.pc = 2 /\ result.k = "ok"
          /\ stack' = Append(AtPc(3), Frame("parse", 0)) /\ result' = Running
          /\ UNCHANGED <<chains, sent, raised>>
       \/ /\ Top.pc = 3 \/ (Top.pc > 0 /\ result.k \in {"throw", "fatal"})
          /\ Deliver(Below, IF Top.code = "fetchDefault" THEN ObservableOf(result) ELSE result)
          /\ UNCHANGED <<chains, sent, raised>>
    /\ UNCHANGED <<grants, http, fuel, bridgeVars>>

-----------------------------------------------------------------------------
(* The host between operations.                                            *)

HostGrants(p) ==
    /\ op = Idle /\ grants' = GrantTo(grants, p) /\ grants' # grants
    /\ UNCHANGED <<http, stack, result, chains, sent, fuel, raised, bridgeVars>>

HostRevokes(p) ==
    /\ op = Idle /\ grants' = RevokeFrom(grants, p) /\ grants' # grants
    /\ UNCHANGED <<http, stack, result, chains, sent, fuel, raised, bridgeVars>>

HostSetsHttp ==
    /\ op = Idle /\ ~http /\ http' = TRUE
    /\ UNCHANGED <<grants, stack, result, chains, sent, fuel, raised, bridgeVars>>

-----------------------------------------------------------------------------
\* SandboxOptions::allow_all().
AllowAll == {NetAny, Fs("any"), ProcAny, Env}

BrInit ==
    /\ grants = AllowAll /\ http = FALSE
    /\ stack = <<>> /\ result = Running /\ chains = <<>> /\ sent = <<>>
    /\ fuel = 0 /\ raised = {}
    /\ op = Idle /\ answer = NoAnswer /\ request = Null /\ client = Null

Start ==
    \/ \E name \in RxOp, o \in BOOLEAN : StartRx(name, o)
    \/ \E o \in BOOLEAN : StartSuspend(o)
    \/ StartUpdate \/ StartGetter \/ StartImage \/ StartScreen \/ StartSources

Guest ==
    /\ \/ \E cl \in Client, req \in Request, canceled \in BOOLEAN, w \in CallWrappers \cup {"none"} :
             /\ Len(stack) > 1 => w = "none"    \* bound: nested calls are plain execute()
             /\ GuestCall(GuestCode, cl, req, canceled, w)
       \/ \E req \in Request : GuestProceed(req)
       \/ \E native \in Lossy :
             /\ Len(stack) < 2    \* bound: these too
             /\ GuestCallsBack(GuestCode, native)
       \/ stack # <<>> /\ Top.code \in GuestCode /\
             \E r \in {Ok(v) : v \in Returns(Top.code)} \cup {Throw(e) : e \in Thrown}
                      \cup {Fatal(e) : e \in VmError} : GuestEnds(GuestCode, r)
       \/ GuestUnwinds(GuestCode)
       \/ PassThrough
       \/ WrapperReturns
    /\ UNCHANGED bridgeVars

Bridging ==
    \/ FetchBack \/ RequestBack \/ ExecuteBack \/ ReadBack \/ UpdateBack \/ UpdateRead
    \/ ClientBack \/ ImageRequestBack \/ BaseUrlBack \/ ImageBack
    \/ CreateScreenBack \/ SetupScreenBack \/ InitBack \/ CreateSourcesBack
    \/ DefaultMethod

BrNext ==
    \/ Start \/ Guest \/ Bridging \/ HostSetsHttp
    \/ \E p \in HostCapability : HostGrants(p) \/ HostRevokes(p)

\* An operation is a synchronous call on the host's thread: its steps are
\* taken until it returns.  What the host does between operations is not
\* assumed.
BrFairness == WF_brVars(Guest \/ Bridging)

BrSpec == BrInit /\ [][BrNext]_brVars /\ BrFairness

-----------------------------------------------------------------------------
(* Properties.                                                             *)

\* The frames `by` are those of all interceptors of ints, one invoked by the
\* other.  The chain starts at position 0, so the first is there twice.
HandledByAll(by, ints) ==
    \E b \in DOMAIN by :
        /\ DOMAIN by = b .. b + Len(ints)
        /\ by[b].code = ints[1]
        /\ \A k \in DOMAIN ints : by[b + k].code = ints[k]

(***************************************************************************)
(* A request that reaches the host through a client's call is being handled *)
(* by every interceptor of that client, application interceptors first and  *)
(* network interceptors after them, in the order they were added, each      *)
(* waiting for the next: whatever calls they nest and however they change   *)
(* the request on the chain they share, as long as none of those on the way *)
(* has proceeded before.  After a second proceed the code skips the         *)
(* interceptors that the first one reached.                                 *)
(***************************************************************************)
AllBeforeHost ==
    \A n \in DOMAIN sent :
        /\ sent[n].chain # 0
        /\ \A i \in DOMAIN sent[n].by : sent[n].by[i].pc = 1
        => HandledByAll(sent[n].by, chains[sent[n].chain].ints)

(***************************************************************************)
(* No request reaches the host's HTTP callback unless the permission store  *)
(* covers its host and port, default port included, whichever way it was    *)
(* sent: execute() of the bridge, the HttpSource defaults, or a chain.      *)
(***************************************************************************)
HostReachedOnlyWithGrant == \A n \in DOMAIN sent : Permitted(sent[n].req.url)

\* The VM errors an operation survives: those a native on their way drops, a
\* missing fetch override (seen as a Resolution error), the base URL of a
\* missing Referer, and createPreferenceScreen.
Survivable(x) ==
    \/ x.dropped
    \/ x.at \in {"baseUrl", "createScreen"}
    \/ x.at \in {"fetch", "fetchDefault"} /\ x.e = "Resolution"

(***************************************************************************)
(* A VM error raised anywhere below an operation (in an interceptor of a    *)
(* nested call, a callback of enqueue, an Observable or coroutine wrapper   *)
(* of a call, an HttpSource default) is the operation's answer: no catch,   *)
(* no error observable and no fallback hides it, but for the cases of       *)
(* Survivable.  Among these are the natives that drop VM errors: subscribe  *)
(* on a failed Observable, launch, async and thread, sorts, and whatever    *)
(* calls equals, hashCode, compareTo or toString.                           *)
(***************************************************************************)
ErrorsAnswered ==
    op # Idle /\ op' = Idle =>
        \A x \in raised : Survivable(x) \/ answer' = [k |-> "error", v |-> [t |-> x.e]]
NoErrorLost == [][ErrorsAnswered]_brVars

(***************************************************************************)
(* Every operation is answered once the guest's own code terminates.        *)
(***************************************************************************)
EveryCallAnswered == op # Idle ~> op = Idle
===============================================================================
