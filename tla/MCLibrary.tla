------------------------------ MODULE MCLibrary ------------------------------
(***************************************************************************)
(* The library modules for TLC, one at a time: a behaviour picks a subject   *)
(* in its initial state, and only the variables of that subject change.      *)
(* The instances are small, and what they have in common is said once.       *)
(***************************************************************************)
EXTENDS Permissions, Sources, Rx, Bridge, Containers, Messages, Shims

VARIABLE subject

vars == <<subject, permVars, srcVars, rxVars, brVars, cVars, msgVars, shVars>>

-----------------------------------------------------------------------------
(* Permissions: a directory, a link to it, and a path with "..".             *)
MCDirs ==
    [p \in {<<>>, <<"home">>, <<"link">>, <<"home", "..">>} |->
        CASE p = <<"link">> -> <<"home">> [] p = <<"home", "..">> -> <<>> [] OTHER -> p]
MCCwd == <<"home">>
MCLower == [n \in {"Ex", "ex"} |-> "ex"]
Path(a, parts) == [abs |-> a, parts |-> parts]
Host(n, p) == [name |-> n, port |-> p]
MCCapability ==
    { Fs("any"), Fs("read"),
      FsPath("path", Path(TRUE, <<"home">>)),
      FsPath("readPath", Path(FALSE, <<"..", "link", "f">>)),
      FsPath("writePath", Path(TRUE, <<"home", "..", "tmp">>)),
      NetAny, Connect(Host("Ex", 0)), Connect(Host("ex", 443)),
      ProcAny, Command("ls"), Env }

(* Rx: callbacks that return, throw for all items but one, fail in the VM,   *)
(* or return Observables of one item, of two, or of an error.                *)
MCRxItem == {<<"a">>, <<"b">>}
MCRxCall(cb, x) ==
    CASE cb = "ret"  -> RxOkItem(<<"r">> \o x)
      [] cb = "thr"  -> IF x = <<"b">> THEN RxOkItem(<<"r">> \o x) ELSE RxThrow("e2")
      [] cb = "vm"   -> RxFatal
      [] cb = "obs"  -> RxOkItem(RxJustValue(<<"n">> \o x))
      [] cb = "two"  -> RxOkItem(RxFrom(<<x, <<"b">>>>))
      [] cb = "err"  -> RxOkItem(RxErrorValue("e3"))

(* Bridge: one client with a default stub, an application and a network      *)
(* interceptor, one bare client, a valid and an invalid URL.                 *)
MCDefaults == <<"stub">>
MCClients ==
    { AddNetworkInterceptor(AddInterceptor(NewBuilder, "app"), "net"),
      [ints |-> <<>>, nets |-> <<>>] }
MCRequests ==
    {[id |-> 1, url |-> [scheme |-> s, name |-> "Ex", port |-> 0]] : s \in {"https", "invalid"}}
MCHostCapability == {Connect(Host("ex", 443))}

(* Messages: one header name in two cases, and another.                      *)
MCHeader == {<<"a", 1>>, <<"A", 2>>, <<"b", 1>>}
MCCanon(n) == IF n = "A" THEN "a" ELSE n

(* Shims: no feature, each alone, the two that also work together, and all.  *)
MCBuilds ==
    {b \in SUBSET Feature : Cardinality(b) < 2} \cup {{"okhttp", "tachiyomi"}, Feature}

-----------------------------------------------------------------------------
Init ==
    /\ subject \in {"perm", "src", "rx", "bridge", "cont", "msg", "shims"}
    /\ PermInit /\ SrcInit /\ RxInit /\ BrInit /\ ContInit /\ MsgInit /\ ShInit
    /\ subject # "src" => srcKind = "single"
    /\ subject # "rx" => rxObs = RxFrom(<<>>)
    /\ subject # "cont" => cKind = "deque"
    /\ subject # "shims" => shBuild = {}

Next ==
    /\ UNCHANGED subject
    /\ \/ subject = "perm" /\ PermNext
          /\ UNCHANGED <<srcVars, rxVars, brVars, cVars, msgVars, shVars>>
       \/ subject = "src" /\ SrcNext
          /\ UNCHANGED <<permVars, rxVars, brVars, cVars, msgVars, shVars>>
       \/ subject = "rx" /\ RxNext
          /\ UNCHANGED <<permVars, srcVars, brVars, cVars, msgVars, shVars>>
       \/ subject = "bridge" /\ BrNext
          /\ UNCHANGED <<permVars, srcVars, rxVars, cVars, msgVars, shVars>>
       \/ subject = "cont" /\ ContNext
          /\ UNCHANGED <<permVars, srcVars, rxVars, brVars, msgVars, shVars>>
       \/ subject = "msg" /\ MsgNext
          /\ UNCHANGED <<permVars, srcVars, rxVars, brVars, cVars, shVars>>
       \/ subject = "shims" /\ ShNext
          /\ UNCHANGED <<permVars, srcVars, rxVars, brVars, cVars, msgVars>>

Spec == Init /\ [][Next]_vars /\ BrFairness
==============================================================================
