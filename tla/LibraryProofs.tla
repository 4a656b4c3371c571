---------------------------- MODULE LibraryProofs ----------------------------
(***************************************************************************)
(* Theorems about the library modules: the grants of Permissions, the       *)
(* handles of Sources, the streams of Rx, the calls of Bridge and OkHttp,   *)
(* the vectors of Containers and the headers of Messages.  Each is proved   *)
(* of that module's own specification.                                      *)
(***************************************************************************)
EXTENDS Permissions, Sources, Rx, Bridge, Containers, Messages, InductionFacts

-----------------------------------------------------------------------------
(* Permissions.  NothingBeyondGrants holds for every set of capabilities    *)
(* and whatever Covers answers: the proof never opens Covers.  The          *)
(* inductive invariant says more than the property, about the grants        *)
(* themselves: each grant in the store is a standing entry of the history.  *)

GrantsStand ==
    \A g \in permGrants : \E i \in DOMAIN permLog : Standing(i) /\ permLog[i].cap = g

PermInv == PermTypeOK /\ GrantsStand

\* Every grant in the store is backed by the history in the initial state.
LEMMA PermInvInit == PermInit => PermInv
  BY DEF PermInit, PermInv, PermTypeOK, GrantsStand

\* Context::grant keeps the history of every grant in the store.
LEMMA PermGrantKeeps ==
  ASSUME PermInv, NEW p \in Capability, PermGrant(p)
  PROVE  PermInv'
<1> DEFINE e == [op |-> "grant", cap |-> p]
<1>1. permLog' = Append(permLog, e) /\ e \in [op : {"grant", "revoke"}, cap : Capability]
  BY DEF PermGrant
<1>2. permGrants' \subseteq permGrants \cup {p}
  BY DEF PermGrant, GrantTo
<1>3. PermTypeOK'
  BY <1>1, <1>2 DEF PermInv, PermTypeOK
<1>4. /\ Len(permLog) \in Nat
      /\ Len(permLog') = Len(permLog) + 1
      /\ DOMAIN permLog = 1 .. Len(permLog)
      /\ DOMAIN permLog' = 1 .. Len(permLog) + 1
      /\ permLog'[Len(permLog) + 1] = e
      /\ \A i \in 1 .. Len(permLog) : permLog'[i] = permLog[i]
  BY <1>1 DEF PermInv, PermTypeOK
<1>5. ASSUME NEW i \in DOMAIN permLog, Standing(i)
      PROVE  i \in DOMAIN permLog' /\ Standing(i)' /\ permLog'[i] = permLog[i]
  BY <1>4, <1>5 DEF Standing
<1>6. \E n \in DOMAIN permLog' : Standing(n)' /\ permLog'[n].cap = p
  <2>1. PICK n \in Nat : n = Len(permLog) + 1
    BY <1>4
  <2>2. Standing(n)'
    BY <2>1, <1>4 DEF Standing
  <2> QED BY <2>1, <2>2, <1>4
<1>7. GrantsStand'
  <2> SUFFICES ASSUME NEW g \in permGrants'
               PROVE  \E i \in DOMAIN permLog' : Standing(i)' /\ permLog'[i].cap = g
    BY DEF GrantsStand
  <2>1. CASE g \in permGrants
    BY <2>1, <1>5 DEF PermInv, GrantsStand
  <2>2. CASE g = p
    BY <2>2, <1>6
  <2> QED BY <2>1, <2>2, <1>2
<1> QED BY <1>3, <1>7 DEF PermInv

\* Context::revoke leaves only grants the revoked capability does not touch.
LEMMA PermRevokeKeeps ==
  ASSUME PermInv, NEW p \in Capability, PermRevoke(p)
  PROVE  PermInv'
<1> DEFINE e == [op |-> "revoke", cap |-> p]
<1>1. permLog' = Append(permLog, e) /\ e \in [op : {"grant", "revoke"}, cap : Capability]
  BY DEF PermRevoke
<1>2. /\ permGrants' \subseteq permGrants
      /\ \A g \in permGrants' : ~Covers(g, p)
  BY DEF PermRevoke, RevokeFrom
<1>3. PermTypeOK'
  BY <1>1, <1>2 DEF PermInv, PermTypeOK
<1>4. /\ Len(permLog) \in Nat
      /\ Len(permLog') = Len(permLog) + 1
      /\ DOMAIN permLog = 1 .. Len(permLog)
      /\ DOMAIN permLog' = 1 .. Len(permLog) + 1
      /\ permLog'[Len(permLog) + 1] = e
      /\ \A i \in 1 .. Len(permLog) : permLog'[i] = permLog[i]
  BY <1>1 DEF PermInv, PermTypeOK
<1>5. ASSUME NEW i \in DOMAIN permLog, Standing(i), ~Covers(permLog[i].cap, p)
      PROVE  i \in DOMAIN permLog' /\ Standing(i)' /\ permLog'[i] = permLog[i]
  BY <1>4, <1>5 DEF Standing
<1>6. GrantsStand'
  BY <1>2, <1>5 DEF PermInv, GrantsStand
<1> QED BY <1>3, <1>6 DEF PermInv

\* A capability the store allows is covered by a grant that stands.
LEMMA GrantsStandSuffices == PermInv => NothingBeyondGrants
  BY DEF PermInv, GrantsStand, NothingBeyondGrants, Holds

\* After any sequence of Context::grant and Context::revoke, what
\* has_permission allows was granted and not revoked since, directly or
\* through something narrower.
THEOREM NothingBeyondGrantsThm == PermSpec => []NothingBeyondGrants
<1>1. PermInv /\ [PermNext]_permVars => PermInv'
  <2> SUFFICES ASSUME PermInv, [PermNext]_permVars
               PROVE  PermInv'
    OBVIOUS
  <2>1. ASSUME NEW p \in Capability, PermGrant(p)
        PROVE  PermInv'
    BY <2>1, PermGrantKeeps
  <2>2. ASSUME NEW p \in Capability, PermRevoke(p)
        PROVE  PermInv'
    BY <2>2, PermRevokeKeeps
  <2>3. CASE UNCHANGED permVars
    BY <2>3 DEF permVars, PermInv, PermTypeOK, GrantsStand, Standing
  <2> QED BY <2>1, <2>2, <2>3 DEF PermNext
<1> QED BY <1>1, PermInvInit, GrantsStandSuffices, PTL DEF PermSpec

-----------------------------------------------------------------------------
(* Sources.                                                                *)

\* What the last instance keeps is alive, so a collection (which keeps just
\* that) followed by a new list of sources leaves that list alive.
SrcInv == LatestHandlesLive /\ srcLast.keeps \subseteq srcAlive

(***************************************************************************)
(* The handles of the latest sources() call denote live objects after any   *)
(* sequence of operations on any number of sources (keiyoushi.rs: of the    *)
(* typed operations only sources() reaches Context::call, which collects).  *)
(***************************************************************************)
THEOREM LatestHandlesStayLive == SrcSpec => []LatestHandlesLive
<1>1. SrcInit => SrcInv
  BY DEF SrcInit, SrcInv, LatestHandlesLive
<1>2. SrcInv /\ [SrcNext]_srcVars => SrcInv'
  <2> SUFFICES ASSUME SrcInv, [SrcNext]_srcVars PROVE SrcInv'
    OBVIOUS
  <2> USE DEF SrcInv, LatestHandlesLive, Collected
  <2>1. ASSUME NEW n \in 1 .. 2, SrcFactory(n) PROVE SrcInv'
    <3> DEFINE new == Ids(n)
    <3>1. /\ srcLatest' = new
          /\ srcAlive' = srcLast.keeps \cup new
          /\ srcLast' = [keeps |-> new, self |-> FALSE]
      BY <2>1 DEF SrcFactory
    <3> HIDE DEF new
    <3> QED
      BY <3>1
  <2>2. CASE SrcFactoryFails
    BY <2>2 DEF SrcFactoryFails
  <2>3. CASE SrcSingle
    <3>1. CASE srcLast.self
      BY <2>3, <3>1 DEF SrcSingle
    <3>2. CASE ~srcLast.self
      <4> DEFINE new == Ids(1)
      <4>1. /\ srcLatest' = new
            /\ srcAlive' = srcLast.keeps \cup new
            /\ srcLast' = [keeps |-> new, self |-> TRUE]
        BY <2>3, <3>2 DEF SrcSingle
      <4> HIDE DEF new
      <4> QED
        BY <4>1
    <3> QED
      BY <3>1, <3>2
  <2>4. ASSUME NEW s \in srcHeld, SrcInvoke(s) PROVE SrcInv'
    BY <2>4 DEF SrcInvoke
  <2>5. CASE SrcInvokeOther
    BY <2>5 DEF SrcInvokeOther
  <2>6. CASE UNCHANGED srcVars
    BY <2>6 DEF srcVars
  <2> QED
    BY <2>1, <2>2, <2>3, <2>4, <2>5, <2>6 DEF SrcNext
<1>3. SrcInv => LatestHandlesLive
  BY DEF SrcInv
<1> QED
  BY <1>1, <1>2, <1>3, PTL DEF SrcSpec

-----------------------------------------------------------------------------
(* Bridge: the state of a call.  Natives that wait for what they called     *)
(* have moved past their first step, so a VM error that comes back to them  *)
(* finds them where they pass it on.                                        *)

Code        == GuestCode \cup Native
Interceptor == Stub \cup InterceptorCode
FrameRec    == [code : Code, chain : Nat, pc : Nat]
ChainRec    == [ints : Seq(Interceptor), pos : Nat, req : Request]
Deferring   == Stub \cup {"fetchDefault", "getDefault"}
Clients     == {[t |-> "client", c |-> cl] : cl \in Client}
Items       == {Item(r) : r \in Request}

\* Interceptor frames belong to one of n chains.
FramesOK(s, n) ==
    /\ s \in Seq(FrameRec)
    /\ \A i \in DOMAIN s : s[i].code \in Interceptor => s[i].chain \in 1 .. n

\* Every frame of s waits for what it called.
Suspended(s, n) ==
    /\ FramesOK(s, n)
    /\ \A i \in DOMAIN s : s[i].code \in Deferring => s[i].pc # 0

\* The frames below the top one wait; the top one too if r is a VM error.
StackOK(s, n, r) ==
    /\ FramesOK(s, n)
    /\ \A i \in DOMAIN s : (i < Len(s) \/ r.k = "fatal") /\ s[i].code \in Deferring => s[i].pc # 0

ChainOK(ch)  == ch \in ChainRec /\ ch.ints # <<>> /\ ch.pos <= Len(ch.ints)
ChainsOK(cs) == cs \in Seq(ChainRec) /\ \A c \in DOMAIN cs : ChainOK(cs[c])

\* The frames of chain c on s, and those among them up to place m that the
\* chain ch has invoked one after the other.
Mine(s, c) == {i \in DOMAIN s : s[i].chain = c}

Line(s, c, ch, m) ==
    /\ Mine(s, c) = (m - ch.pos) .. m
    /\ s[m - ch.pos].code = ch.ints[1]
    /\ \A k \in 1 .. ch.pos : s[m - ch.pos + k].code = ch.ints[k]

\* A frame of chain c that has not proceeded is its last.  If the others
\* proceeded once, the chain is at the place of this frame.
LineOK(s, c, ch) ==
    \A m \in Mine(s, c) :
        s[m].pc = 0 =>
            /\ \A i \in Mine(s, c) : i <= m
            /\ (\A i \in Mine(s, c) : i # m => s[i].pc = 1) => Line(s, c, ch, m)

\* The same when the last frame is about to proceed for the first time.
Proceeding(s, c, ch) ==
    /\ \A i \in Mine(s, c) : s[i].pc # 0
    /\ (\A i \in Mine(s, c) : s[i].pc = 1) => Line(s, c, ch, Len(s))

PathsOK(s, cs) ==
    /\ \A i \in DOMAIN s : s[i].chain # 0 => s[i].chain \in DOMAIN cs
    /\ \A c \in DOMAIN cs : LineOK(s, c, cs[c])

\* What reached the host through a chain was being handled by all of it.
Once(by) == \A i \in DOMAIN by : by[i].pc = 1
SentOK(st, cs) ==
    \A n \in DOMAIN st :
        st[n].chain # 0 =>
            /\ st[n].chain \in DOMAIN cs
            /\ Once(st[n].by) => HandledByAll(st[n].by, cs[st[n].chain].ints)

\* The method of the source a stage invokes, where it matters, and what that
\* method hands back to the bridge.
StageCode(stage) ==
    CASE stage = "fetch"        -> {"fetch", "fetchDefault"}
      [] stage = "create"       -> {"createScreen"}
      [] stage = "baseUrl"      -> {"baseUrl"}
      [] stage = "client"       -> {"client"}
      [] stage = "imageRequest" -> {"imageRequest"}
      [] OTHER                  -> Code

BottomOK(stage, s) == s # <<>> => s[1].code \in StageCode(stage)

BackOK(stage, s, r) ==
    s = <<>> /\ r.k = "ok" =>
        /\ stage = "client" => r.v \in Clients
        /\ stage = "imageRequest" => r.v \in Items \cup {Null}

LocalsOK(stage, cl, rq) ==
    /\ stage \in {"imageRequest", "baseUrl"} => cl \in Clients
    /\ stage = "baseUrl" => rq \in Items

\* A VM error the operation must not survive is the result at hand, raised
\* below the method that the stage invokes and with no native on its way that
\* drops it.
PendingOK(rs, r, stage, s) ==
    \A x \in rs :
        \/ Survivable(x)
        \/ /\ r.k = "fatal" /\ r.cls = x.e /\ Lossless(s)
           /\ stage \in {"fetch", "create", "baseUrl"} => x.at \in StageCode(stage)

OpOK == \E name, stage : op = [name |-> name, stage |-> stage]

IdleOK == op = Idle => stack = <<>> /\ sent = <<>> /\ raised = {}

BridgeInv ==
    /\ OpOK /\ IdleOK
    /\ StackOK(stack, Len(chains), result)
    /\ ChainsOK(chains) /\ PathsOK(stack, chains)
    /\ SentOK(sent, chains)
    /\ HostReachedOnlyWithGrant
    /\ BottomOK(op.stage, stack)
    /\ BackOK(op.stage, stack, result)
    /\ LocalsOK(op.stage, client, request)
    /\ PendingOK(raised, result, op.stage, stack)

\* Interceptors are code of their own, and the chain of a client's call is
\* made of them.
LEMMA InterceptorNames ==
    /\ Interceptor \subseteq Code
    /\ \A cl \in Client : cl.ints \o cl.nets \in Seq(Interceptor)
    /\ \A x \in Interceptor : /\ x \notin SourceCode /\ x \notin Wrappers
                              /\ x \notin {"fetchDefault", "getDefault", "callback"}
<1>1. Interceptor \subseteq Code
  BY DEF Interceptor, Code, GuestCode, Native
<1>2. ASSUME NEW cl \in Client
      PROVE  cl.ints \o cl.nets \in Seq(Interceptor)
  <2>1. cl.ints \in Seq(STRING) /\ cl.nets \in Seq(STRING)
    BY InterceptorAssumption
  <2>2. ToSet(cl.ints) \cup ToSet(cl.nets) \subseteq Interceptor
    <3>1. ToSet(cl.ints) \cup ToSet(cl.nets)
            \subseteq UNION {ToSet(c.ints) \cup ToSet(c.nets) : c \in Client}
      BY Zenon
    <3> QED
      BY <3>1, SMT DEF Interceptor, InterceptorCode
  <2>4. \A j \in DOMAIN cl.ints : cl.ints[j] \in Interceptor
    BY <2>2, Zenon DEF ToSet
  <2>5. \A j \in DOMAIN cl.nets : cl.nets[j] \in Interceptor
    BY <2>2, Zenon DEF ToSet
  <2>6. cl.ints \in Seq(Interceptor) /\ cl.nets \in Seq(Interceptor)
    BY <2>1, <2>4, <2>5
  <2> QED
    BY <2>6
<1>3. \A x \in Interceptor : /\ x \notin SourceCode /\ x \notin Wrappers
                             /\ x \notin {"fetchDefault", "getDefault", "callback"}
  BY InterceptorAssumption, Zenon DEF Interceptor
<1> QED
  BY <1>1, <1>2, <1>3

\* The frames below the top one.
LEMMA FrontFrames ==
    ASSUME NEW S, NEW s \in Seq(S), s # <<>>
    PROVE  /\ Front(s) \in Seq(S)
           /\ DOMAIN Front(s) = 1 .. Len(s) - 1 /\ Len(Front(s)) = Len(s) - 1
           /\ \A i \in 1 .. Len(s) - 1 : Front(s)[i] = s[i]
           /\ Len(s) \in DOMAIN s /\ Last(s) = s[Len(s)] /\ Last(s) \in S
           /\ Len(s) \in Nat \ {0} /\ DOMAIN s = 1 .. Len(s)
<1>1. Len(s) \in Nat \ {0} /\ DOMAIN s = 1 .. Len(s)
  OBVIOUS
<1>2. Front(s) = [i \in 1 .. Len(s) - 1 |-> s[i]]
  BY <1>1 DEF Front
<1>3. Len(s) - 1 \in Nat /\ \A i \in 1 .. Len(s) - 1 : s[i] \in S
  BY <1>1
<1>4. Front(s) \in Seq(S) /\ Len(Front(s)) = Len(s) - 1
  BY <1>2, <1>3
<1>5. Len(s) \in DOMAIN s /\ s[Len(s)] \in S
  BY <1>1
<1> QED
  BY <1>1, <1>2, <1>4, <1>5 DEF Last

\* t has the bottom frame's code of s, or is empty.
SameBottom(s, t) == t # <<>> => s # <<>> /\ t[1].code = s[1].code

\* Popping the top frame.
LEMMA PopFrames ==
    ASSUME NEW s, NEW n, NEW r, StackOK(s, n, r), s # <<>>
    PROVE  Suspended(Front(s), n) /\ SameBottom(s, Front(s))
           /\ (Front(s) = <<>> => Last(s) = s[1])
           /\ (Lossless(s) => Lossless(Front(s)))
<1>1. s \in Seq(FrameRec)
  BY DEF StackOK, FramesOK
<1>2. /\ Front(s) \in Seq(FrameRec) /\ DOMAIN Front(s) = 1 .. Len(s) - 1
      /\ \A i \in 1 .. Len(s) - 1 : Front(s)[i] = s[i]
      /\ Len(s) \in Nat \ {0} /\ DOMAIN s = 1 .. Len(s) /\ Last(s) = s[Len(s)]
      /\ Len(Front(s)) = Len(s) - 1
  BY <1>1, FrontFrames
<1>3. Suspended(Front(s), n)
  BY <1>2 DEF Suspended, FramesOK, StackOK
<1>4. SameBottom(s, Front(s))
  <2> SUFFICES ASSUME Front(s) # <<>> PROVE Front(s)[1] = s[1]
    BY DEF SameBottom
  <2>1. Len(s) - 1 # 0
    BY <1>2
  <2> QED
    BY <1>2, <2>1
<1>5. Front(s) = <<>> => Len(s) = 1
  <2>1. Front(s) = <<>> => Len(Front(s)) = 0
    OBVIOUS
  <2>2. Len(Front(s)) = Len(s) - 1 /\ Len(s) \in Nat
    BY <1>2
  <2> QED
    BY <2>1, <2>2
<1>6. Lossless(s) => Lossless(Front(s))
  BY <1>2 DEF Lossless
<1> QED
  BY <1>2, <1>3, <1>4, <1>5, <1>6

\* The frame on top waits where it is, or moves on to step k and waits.
LEMMA TopWaits ==
    ASSUME NEW s, NEW n, NEW r, StackOK(s, n, r), s # <<>>, Last(s).code \notin Deferring
    PROVE  Suspended(s, n)
<1>1. s \in Seq(FrameRec)
  BY DEF StackOK, FramesOK
<1>2. Len(s) \in Nat \ {0} /\ DOMAIN s = 1 .. Len(s) /\ Last(s) = s[Len(s)]
  BY <1>1, FrontFrames
<1>3. \A i \in DOMAIN s : i < Len(s) \/ i = Len(s)
  BY <1>2
<1> QED
  BY <1>2, <1>3 DEF StackOK, Suspended

LEMMA TopMovesOn ==
    ASSUME NEW s, NEW n, NEW r, StackOK(s, n, r), s # <<>>, NEW k \in Nat \ {0}
    PROVE  LET t == Append(Front(s), [Last(s) EXCEPT !.pc = k])
           IN  Suspended(t, n) /\ t # <<>> /\ t[1].code = s[1].code
               /\ (Lossless(s) => Lossless(t))
<1> DEFINE f == [Last(s) EXCEPT !.pc = k]
           t == Append(Front(s), f)
<1>1. s \in Seq(FrameRec)
  BY DEF StackOK, FramesOK
<1>2. /\ Front(s) \in Seq(FrameRec) /\ Len(Front(s)) = Len(s) - 1
      /\ \A i \in 1 .. Len(s) - 1 : Front(s)[i] = s[i]
      /\ Len(s) \in Nat \ {0} /\ DOMAIN s = 1 .. Len(s)
      /\ Last(s) = s[Len(s)] /\ Last(s) \in FrameRec
  BY <1>1, FrontFrames
<1>3. f \in FrameRec /\ f.code = Last(s).code /\ f.chain = Last(s).chain /\ f.pc = k
  BY <1>2 DEF FrameRec
<1> HIDE DEF f
<1>4. /\ t \in Seq(FrameRec) /\ DOMAIN t = 1 .. Len(s) /\ t[Len(s)] = f /\ t # <<>>
      /\ \A i \in 1 .. Len(s) - 1 : t[i] = s[i]
  BY <1>2, <1>3
<1> HIDE DEF t
<1>5. ASSUME NEW i \in DOMAIN t
      PROVE  /\ t[i].code \in Interceptor => t[i].chain \in 1 .. n
             /\ t[i].code \in Deferring => t[i].pc # 0
             /\ t[i].code = s[i].code
  <2>1. CASE i = Len(s)
    BY <2>1, <1>2, <1>3, <1>4 DEF StackOK, FramesOK
  <2>2. CASE i # Len(s)
    <3>1. i \in 1 .. Len(s) - 1 /\ i < Len(s)
      BY <2>2, <1>2, <1>4
    <3> QED
      BY <3>1, <1>2, <1>4 DEF StackOK, FramesOK
  <2> QED
    BY <2>1, <2>2
<1>6. 1 \in DOMAIN t
  BY <1>2, <1>4
<1>7. Lossless(s) => Lossless(t)
  BY <1>2, <1>4, <1>5 DEF Lossless
<1> QED
  BY <1>4, <1>5, <1>6, <1>7 DEF Suspended, FramesOK, t, f

\* Pushing a frame on waiting ones.
LEMMA PushFrame ==
    ASSUME NEW s, NEW n, Suspended(s, n), NEW f \in FrameRec, NEW r,
           f.code \in Interceptor => f.chain \in 1 .. n
    PROVE  LET t == Append(s, f)
           IN  /\ r.k # "fatal" => StackOK(t, n, r)
               /\ f.code \notin Deferring => Suspended(t, n)
               /\ t # <<>> /\ t[1] = (IF s = <<>> THEN f ELSE s[1])
<1> DEFINE t == Append(s, f)
<1>1. s \in Seq(FrameRec) /\ Len(s) \in Nat /\ DOMAIN s = 1 .. Len(s)
  BY DEF Suspended, FramesOK
<1>2. /\ t \in Seq(FrameRec) /\ Len(t) = Len(s) + 1 /\ DOMAIN t = 1 .. Len(s) + 1
      /\ t[Len(s) + 1] = f /\ t # <<>>
      /\ \A i \in 1 .. Len(s) : t[i] = s[i]
  BY <1>1
<1>3. t[1] = (IF s = <<>> THEN f ELSE s[1])
  BY <1>1
<1> HIDE DEF t
<1>4. FramesOK(t, n)
  BY <1>1, <1>2 DEF FramesOK, Suspended
<1>5. \A i \in DOMAIN t : i # Len(t) /\ t[i].code \in Deferring => t[i].pc # 0
  BY <1>1, <1>2 DEF Suspended
<1>6. StackOK(t, n, r) \/ r.k = "fatal"
  <2>1. \A i \in DOMAIN t : i < Len(t) => i # Len(t)
    BY <1>1, <1>2
  <2> QED
    BY <1>4, <1>5, <2>1 DEF StackOK
<1>7. f.code \notin Deferring => Suspended(t, n)
  BY <1>4, <1>5, <1>2 DEF Suspended
<1> QED
  BY <1>2, <1>3, <1>6, <1>7 DEF t

LEMMA WaitingIsOK ==
    ASSUME NEW s, NEW n, NEW r, Suspended(s, n)
    PROVE  StackOK(s, n, r)
  BY DEF Suspended, StackOK

\* One more chain takes nothing from the frames.
LEMMA MoreChains ==
    ASSUME NEW s, NEW n \in Nat, Suspended(s, n)
    PROVE  Suspended(s, n + 1)
<1>1. \A c \in 1 .. n : c \in 1 .. n + 1
  OBVIOUS
<1> QED
  BY <1>1 DEF Suspended, FramesOK

-----------------------------------------------------------------------------
(* Bridge: the frames of a chain.                                          *)

\* A frame that has not proceeded is where it was, with all frames of its
\* chain.
LEMMA LineMoves ==
    ASSUME NEW s, NEW t, NEW c, NEW ch, ch.pos \in Nat,
           Mine(s, c) \subseteq Int, LineOK(s, c, ch),
           \A m \in Mine(t, c) : t[m].pc = 0 =>
               Mine(t, c) = Mine(s, c) /\ \A i \in Mine(s, c) : t[i] = s[i]
    PROVE  LineOK(t, c, ch)
<1> SUFFICES ASSUME NEW m \in Mine(t, c), t[m].pc = 0
             PROVE  /\ \A i \in Mine(t, c) : i <= m
                    /\ (\A i \in Mine(t, c) : i # m => t[i].pc = 1) => Line(t, c, ch, m)
  BY DEF LineOK
<1>1. Mine(t, c) = Mine(s, c) /\ \A i \in Mine(s, c) : t[i] = s[i]
  OBVIOUS
<1>2. m \in Mine(s, c) /\ s[m].pc = 0 /\ m \in Int
  BY <1>1
<1>3. \A i \in Mine(t, c) : i <= m
  BY <1>1, <1>2 DEF LineOK
<1>4. ASSUME \A i \in Mine(t, c) : i # m => t[i].pc = 1
      PROVE  Line(t, c, ch, m)
  <2>1. Line(s, c, ch, m)
    BY <1>1, <1>2, <1>4 DEF LineOK
  <2>2. m - ch.pos \in Mine(s, c) /\ \A k \in 1 .. ch.pos : m - ch.pos + k \in Mine(s, c)
    <3> DEFINE q == ch.pos
    <3>1. Mine(s, c) = (m - q) .. m
      BY <2>1, Zenon DEF Line
    <3>2. q \in Nat
      OBVIOUS
    <3> HIDE DEF q
    <3>3. m - q \in (m - q) .. m /\ \A k \in 1 .. q : m - q + k \in (m - q) .. m
      BY <3>2, <1>2
    <3> QED
      BY <3>1, <3>3 DEF q
  <2> QED
    BY <2>1, <2>2, <1>1 DEF Line
<1> QED
  BY <1>3, <1>4

\* With no frames there is nothing to say.
LEMMA PathsEmpty == \A cs : PathsOK(<<>>, cs)
  BY DEF PathsOK, LineOK, Mine

LEMMA ChainPos ==
    ASSUME NEW cs, ChainsOK(cs), NEW c \in DOMAIN cs
    PROVE  /\ cs[c] \in ChainRec /\ cs[c].pos \in Nat /\ cs[c].ints \in Seq(Interceptor)
           /\ Len(cs[c].ints) \in Nat /\ cs[c].ints # <<>> /\ cs[c].pos <= Len(cs[c].ints)
           /\ DOMAIN cs[c].ints = 1 .. Len(cs[c].ints)
<1>1. ChainOK(cs[c])
  BY DEF ChainsOK
<1>2. cs[c].pos \in Nat /\ cs[c].ints \in Seq(Interceptor)
  BY <1>1 DEF ChainOK, ChainRec
<1> QED
  BY <1>1, <1>2 DEF ChainOK

\* Popping the top frame.
LEMMA PathsPop ==
    ASSUME NEW s \in Seq(FrameRec), s # <<>>, NEW cs, ChainsOK(cs), PathsOK(s, cs)
    PROVE  PathsOK(Front(s), cs)
<1> DEFINE t == Front(s)
<1>1. /\ DOMAIN t = 1 .. Len(s) - 1 /\ \A i \in 1 .. Len(s) - 1 : t[i] = s[i]
      /\ Len(s) \in Nat \ {0} /\ DOMAIN s = 1 .. Len(s)
  BY FrontFrames
<1> HIDE DEF t
<1>2. ASSUME NEW c \in DOMAIN cs PROVE LineOK(t, c, cs[c])
  <2>1. LineOK(s, c, cs[c]) /\ Mine(s, c) \subseteq Int /\ cs[c].pos \in Nat
    BY <1>1, ChainPos DEF PathsOK, Mine
  <2>2. ASSUME NEW m \in Mine(t, c), t[m].pc = 0
        PROVE  Mine(t, c) = Mine(s, c) /\ \A i \in Mine(s, c) : t[i] = s[i]
    <3>1. m \in Mine(s, c) /\ s[m].pc = 0 /\ m < Len(s) /\ m \in Int
      BY <1>1, <2>2 DEF Mine
    <3>2. \A i \in Mine(s, c) : i <= m
      BY <2>1, <3>1 DEF LineOK
    <3>3. \A i \in Mine(s, c) : i \in 1 .. Len(s) - 1
      BY <1>1, <3>1, <3>2 DEF Mine
    <3> QED
      BY <1>1, <3>3 DEF Mine
  <2> QED
    BY <2>1, <2>2, LineMoves
<1>3. \A i \in DOMAIN t : t[i].chain # 0 => t[i].chain \in DOMAIN cs
  BY <1>1 DEF PathsOK
<1> QED
  BY <1>2, <1>3 DEF PathsOK, t

\* Pushing a frame of no chain.
LEMMA PathsPush ==
    ASSUME NEW s \in Seq(FrameRec), NEW f, f.chain = 0, NEW cs, ChainsOK(cs), PathsOK(s, cs)
    PROVE  PathsOK(Append(s, f), cs)
<1> DEFINE t == Append(s, f)
<1>1. /\ DOMAIN t = 1 .. Len(s) + 1 /\ t[Len(s) + 1] = f
      /\ \A i \in 1 .. Len(s) : t[i] = s[i]
      /\ Len(s) \in Nat /\ DOMAIN s = 1 .. Len(s)
  OBVIOUS
<1> HIDE DEF t
<1>2. ASSUME NEW c \in DOMAIN cs PROVE LineOK(t, c, cs[c])
  <2>1. LineOK(s, c, cs[c]) /\ Mine(s, c) \subseteq Int /\ cs[c].pos \in Nat
    BY <1>1, ChainPos DEF PathsOK, Mine
  <2>2. c # 0
    BY DEF ChainsOK
  <2>3. \A i \in Mine(t, c) : i \in 1 .. Len(s)
    BY <1>1, <2>2 DEF Mine
  <2>4. Mine(t, c) = Mine(s, c) /\ \A i \in Mine(s, c) : t[i] = s[i]
    BY <1>1, <2>3 DEF Mine
  <2> QED
    BY <2>1, <2>4, LineMoves
<1>3. ASSUME NEW i \in DOMAIN t, t[i].chain # 0 PROVE t[i].chain \in DOMAIN cs
  <2>1. i \in 1 .. Len(s)
    BY <1>1, <1>3
  <2> QED
    BY <1>1, <1>3, <2>1 DEF PathsOK
<1> QED
  BY <1>2, <1>3 DEF PathsOK, t

\* The top frame moves on to step k.
LEMMA PathsMoveOn ==
    ASSUME NEW s \in Seq(FrameRec), s # <<>>, NEW cs, ChainsOK(cs), PathsOK(s, cs),
           NEW k \in Nat \ {0}
    PROVE  LET t == Append(Front(s), [Last(s) EXCEPT !.pc = k])
           IN  /\ PathsOK(t, cs)
               /\ k = Last(s).pc + 1 /\ Last(s).chain \in DOMAIN cs =>
                    Proceeding(t, Last(s).chain, cs[Last(s).chain])
<1> DEFINE f == [Last(s) EXCEPT !.pc = k]
           t == Append(Front(s), f)
           L == Len(s)
<1>1. /\ Front(s) \in Seq(FrameRec) /\ Len(Front(s)) = L - 1
      /\ \A i \in 1 .. L - 1 : Front(s)[i] = s[i]
      /\ L \in Nat \ {0} /\ DOMAIN s = 1 .. L
      /\ Last(s) = s[L] /\ Last(s) \in FrameRec
  BY FrontFrames
<1>2. f \in FrameRec /\ f.code = s[L].code /\ f.chain = s[L].chain /\ f.pc = k
  BY <1>1 DEF FrameRec
<1> HIDE DEF f
<1>3. /\ DOMAIN t = 1 .. L /\ t[L] = f /\ Len(t) = L
      /\ \A i \in 1 .. L - 1 : t[i] = s[i]
  BY <1>1, <1>2
<1> HIDE DEF t, L
<1>4. /\ \A i \in DOMAIN t : t[i].chain = s[i].chain /\ t[i].code = s[i].code
      /\ \A i \in DOMAIN t : i # L => t[i] = s[i]
      /\ DOMAIN t = DOMAIN s /\ L \in DOMAIN s
  <2>1. \A i \in 1 .. L : i = L \/ i \in 1 .. L - 1
    BY <1>1
  <2> QED
    BY <1>1, <1>2, <1>3, <2>1
<1>5. \A c : Mine(t, c) = Mine(s, c)
  BY <1>4 DEF Mine
<1>6. ASSUME NEW c \in DOMAIN cs PROVE LineOK(t, c, cs[c])
  <2>1. LineOK(s, c, cs[c]) /\ Mine(s, c) \subseteq Int /\ cs[c].pos \in Nat
    BY <1>1, ChainPos DEF PathsOK, Mine
  <2>2. ASSUME NEW m \in Mine(t, c), t[m].pc = 0
        PROVE  \A i \in Mine(s, c) : t[i] = s[i]
    <3>1. m # L
      BY <2>2, <1>2, <1>3
    <3>2. m \in Mine(s, c) /\ s[m].pc = 0 /\ m \in 1 .. L
      BY <2>2, <3>1, <1>1, <1>4, <1>5 DEF Mine
    <3>3. L \notin Mine(s, c)
      BY <2>1, <3>1, <3>2, <1>1 DEF LineOK
    <3> QED
      BY <3>3, <1>4 DEF Mine
  <2> QED
    BY <2>1, <2>2, <1>5, LineMoves
<1>7. PathsOK(t, cs)
  BY <1>4, <1>6 DEF PathsOK
<1>8. ASSUME k = Last(s).pc + 1, Last(s).chain \in DOMAIN cs
      PROVE  Proceeding(t, Last(s).chain, cs[Last(s).chain])
  <2> DEFINE c == Last(s).chain
  <2>1. LineOK(s, c, cs[c]) /\ cs[c].pos \in Nat
    BY <1>8, ChainPos DEF PathsOK
  <2>2. L \in Mine(s, c)
    BY <1>1, <1>4 DEF Mine
  <2> HIDE DEF c
  <2>3. ASSUME NEW i \in Mine(t, c) PROVE t[i].pc # 0
    <3>1. i \in Mine(s, c) /\ i \in 1 .. L
      BY <2>3, <1>1, <1>5 DEF Mine
    <3>2. CASE i = L
      BY <3>2, <1>2, <1>3
    <3>3. CASE i # L
      <4>1. s[i].pc = 0 => L <= i
        BY <3>1, <2>1, <2>2 DEF LineOK
      <4> QED
        BY <4>1, <3>1, <3>3, <1>1, <1>4
    <3> QED
      BY <3>2, <3>3
  <2>4. ASSUME \A i \in Mine(t, c) : t[i].pc = 1
        PROVE  Line(t, c, cs[c], Len(t))
    <3>1. k = 1
      BY <2>2, <2>4, <1>2, <1>3, <1>5
    <3>2. s[L].pc = 0
      <4>1. s[L].pc \in Nat
        BY <1>1 DEF FrameRec
      <4> QED
        BY <4>1, <3>1, <1>1, <1>8
    <3>3. \A i \in Mine(s, c) : i # L => s[i].pc = 1
      <4>1. \A i \in Mine(s, c) : i \in DOMAIN t
        BY <1>4 DEF Mine
      <4> QED
        BY <4>1, <2>4, <1>4, <1>5
    <3>4. Line(s, c, cs[c], L)
      BY <3>2, <3>3, <2>1, <2>2 DEF LineOK
    <3>5. /\ L - cs[c].pos \in Mine(s, c)
          /\ \A j \in 1 .. cs[c].pos : L - cs[c].pos + j \in Mine(s, c)
      BY <3>4, <2>1, <1>1 DEF Line
    <3>6. \A i \in Mine(s, c) : t[i].code = s[i].code
      BY <1>4 DEF Mine
    <3> QED
      BY <3>4, <3>5, <3>6, <1>3, <1>5 DEF Line
  <2> QED
    BY <2>3, <2>4 DEF Proceeding, c
<1> QED
  BY <1>7, <1>8 DEF t, f

\* A new chain: its first interceptor runs, at position 0.
LEMMA PathsCall ==
    ASSUME NEW s \in Seq(FrameRec), NEW cs, ChainsOK(cs), PathsOK(s, cs),
           NEW ch \in ChainRec, ch.pos = 0, NEW f, f.chain = Len(cs) + 1, f.code = ch.ints[1]
    PROVE  PathsOK(Append(s, f), Append(cs, ch))
<1> DEFINE t  == Append(s, f)
           ds == Append(cs, ch)
           n  == Len(cs) + 1
<1>1. /\ DOMAIN t = 1 .. Len(s) + 1 /\ t[Len(s) + 1] = f
      /\ \A i \in 1 .. Len(s) : t[i] = s[i]
      /\ Len(s) \in Nat /\ DOMAIN s = 1 .. Len(s)
  OBVIOUS
<1>2. /\ Len(cs) \in Nat /\ DOMAIN cs = 1 .. Len(cs) /\ DOMAIN ds = 1 .. n /\ ds[n] = ch
      /\ \A c \in 1 .. Len(cs) : ds[c] = cs[c]
      /\ n \in Nat \ {0} /\ n \notin DOMAIN cs
  <2>1. cs \in Seq(ChainRec)
    BY DEF ChainsOK
  <2> QED
    BY <2>1
<1>3. f.chain = n
  OBVIOUS
<1> HIDE DEF t, ds, n
<1>4. Mine(s, n) = {}
  BY <1>2 DEF PathsOK, Mine
<1>5. Mine(t, n) = {Len(s) + 1}
  <2>1. Len(s) + 1 \in Mine(t, n)
    BY <1>1, <1>3 DEF Mine
  <2>2. ASSUME NEW i \in Mine(t, n) PROVE i = Len(s) + 1
    <3> SUFFICES ASSUME i \in 1 .. Len(s) PROVE FALSE
      BY <2>2, <1>1 DEF Mine
    <3> QED
      BY <2>2, <1>1, <1>4 DEF Mine
  <2> QED
    BY <2>1, <2>2
<1>6. LineOK(t, n, ds[n])
  <2> DEFINE m == Len(s) + 1
  <2>1. m - ch.pos = m /\ (m - ch.pos) .. m = {m} /\ 1 .. ch.pos = {} /\ m \in Int
    BY <1>1
  <2>2. Line(t, n, ch, m)
    BY <2>1, <1>1, <1>5 DEF Line
  <2> QED
    BY <2>1, <2>2, <1>2, <1>5 DEF LineOK
<1>7. ASSUME NEW c \in DOMAIN cs PROVE LineOK(t, c, ds[c])
  <2>1. LineOK(s, c, cs[c]) /\ Mine(s, c) \subseteq Int /\ cs[c].pos \in Nat
    BY <1>1, ChainPos DEF PathsOK, Mine
  <2>2. \A i \in Mine(t, c) : i \in 1 .. Len(s)
    BY <1>1, <1>2, <1>3 DEF Mine
  <2>3. Mine(t, c) = Mine(s, c) /\ \A i \in Mine(s, c) : t[i] = s[i]
    BY <1>1, <2>2 DEF Mine
  <2>4. LineOK(t, c, cs[c])
    BY <2>1, <2>3, LineMoves
  <2> QED
    BY <2>4, <1>2
<1>8. ASSUME NEW i \in DOMAIN t, t[i].chain # 0 PROVE t[i].chain \in DOMAIN ds
  <2>1. CASE i = Len(s) + 1
    BY <2>1, <1>1, <1>2, <1>3
  <2>2. CASE i # Len(s) + 1
    <3>1. i \in 1 .. Len(s)
      BY <2>2, <1>1
    <3>2. t[i].chain \in DOMAIN cs
      BY <3>1, <1>1, <1>8 DEF PathsOK
    <3> QED
      BY <3>2, <1>2
  <2> QED
    BY <2>1, <2>2
<1>9. \A c \in DOMAIN ds : c = n \/ c \in DOMAIN cs
  BY <1>2 DEF n
<1> QED
  BY <1>6, <1>7, <1>8, <1>9 DEF PathsOK, t, ds

\* A chain keeps its interceptors and its position.
LEMMA PathsRequest ==
    ASSUME NEW s \in Seq(FrameRec), NEW cs, ChainsOK(cs), PathsOK(s, cs), NEW c \in DOMAIN cs,
           NEW d, d.ints = cs[c].ints, d.pos = cs[c].pos
    PROVE  PathsOK(s, [cs EXCEPT ![c] = d])
<1> DEFINE ds == [cs EXCEPT ![c] = d]
<1>1. /\ DOMAIN ds = DOMAIN cs /\ ds[c] = d
      /\ \A b \in DOMAIN cs : b # c => ds[b] = cs[b]
  BY DEF ChainsOK
<1> HIDE DEF ds
<1>2. LineOK(s, c, d)
  BY DEF PathsOK, LineOK, Line
<1>3. \A b \in DOMAIN ds : LineOK(s, b, ds[b])
  BY <1>1, <1>2 DEF PathsOK
<1> QED
  BY <1>1, <1>3 DEF PathsOK, ds

\* The chain invokes its next interceptor.
LEMMA PathsProceed ==
    ASSUME NEW s \in Seq(FrameRec), NEW cs, ChainsOK(cs), PathsOK(s, cs), NEW c \in DOMAIN cs,
           Proceeding(s, c, cs[c]),
           NEW d, d.ints = cs[c].ints, d.pos = cs[c].pos + 1,
           NEW f, f.chain = c, f.code = cs[c].ints[cs[c].pos + 1]
    PROVE  PathsOK(Append(s, f), [cs EXCEPT ![c] = d])
<1> DEFINE t  == Append(s, f)
           ds == [cs EXCEPT ![c] = d]
           m  == Len(s) + 1
<1>1. /\ DOMAIN t = 1 .. m /\ t[m] = f
      /\ \A i \in 1 .. Len(s) : t[i] = s[i]
      /\ Len(s) \in Nat /\ DOMAIN s = 1 .. Len(s) /\ m \in Nat /\ m = Len(s) + 1
  OBVIOUS
<1>2. /\ DOMAIN ds = DOMAIN cs /\ ds[c] = d
      /\ \A b \in DOMAIN cs : b # c => ds[b] = cs[b]
  BY DEF ChainsOK
<1> HIDE DEF t, ds, m
<1>3. cs[c].pos \in Nat
  BY ChainPos
<1>4. Mine(t, c) = Mine(s, c) \cup {m} /\ \A i \in Mine(s, c) : i # m /\ t[i] = s[i]
  <2>1. \A i \in 1 .. m : i = m \/ i \in 1 .. Len(s)
    BY <1>1
  <2>2. \A i \in 1 .. Len(s) : i \in 1 .. m /\ i # m
    BY <1>1
  <2>3. m \in 1 .. m
    BY <1>1
  <2> QED
    BY <1>1, <2>1, <2>2, <2>3 DEF Mine
<1>5. LineOK(t, c, d)
  <2> SUFFICES ASSUME NEW p \in Mine(t, c), t[p].pc = 0
               PROVE  /\ \A i \in Mine(t, c) : i <= p
                      /\ (\A i \in Mine(t, c) : i # p => t[i].pc = 1) => Line(t, c, d, p)
    BY DEF LineOK
  <2>1. p = m
    BY <1>4 DEF Proceeding
  <2>2. \A i \in Mine(t, c) : i <= p
    BY <2>1, <1>1 DEF Mine
  <2>3. ASSUME \A i \in Mine(t, c) : i # p => t[i].pc = 1 PROVE Line(t, c, d, p)
    <3>1. \A i \in Mine(s, c) : s[i].pc = 1
      BY <2>1, <2>3, <1>4
    <3>2. Line(s, c, cs[c], Len(s))
      BY <3>1 DEF Proceeding
    <3> DEFINE b == Len(s) - cs[c].pos
               k == cs[c].pos
    <3>3. /\ b \in Int /\ k \in Nat /\ m - d.pos = b /\ d.pos = k + 1 /\ b + k = Len(s)
      BY <1>1, <1>3
    <3>4. /\ Mine(s, c) = b .. Len(s) /\ s[b].code = cs[c].ints[1]
          /\ \A j \in 1 .. k : s[b + j].code = cs[c].ints[j]
      BY <3>2 DEF Line
    <3> HIDE DEF b, k
    <3>5. Mine(t, c) = b .. m
      <4>1. b <= m
        BY <3>3, <1>1
      <4> QED
        BY <4>1, <3>3, <3>4, <1>1, <1>4
    <3>6. b \in Mine(s, c) /\ \A j \in 1 .. k : b + j \in Mine(s, c)
      BY <3>3, <3>4, <1>1
    <3>7. t[b].code = d.ints[1]
      BY <3>4, <3>6, <1>4
    <3>8. ASSUME NEW j \in 1 .. k + 1 PROVE t[b + j].code = d.ints[j]
      <4>1. CASE j = k + 1
        <5>1. b + j = m /\ f.code = d.ints[j]
          BY <4>1, <3>3, <1>1 DEF k
        <5> QED
          BY <5>1, <1>1
      <4>2. CASE j # k + 1
        <5>1. j \in 1 .. k
          BY <4>2, <3>3
        <5> QED
          BY <5>1, <3>4, <3>6, <1>4
      <4> QED
        BY <4>1, <4>2
    <3> QED
      BY <3>3, <3>5, <3>7, <3>8, <2>1 DEF Line
  <2> QED
    BY <2>2, <2>3
<1>6. ASSUME NEW e \in DOMAIN cs, e # c PROVE LineOK(t, e, cs[e])
  <2>1. LineOK(s, e, cs[e]) /\ Mine(s, e) \subseteq Int /\ cs[e].pos \in Nat
    BY <1>1, ChainPos DEF PathsOK, Mine
  <2>2. \A i \in Mine(t, e) : i \in 1 .. Len(s)
    BY <1>1, <1>6 DEF Mine
  <2>3. \A i \in 1 .. Len(s) : i \in 1 .. m
    BY <1>1
  <2>4. Mine(t, e) = Mine(s, e) /\ \A i \in Mine(s, e) : t[i] = s[i]
    BY <1>1, <2>2, <2>3 DEF Mine
  <2> QED
    BY <2>1, <2>4, LineMoves
<1>7. \A e \in DOMAIN ds : LineOK(t, e, ds[e])
  BY <1>2, <1>5, <1>6
<1>8. ASSUME NEW i \in DOMAIN t, t[i].chain # 0 PROVE t[i].chain \in DOMAIN ds
  <2>1. CASE i = m
    BY <2>1, <1>1, <1>2
  <2>2. CASE i # m
    <3>1. i \in 1 .. Len(s)
      BY <2>2, <1>1
    <3> QED
      BY <3>1, <1>1, <1>2, <1>8 DEF PathsOK
  <2> QED
    BY <2>1, <2>2
<1> QED
  BY <1>7, <1>8 DEF PathsOK, t, ds

\* Past its last interceptor, the chain has them all on the stack.
LEMMA HandledWhenPast ==
    ASSUME NEW s \in Seq(FrameRec), NEW c, NEW ch \in ChainRec, Proceeding(s, c, ch),
           ch.pos = Len(ch.ints)
    PROVE  Once(Handling(s, c)) => HandledByAll(Handling(s, c), ch.ints)
<1> SUFFICES ASSUME Once(Handling(s, c)) PROVE HandledByAll(Handling(s, c), ch.ints)
  OBVIOUS
<1> DEFINE by == Handling(s, c)
           n  == Len(ch.ints)
           b  == Len(s) - n
<1>1. DOMAIN by = Mine(s, c) /\ \A i \in Mine(s, c) : by[i] = s[i]
  BY DEF Handling, Mine
<1>2. n \in Nat /\ DOMAIN ch.ints = 1 .. n /\ Len(s) \in Nat
  BY DEF ChainRec
<1> HIDE DEF by
<1>3. Line(s, c, ch, Len(s))
  BY <1>1 DEF Once, Proceeding, by
<1>4. /\ b \in Int /\ b + n = Len(s) /\ Mine(s, c) = b .. Len(s)
      /\ s[b].code = ch.ints[1]
      /\ \A k \in 1 .. n : s[b + k].code = ch.ints[k]
  <2>1. /\ Mine(s, c) = (Len(s) - n) .. Len(s)
        /\ s[Len(s) - n].code = ch.ints[1]
        /\ \A k \in 1 .. n : s[Len(s) - n + k].code = ch.ints[k]
    BY <1>3, Zenon DEF Line
  <2>2. b \in Int /\ b + n = Len(s)
    BY <1>2
  <2> QED
    BY <2>1, <2>2
<1> HIDE DEF b, n
<1>5. b \in Mine(s, c) /\ \A k \in 1 .. n : b + k \in Mine(s, c)
  BY <1>2, <1>4
<1>6. /\ DOMAIN by = b .. b + n /\ by[b].code = ch.ints[1] /\ b \in DOMAIN by
      /\ \A k \in DOMAIN ch.ints : by[b + k].code = ch.ints[k]
  BY <1>1, <1>2, <1>4, <1>5
<1> QED
  BY <1>6 DEF HandledByAll, by, n

-----------------------------------------------------------------------------
(* Bridge: calls and chains.                                               *)

\* A VM error is raised and is the result, or none is raised.
RaisedStep ==
    \/ raised' = raised
    \/ /\ result' = Fatal("Resolution")
       /\ raised' = raised \cup {Raised("Resolution")}
       /\ Lossless(stack) => Lossless(stack')

\* A call from the frames s: they get its answer, or an interceptor runs
\* above them.
CallStep(s) ==
    /\ ChainsOK(chains') /\ StackOK(stack', Len(chains'), result')
    /\ PathsOK(stack', chains')
    /\ SentOK(sent', chains') /\ HostReachedOnlyWithGrant'
    /\ RaisedStep
    /\ s # <<>> => stack' # <<>> /\ stack'[1] = s[1]

\* A request reaches the host only past the permission check.
LEMMA HostExecuteStep ==
    ASSUME NEW s, NEW req, NEW c, NEW by, NEW cs,
           HostExecute(s, req, c, by), UNCHANGED grants,
           SentOK(sent, cs), HostReachedOnlyWithGrant, Lossless(stack) => Lossless(s),
           c # 0 => c \in DOMAIN cs /\ (Once(by) => HandledByAll(by, cs[c].ints))
    PROVE  stack' = s /\ SentOK(sent', cs) /\ HostReachedOnlyWithGrant' /\ RaisedStep
<1>1. ASSUME UNCHANGED sent
      PROVE  SentOK(sent', cs) /\ HostReachedOnlyWithGrant'
  <2>1. \A n \in DOMAIN sent : Permitted(sent[n].req.url)'
    BY <1>1 DEF HostReachedOnlyWithGrant, Permitted
  <2> QED
    BY <1>1, <2>1 DEF HostReachedOnlyWithGrant
<1>2. CASE /\ Deliver(s, Fatal("Resolution"))
           /\ Log(Fatal("Resolution"))
           /\ UNCHANGED sent
  <2>1. stack' = s /\ result' = Fatal("Resolution")
    BY <1>2 DEF Deliver, Fatal
  <2>2. raised' = raised \cup {Raised("Resolution")}
    BY <1>2 DEF Log, Fatal
  <2>3. RaisedStep
    BY <2>1, <2>2 DEF RaisedStep
  <2> QED
    BY <1>1, <1>2, <2>1, <2>3
<1>3. CASE /\ Deliver(s, Throw("SecurityException"))
           /\ UNCHANGED <<sent, raised>>
  BY <1>1, <1>3 DEF RaisedStep, Deliver
<1>4. CASE /\ Deliver(s, Throw("UnsupportedOperationException"))
           /\ UNCHANGED <<sent, raised>>
  BY <1>1, <1>4 DEF RaisedStep, Deliver
<1>5. CASE /\ Permitted(req.url)
           /\ \E code \in ResponseCode : Deliver(s, Ok(Response(code, req)))
           /\ sent' = <<[req |-> req, chain |-> c, by |-> by]>>
           /\ UNCHANGED raised
  <2> DEFINE e == [req |-> req, chain |-> c, by |-> by]
  <2>1. e.req = req /\ e.chain = c /\ e.by = by
    OBVIOUS
  <2>2. sent' = <<e>>
    BY <1>5
  <2> HIDE DEF e
  <2>3. DOMAIN sent' = {1} /\ sent'[1] = e
    BY <2>2
  <2>4. SentOK(sent', cs)
    BY <2>1, <2>3 DEF SentOK
  <2>5. Permitted(req.url)'
    BY <1>5 DEF Permitted
  <2>6. HostReachedOnlyWithGrant'
    BY <2>1, <2>3, <2>5 DEF HostReachedOnlyWithGrant, Permitted
  <2> QED
    BY <1>5, <2>4, <2>6 DEF RaisedStep, Deliver
<1> QED
  BY <1>2, <1>3, <1>4, <1>5 DEF HostExecute

\* okhttp_call_execute: a new chain is at its start, and its first
\* interceptor runs.
LEMMA CallExecuteStep ==
    ASSUME NEW s, NEW cl \in Client, NEW req \in Request, NEW canceled,
           CallExecute(s, cl, req, canceled), UNCHANGED grants,
           Suspended(s, Len(chains)), ChainsOK(chains), PathsOK(s, chains),
           Lossless(stack) => Lossless(s),
           SentOK(sent, chains), HostReachedOnlyWithGrant
    PROVE  CallStep(s)
<1> DEFINE ints == cl.ints \o cl.nets
<1>1. ints \in Seq(Interceptor)
  BY InterceptorNames
<1>2. Len(chains) \in Nat /\ DOMAIN chains = 1 .. Len(chains) /\ chains \in Seq(ChainRec)
  BY DEF ChainsOK
<1>3. UNCHANGED sent => HostReachedOnlyWithGrant'
  BY DEF HostReachedOnlyWithGrant, Permitted
<1> HIDE DEF ints
<1>4. CASE canceled
  <2>1. Deliver(s, Throw("IOException")) /\ UNCHANGED <<chains, sent, raised>>
    BY <1>4 DEF CallExecute
  <2>2. StackOK(s, Len(chains), result')
    BY WaitingIsOK
  <2> QED
    BY <2>1, <2>2, <1>3 DEF CallStep, RaisedStep, Deliver
<1>5. CASE ~canceled /\ ints = <<>>
  <2>1. HostExecute(s, req, 0, <<>>) /\ UNCHANGED chains
    BY <1>5 DEF CallExecute, ints
  <2>2. stack' = s /\ SentOK(sent', chains) /\ HostReachedOnlyWithGrant' /\ RaisedStep
    BY <2>1, HostExecuteStep
  <2>3. StackOK(s, Len(chains), result')
    BY WaitingIsOK
  <2> QED
    BY <2>1, <2>2, <2>3 DEF CallStep
<1>6. CASE ~canceled /\ ints # <<>>
  <2> DEFINE ch == [ints |-> ints, pos |-> 0, req |-> req]
             f  == Frame(ints[1], Len(chains) + 1)
  <2>1. /\ chains' = Append(chains, ch)
        /\ stack' = Append(s, f)
        /\ result' = Running
        /\ UNCHANGED <<sent, raised>>
    BY <1>6 DEF CallExecute, ints
  <2>2. ints[1] \in Interceptor /\ 1 \in DOMAIN ints /\ Len(ints) \in Nat
    BY <1>1, <1>6
  <2>3. ch \in ChainRec /\ ChainOK(ch)
    <3>1. ch \in ChainRec /\ ch.ints = ints /\ ch.pos = 0
      BY <1>1 DEF ChainRec
    <3> QED
      BY <3>1, <2>2, <1>6 DEF ChainOK
  <2>4. f \in FrameRec /\ f.chain = Len(chains) + 1 /\ f.code = ch.ints[1] /\ ch.pos = 0
    BY <2>2, <1>2, InterceptorNames DEF FrameRec, Frame
  <2> HIDE DEF ch, f
  <2>12. PathsOK(stack', chains')
    <3>1. s \in Seq(FrameRec)
      BY DEF Suspended, FramesOK
    <3> QED
      BY <3>1, <2>1, <2>3, <2>4, PathsCall
  <2>5. /\ chains' \in Seq(ChainRec) /\ Len(chains') = Len(chains) + 1
        /\ DOMAIN chains' = 1 .. Len(chains) + 1 /\ chains'[Len(chains) + 1] = ch
        /\ \A c \in 1 .. Len(chains) : chains'[c] = chains[c]
    BY <2>1, <2>3, <1>2
  <2>6. ChainsOK(chains')
    <3> SUFFICES ASSUME NEW c \in 1 .. Len(chains) + 1 PROVE ChainOK(chains'[c])
      BY <2>5 DEF ChainsOK
    <3>1. CASE c = Len(chains) + 1
      BY <3>1, <2>5, <2>3
    <3>2. CASE c # Len(chains) + 1
      <4>1. c \in 1 .. Len(chains)
        BY <3>2, <1>2
      <4> QED
        BY <4>1, <2>5, <1>2 DEF ChainsOK
    <3> QED
      BY <3>1, <3>2
  <2>7. SentOK(sent', chains')
    <3>1. \A c \in 1 .. Len(chains) : c \in DOMAIN chains' /\ chains'[c] = chains[c]
      BY <2>5, <1>2
    <3> QED
      BY <3>1, <2>1, <1>2 DEF SentOK
  <2>8. Suspended(s, Len(chains'))
    BY <2>5, <1>2, MoreChains
  <2>9. /\ StackOK(stack', Len(chains'), result')
        /\ s # <<>> => stack' # <<>> /\ stack'[1] = s[1]
    <3>1. f.chain \in 1 .. Len(chains')
      BY <2>4, <2>5, <1>2
    <3>2. result'.k # "fatal"
      BY <2>1 DEF Running
    <3> QED
      BY <3>1, <3>2, <2>1, <2>4, <2>8, PushFrame
  <2> QED
    BY <2>1, <2>6, <2>7, <2>9, <2>12, <1>3 DEF CallStep, RaisedStep
<1> QED
  BY <1>4, <1>5, <1>6

\* chain_proceed: the interceptor at the chain's position runs, and the
\* host is reached only past the last one.
LEMMA ChainProceedStep ==
    ASSUME NEW s, NEW c \in 1 .. Len(chains), NEW req \in Request,
           ChainProceed(s, c, req), UNCHANGED grants,
           Suspended(s, Len(chains)), ChainsOK(chains), PathsOK(s, chains),
           Proceeding(s, c, chains[c]), Lossless(stack) => Lossless(s),
           SentOK(sent, chains), HostReachedOnlyWithGrant
    PROVE  CallStep(s)
<1> DEFINE ch == chains[c]
<1>1. /\ Len(chains) \in Nat /\ DOMAIN chains = 1 .. Len(chains) /\ chains \in Seq(ChainRec)
      /\ c \in DOMAIN chains /\ s \in Seq(FrameRec)
  BY DEF ChainsOK, Suspended, FramesOK
<1>2. ch \in ChainRec /\ ch.ints # <<>> /\ ch.pos <= Len(ch.ints)
  BY <1>1 DEF ChainsOK, ChainOK
<1>3. /\ ch.ints \in Seq(Interceptor) /\ ch.pos \in Nat
      /\ Len(ch.ints) \in Nat /\ DOMAIN ch.ints = 1 .. Len(ch.ints)
  BY <1>2 DEF ChainRec
\* The chains after a step on chain c that keeps its interceptors.
<1>4. ASSUME NEW d \in ChainRec, ChainOK(d), d.ints = ch.ints, chains' = [chains EXCEPT ![c] = d]
      PROVE  /\ ChainsOK(chains') /\ Len(chains') = Len(chains)
             /\ SentOK(sent, chains')
             /\ c \in DOMAIN chains' /\ chains'[c].ints = ch.ints
  <2>1. /\ chains' \in Seq(ChainRec) /\ Len(chains') = Len(chains) /\ DOMAIN chains' = DOMAIN chains
        /\ chains'[c] = d /\ \A b \in DOMAIN chains : b # c => chains'[b] = chains[b]
    BY <1>4, <1>1
  <2>2. ChainsOK(chains')
    BY <2>1, <1>4 DEF ChainsOK
  <2>3. \A b \in DOMAIN chains : chains'[b].ints = chains[b].ints
    BY <2>1, <1>4
  <2>4. SentOK(sent, chains')
    BY <2>1, <2>3 DEF SentOK
  <2> QED
    BY <2>1, <2>2, <2>4, <1>1, <1>4
<1>5. CASE ch.pos < Len(ch.ints)
  <2> DEFINE i  == ch.ints[ch.pos + 1]
             d0 == [ch EXCEPT !.req = req]
             d  == [d0 EXCEPT !.pos = ch.pos + 1]
             f  == Frame(i, c)
  <2>1. /\ chains' = [chains EXCEPT ![c].req = req, ![c].pos = ch.pos + 1]
        /\ stack' = Append(s, f)
        /\ result' = Running
        /\ UNCHANGED <<sent, raised>>
    BY <1>5 DEF ChainProceed
  <2>2. chains' = [chains EXCEPT ![c] = d]
    BY <2>1, <1>1, <1>2 DEF ChainRec
  <2>3. i \in Interceptor /\ ch.pos + 1 \in 1 .. Len(ch.ints)
    BY <1>3, <1>5
  <2>4. f \in FrameRec /\ f.chain = c /\ f.code = i
    <3>1. c \in Nat
      BY <1>1
    <3> QED
      BY <2>3, <3>1, InterceptorNames DEF FrameRec, Frame
  <2> HIDE DEF f
  <2>5. d \in ChainRec /\ d.ints = ch.ints /\ d.pos = ch.pos + 1
    <3>1. d0 \in ChainRec /\ d0.ints = ch.ints
      BY <1>2 DEF ChainRec
    <3>2. ch.pos + 1 \in Nat
      BY <1>3
    <3> HIDE DEF d0
    <3> QED
      BY <3>1, <3>2 DEF ChainRec
  <2> HIDE DEF d
  <2>6. ChainOK(d)
    BY <2>3, <2>5, <1>2, <1>3 DEF ChainOK
  <2>7. ChainsOK(chains') /\ Len(chains') = Len(chains) /\ SentOK(sent, chains')
    BY <2>2, <2>5, <2>6, <1>4
  <2>8. PathsOK(stack', chains')
    <3>1. PathsOK(Append(s, f), [chains EXCEPT ![c] = d])
      BY <1>1, <2>4, <2>5, PathsProceed, Zenon
    <3> QED
      BY <3>1, <2>1, <2>2
  <2>9. /\ StackOK(stack', Len(chains'), result')
        /\ s # <<>> => stack' # <<>> /\ stack'[1] = s[1]
    <3>1. f.chain \in 1 .. Len(chains')
      BY <2>4, <2>7
    <3>2. result'.k # "fatal"
      BY <2>1 DEF Running
    <3>3. Suspended(s, Len(chains'))
      BY <2>7
    <3> QED
      BY <3>1, <3>2, <3>3, <2>1, <2>4, PushFrame
  <2>10. HostReachedOnlyWithGrant'
    BY <2>1 DEF HostReachedOnlyWithGrant, Permitted
  <2> QED
    BY <2>1, <2>7, <2>8, <2>9, <2>10 DEF CallStep, RaisedStep
<1>6. CASE ~(ch.pos < Len(ch.ints))
  <2> DEFINE d  == [ch EXCEPT !.req = req]
             by == Handling(s, c)
  <2>1. chains' = [chains EXCEPT ![c].req = req] /\ HostExecute(s, req, c, by)
    BY <1>6 DEF ChainProceed
  <2>2. chains' = [chains EXCEPT ![c] = d]
    BY <2>1, <1>1
  <2>3. d \in ChainRec /\ d.ints = ch.ints /\ d.pos = ch.pos
    BY <1>2 DEF ChainRec
  <2>4. ChainOK(d)
    BY <2>3, <1>2 DEF ChainOK
  <2> HIDE DEF d
  <2>5. /\ ChainsOK(chains') /\ Len(chains') = Len(chains)
        /\ SentOK(sent, chains')
        /\ c \in DOMAIN chains' /\ chains'[c].ints = ch.ints
    BY <2>2, <2>3, <2>4, <1>4
  <2>6. ch.pos = Len(ch.ints)
    BY <1>2, <1>3, <1>6
  <2>7. Once(by) => HandledByAll(by, ch.ints)
    <3>1. Proceeding(s, c, ch) /\ s \in Seq(FrameRec)
      BY <1>1
    <3>2. ch \in ChainRec /\ ch.pos = Len(ch.ints)
      BY <2>6, <1>2
    <3> HIDE DEF ch
    <3> QED
      BY <3>1, <3>2, HandledWhenPast
  <2> HIDE DEF by
  <2>8. stack' = s /\ SentOK(sent', chains') /\ HostReachedOnlyWithGrant' /\ RaisedStep
    <3> DEFINE cs == chains'
    <3>1. SentOK(sent, cs) /\ c \in DOMAIN cs /\ (Once(by) => HandledByAll(by, cs[c].ints))
      BY <2>5, <2>7
    <3> HIDE DEF cs
    <3>2. stack' = s /\ SentOK(sent', cs) /\ HostReachedOnlyWithGrant' /\ RaisedStep
      BY <2>1, <3>1, HostExecuteStep
    <3> QED
      BY <3>2 DEF cs
  <2>9. StackOK(s, Len(chains'), result')
    BY <2>5, WaitingIsOK
  <2>10. PathsOK(s, chains')
    BY <1>1, <2>2, <2>3, PathsRequest
  <2> QED
    BY <2>5, <2>8, <2>9, <2>10 DEF CallStep
<1> QED
  BY <1>5, <1>6

-----------------------------------------------------------------------------
(* Bridge: steps below an operation.  They leave the bridge's own state     *)
(* alone.                                                                   *)

AllSurvivable == \A x \in raised : Survivable(x)

\* A result that is no VM error means none is pending, and so does a native on
\* the stack that drops them.
LEMMA NonePending ==
    ASSUME NEW r, NEW stage, NEW s, PendingOK(raised, r, stage, s),
           r.k # "fatal" \/ ~Lossless(s)
    PROVE  AllSurvivable
  BY DEF PendingOK, AllSurvivable

\* With none pending, what one step raises is pending afterwards.
LEMMA RaisedIsPending ==
    ASSUME AllSurvivable, RaisedStep, NEW stage,
           stage \in {"fetch", "create", "baseUrl"} =>
               stack # <<>> /\ stack[1].code \in StageCode(stage)
    PROVE  PendingOK(raised', result', stage, stack')
<1>1. CASE raised' = raised
  BY <1>1 DEF PendingOK, AllSurvivable
<1>2. CASE raised' # raised
  <2> DEFINE x == Raised("Resolution")
  <2>1. result' = Fatal("Resolution") /\ raised' = raised \cup {x}
        /\ (Lossless(stack) => Lossless(stack'))
    BY <1>2 DEF RaisedStep
  <2>2. result'.k = "fatal" /\ result'.cls = x.e
    BY <2>1 DEF Fatal, Raised
  <2>3. stage \in {"fetch", "create", "baseUrl"} => x.at \in StageCode(stage)
    BY DEF Raised
  <2>4. Survivable(x) \/ Lossless(stack')
    BY <2>1 DEF Raised, Survivable
  <2> HIDE DEF x
  <2> QED
    BY <2>1, <2>2, <2>3, <2>4, Zenon DEF PendingOK, AllSurvivable
<1> QED
  BY <1>1, <1>2

LEMMA BelowKept ==
    ASSUME BridgeInv, stack # <<>>, UNCHANGED bridgeVars,
           ChainsOK(chains'), StackOK(stack', Len(chains'), result'), PathsOK(stack', chains'),
           SentOK(sent', chains'), HostReachedOnlyWithGrant',
           SameBottom(stack, stack'), BackOK(op.stage, stack', result'),
           PendingOK(raised', result', op.stage, stack')
    PROVE  BridgeInv'
<1>1. op' = op /\ client' = client /\ request' = request
  BY DEF bridgeVars
<1>2. BottomOK(op'.stage, stack')
  BY <1>1 DEF BridgeInv, BottomOK, SameBottom
<1>3. OpOK' /\ IdleOK'
  BY <1>1 DEF BridgeInv, OpOK, IdleOK
<1>4. LocalsOK(op'.stage, client', request')
  BY <1>1 DEF BridgeInv
<1>5. BackOK(op'.stage, stack', result') /\ PendingOK(raised', result', op'.stage, stack')
  BY <1>1
<1> QED
  BY <1>2, <1>3, <1>4, <1>5 DEF BridgeInv

\* A call from frames s that have the bottom of the stack.
LEMMA CallKept ==
    ASSUME BridgeInv, stack # <<>>, UNCHANGED bridgeVars, AllSurvivable,
           NEW s, s # <<>>, s[1].code = stack[1].code, CallStep(s)
    PROVE  BridgeInv'
<1>1. stack' # <<>> /\ stack'[1] = s[1]
  BY DEF CallStep
<1>2. BackOK(op.stage, stack', result')
  BY <1>1 DEF BackOK
<1>3. SameBottom(stack, stack')
  BY <1>1 DEF SameBottom
<1>4. PendingOK(raised', result', op.stage, stack')
  <2>1. stack[1].code \in StageCode(op.stage)
    BY DEF BridgeInv, BottomOK
  <2> QED
    BY <2>1, RaisedIsPending DEF CallStep
<1> QED
  BY <1>2, <1>3, <1>4, BelowKept DEF CallStep

\* A VM error is passed on, or lost where it may be, or a new one is raised.
ReturnsWith(r) ==
    \/ raised' = raised /\ (result.k = "fatal" => r = result)
    \/ raised' = raised /\ AllSurvivable
    \/ AllSurvivable /\ Log(r)

\* The top frame ends with r, or passes r on: a VM error is not lost on the
\* way, and the bridge gets what the method it invoked may hand back.
LEMMA ReturnKept ==
    ASSUME BridgeInv, stack # <<>>, UNCHANGED <<bridgeVars, grants, chains, sent>>,
           NEW r, Deliver(Below, r), ReturnsWith(r),
           r.k = "ok" => /\ Top.code = "client" => r.v \in Clients
                         /\ Top.code = "imageRequest" => r.v \in Items \cup {Null}
    PROVE  BridgeInv'
<1>1. StackOK(stack, Len(chains), result)
  BY DEF BridgeInv
<1>2. /\ Suspended(Below, Len(chains)) /\ SameBottom(stack, Below)
      /\ Below = <<>> => Top = stack[1]
      /\ Lossless(stack) => Lossless(Below)
  BY <1>1, PopFrames DEF Below, Top
<1>3. stack' = Below /\ (r.k = "fatal" \/ Below = <<>> => result' = r)
      /\ (result' = r \/ result' = Running)
  BY DEF Deliver
<1>4. ChainsOK(chains') /\ StackOK(stack', Len(chains'), result')
  <2>1. ChainsOK(chains)
    BY DEF BridgeInv
  <2>2. StackOK(Below, Len(chains), result')
    BY <1>2, WaitingIsOK
  <2> QED
    BY <1>3, <2>1, <2>2
<1>5. SentOK(sent', chains') /\ HostReachedOnlyWithGrant' /\ PathsOK(stack', chains')
  <2>1. stack \in Seq(FrameRec) /\ ChainsOK(chains) /\ PathsOK(stack, chains)
    BY DEF BridgeInv, StackOK, FramesOK
  <2>2. PathsOK(Below, chains)
    BY <2>1, PathsPop DEF Below
  <2> QED
    BY <1>3, <2>2 DEF BridgeInv, HostReachedOnlyWithGrant, Permitted
<1>6. SameBottom(stack, stack')
  BY <1>2, <1>3
<1>7. BackOK(op.stage, stack', result')
  <2> SUFFICES ASSUME Below = <<>>, r.k = "ok"
               PROVE  /\ op.stage = "client" => r.v \in Clients
                      /\ op.stage = "imageRequest" => r.v \in Items \cup {Null}
    BY <1>3 DEF BackOK
  <2>1. Top.code \in StageCode(op.stage)
    BY <1>2 DEF BridgeInv, BottomOK
  <2> QED
    BY <2>1 DEF StageCode
<1>8. PendingOK(raised', result', op.stage, stack')
  <2>1. CASE raised' = raised /\ result.k = "fatal" /\ r = result
    <3>1. result' = result
      BY <2>1, <1>3
    <3>2. PendingOK(raised, result, op.stage, stack)
      BY DEF BridgeInv
    <3> QED
      BY <2>1, <3>1, <3>2, <1>2, <1>3 DEF PendingOK
  <2>2. CASE raised' = raised /\ (result.k # "fatal" \/ AllSurvivable)
    <3>1. AllSurvivable
      BY <2>2, NonePending DEF BridgeInv
    <3> QED
      BY <3>1, <2>2 DEF PendingOK, AllSurvivable
  <2>3. CASE AllSurvivable /\ Log(r)
    <3>1. CASE r.k = "fatal"
      <4> DEFINE x == Raised(r.cls)
      <4>1. raised' = raised \cup {x} /\ result' = r
        BY <2>3, <3>1, <1>3 DEF Log
      <4>2. x.e = r.cls /\ x.at \in StageCode(op.stage)
        BY DEF BridgeInv, BottomOK, Raised
      <4>3. Survivable(x) \/ Lossless(stack')
        BY <1>2, <1>3 DEF Raised, Survivable
      <4> HIDE DEF x
      <4> QED
        BY <2>3, <3>1, <4>1, <4>2, <4>3, Zenon DEF PendingOK, AllSurvivable
    <3>2. CASE r.k # "fatal"
      <4>1. raised' = raised
        BY <2>3, <3>2 DEF Log
      <4> QED
        BY <4>1, <2>3 DEF PendingOK, AllSurvivable
    <3> QED
      BY <3>1, <3>2
  <2> QED
    BY <2>1, <2>2, <2>3 DEF ReturnsWith
<1> QED
  BY <1>4, <1>5, <1>6, <1>7, <1>8, BelowKept

\* A frame of native or source code is pushed on frames that wait.
LEMMA PushKept ==
    ASSUME BridgeInv, stack # <<>>, UNCHANGED <<bridgeVars, grants, chains, sent, raised>>,
           AllSurvivable, NEW s, Suspended(s, Len(chains)), PathsOK(s, chains),
           s # <<>>, s[1].code = stack[1].code,
           NEW code \in Code, code \notin Interceptor,
           stack' = Append(s, Frame(code, 0)), result' = Running
    PROVE  BridgeInv'
<1> DEFINE f == Frame(code, 0)
<1>1. f \in FrameRec /\ f.code = code /\ f.chain = 0
  BY DEF FrameRec, Frame
<1>2. result'.k # "fatal" /\ result'.k # "ok"
  BY DEF Running
<1> HIDE DEF f
<1>8. PathsOK(stack', chains)
  <2>1. s \in Seq(FrameRec) /\ ChainsOK(chains)
    BY DEF BridgeInv, Suspended, FramesOK
  <2> QED
    BY <1>1, <2>1, PathsPush DEF f
<1>3. StackOK(stack', Len(chains), result') /\ stack' # <<>> /\ stack'[1] = s[1]
  BY <1>1, <1>2, PushFrame DEF f
<1>4. SameBottom(stack, stack') /\ BackOK(op.stage, stack', result')
  BY <1>3 DEF SameBottom, BackOK
<1>5. PendingOK(raised', result', op.stage, stack')
  BY DEF PendingOK, AllSurvivable
<1>6. ChainsOK(chains') /\ SentOK(sent', chains') /\ HostReachedOnlyWithGrant'
  BY DEF BridgeInv, HostReachedOnlyWithGrant, Permitted
<1>7. Len(chains') = Len(chains)
  OBVIOUS
<1> QED
  BY <1>3, <1>4, <1>5, <1>6, <1>7, <1>8, BelowKept

\* What the invariant says of a stack with a frame on top.
LEMMA TopFrame ==
    ASSUME BridgeInv, stack # <<>>
    PROVE  /\ StackOK(stack, Len(chains), result) /\ ChainsOK(chains)
           /\ SentOK(sent, chains) /\ HostReachedOnlyWithGrant
           /\ stack \in Seq(FrameRec) /\ PathsOK(stack, chains) /\ Top \in FrameRec
           /\ Top.code \in Interceptor => Top.chain \in 1 .. Len(chains)
           /\ result.k = "fatal" /\ Top.code \in Deferring => Top.pc # 0
           /\ result.k # "fatal" \/ Top.code \in Lossy => AllSurvivable
<1>1. /\ StackOK(stack, Len(chains), result) /\ ChainsOK(chains) /\ PathsOK(stack, chains)
      /\ SentOK(sent, chains) /\ HostReachedOnlyWithGrant
      /\ PendingOK(raised, result, op.stage, stack)
  BY DEF BridgeInv
<1>2. stack \in Seq(FrameRec)
  BY <1>1 DEF StackOK, FramesOK
<1>3. Len(stack) \in DOMAIN stack /\ Top = stack[Len(stack)] /\ Top \in FrameRec
  BY <1>2, FrontFrames DEF Top
<1>4. Top.code \in Lossy => ~Lossless(stack)
  BY <1>3 DEF Lossless
<1>5. result.k # "fatal" \/ Top.code \in Lossy => AllSurvivable
  BY <1>1, <1>4, NonePending
<1> QED
  BY <1>1, <1>2, <1>3, <1>5 DEF StackOK, FramesOK

\* The top frame waits, or has moved on to step k and waits.
LEMMA TopStays ==
    ASSUME BridgeInv, stack # <<>>, Top.code \notin Deferring
    PROVE  /\ Suspended(stack, Len(chains)) /\ PathsOK(stack, chains)
           /\ ChainsOK(chains)
  BY TopFrame, TopWaits DEF Top

LEMMA TopAtPc ==
    ASSUME BridgeInv, stack # <<>>, NEW k \in Nat \ {0}
    PROVE  /\ Suspended(AtPc(k), Len(chains)) /\ PathsOK(AtPc(k), chains)
           /\ AtPc(k) # <<>> /\ AtPc(k)[1].code = stack[1].code
           /\ Lossless(stack) => Lossless(AtPc(k))
           /\ Top.code \in Interceptor /\ k = Top.pc + 1 =>
                 Proceeding(AtPc(k), Top.chain, chains[Top.chain])
<1>1. /\ StackOK(stack, Len(chains), result) /\ stack \in Seq(FrameRec)
      /\ ChainsOK(chains) /\ PathsOK(stack, chains)
      /\ Top.code \in Interceptor => Top.chain \in 1 .. Len(chains)
  BY TopFrame
<1>2. DOMAIN chains = 1 .. Len(chains)
  BY <1>1 DEF ChainsOK
<1>3. /\ Suspended(AtPc(k), Len(chains)) /\ AtPc(k) # <<>> /\ AtPc(k)[1].code = stack[1].code
      /\ Lossless(stack) => Lossless(AtPc(k))
  BY <1>1, TopMovesOn DEF AtPc, Below, Top
<1>4. /\ PathsOK(AtPc(k), chains)
      /\ k = Top.pc + 1 /\ Top.chain \in DOMAIN chains =>
            Proceeding(AtPc(k), Top.chain, chains[Top.chain])
  BY <1>1, PathsMoveOn DEF AtPc, Below, Top
<1> QED
  BY <1>1, <1>2, <1>3, <1>4

\* A native that calls guest code waits above guest code.
LEMMA WrapperWaits ==
    ASSUME NEW s, NEW n, Suspended(s, n), NEW cs, ChainsOK(cs), PathsOK(s, cs),
           NEW w \in Wrappers
    PROVE  LET t == Append(s, Frame(w, 0))
           IN  /\ Suspended(t, n) /\ PathsOK(t, cs)
               /\ t # <<>> /\ (s # <<>> => t[1] = s[1])
               /\ (w \notin Lossy /\ Lossless(s) => Lossless(t))
<1> DEFINE f == Frame(w, 0)
           t == Append(s, f)
<1>1. w \in Code /\ w \notin Interceptor
  BY InterceptorNames DEF Code, Native
<1>2. w \notin Deferring
  BY <1>1 DEF Deferring, Interceptor, Wrappers, CallWrappers, Lossy
<1>3. f \in FrameRec /\ f.code = w /\ f.chain = 0
  BY <1>1 DEF FrameRec, Frame
<1>4. s \in Seq(FrameRec)
  BY DEF Suspended, FramesOK
<1> HIDE DEF f
<1>5. Suspended(t, n) /\ t # <<>> /\ (s # <<>> => t[1] = s[1])
  BY <1>1, <1>2, <1>3, PushFrame
<1>6. PathsOK(t, cs)
  BY <1>3, <1>4, PathsPush
<1>7. DOMAIN t = 1 .. Len(s) + 1 /\ t[Len(s) + 1] = f /\ DOMAIN s = 1 .. Len(s)
      /\ \A i \in 1 .. Len(s) : t[i] = s[i]
  BY <1>4
<1> HIDE DEF t
<1>8. w \notin Lossy /\ Lossless(s) => Lossless(t)
  <2> SUFFICES ASSUME w \notin Lossy, Lossless(s), NEW i \in DOMAIN t
               PROVE  t[i].code \notin Lossy
    BY DEF Lossless
  <2>1. i = Len(s) + 1 \/ i \in 1 .. Len(s)
    BY <1>4, <1>7
  <2> QED
    BY <1>3, <1>7, <2>1 DEF Lossless
<1> QED
  BY <1>5, <1>6, <1>8 DEF t, f

LEMMA GuestIsNotDeferring == \A code \in GuestCode : code \notin Deferring
<1>1. \A code \in SourceCode \cup {"callback"} : code \notin Stub
  BY InterceptorNames DEF Interceptor
<1>2. \A code \in SourceCode \cup {"callback"} : code \notin {"fetchDefault", "getDefault"}
  BY DEF SourceCode
<1>3. \A code \in InterceptorCode : code \notin Stub
  BY DEF InterceptorCode
<1>4. \A code \in InterceptorCode : code \notin {"fetchDefault", "getDefault"}
  BY InterceptorNames DEF Interceptor
<1> QED
  BY <1>1, <1>2, <1>3, <1>4, Zenon DEF GuestCode, Deferring

LEMMA GuestCallKept ==
    ASSUME BridgeInv, NEW cl \in Client, NEW req \in Request, NEW canceled \in BOOLEAN,
           NEW w \in CallWrappers \cup {"none"}, GuestCall(GuestCode, cl, req, canceled, w),
           UNCHANGED bridgeVars
    PROVE  BridgeInv'
<1> DEFINE s == IF w = "none" THEN stack ELSE Append(stack, Frame(w, 0))
<1>1. /\ stack # <<>> /\ Top.code \in GuestCode /\ result.k # "fatal"
      /\ CallExecute(s, cl, req, canceled) /\ UNCHANGED grants
  BY DEF GuestCall, GuestMayAct
<1>2. Suspended(stack, Len(chains)) /\ PathsOK(stack, chains) /\ ChainsOK(chains)
  BY <1>1, GuestIsNotDeferring, TopStays
<1>3. /\ Suspended(s, Len(chains)) /\ PathsOK(s, chains)
      /\ s # <<>> /\ s[1].code = stack[1].code
      /\ Lossless(stack) => Lossless(s)
  <2>1. CASE w = "none"
    BY <2>1, <1>1, <1>2
  <2>2. CASE w # "none"
    <3>1. w \in Wrappers /\ w \notin Lossy
      BY <2>2 DEF Wrappers, CallWrappers, Lossy
    <3> QED
      BY <3>1, <2>2, <1>1, <1>2, WrapperWaits
  <2> QED
    BY <2>1, <2>2
<1> HIDE DEF s
<1>4. CallStep(s)
  BY <1>1, <1>3, TopFrame, CallExecuteStep
<1> QED
  BY <1>1, <1>3, <1>4, TopFrame, CallKept

LEMMA GuestProceedKept ==
    ASSUME BridgeInv, NEW req \in Request, GuestProceed(req), UNCHANGED bridgeVars
    PROVE  BridgeInv'
<1> DEFINE k == Top.pc + 1
<1>1. /\ stack # <<>> /\ Top.code \in InterceptorCode /\ result.k # "fatal"
      /\ ChainProceed(AtPc(k), Top.chain, req) /\ UNCHANGED grants
  BY DEF GuestProceed, GuestMayAct
<1>2. Top.code \in Interceptor
  BY <1>1 DEF Interceptor
<1>3. k \in Nat \ {0} /\ k = Top.pc + 1
  <2>1. Top.pc \in Nat
    BY <1>1, TopFrame DEF FrameRec
  <2> QED
    BY <2>1
<1> HIDE DEF k
<1>4. CallStep(AtPc(k))
  BY <1>1, <1>2, <1>3, TopFrame, TopAtPc, ChainProceedStep
<1> QED
  BY <1>1, <1>3, <1>4, TopFrame, TopAtPc, CallKept

LEMMA CallbackIsCode == "callback" \in Code /\ "callback" \notin Interceptor
  BY InterceptorNames DEF Code, GuestCode

LEMMA GuestCallsBackKept ==
    ASSUME BridgeInv, NEW native \in Lossy, GuestCallsBack(GuestCode, native),
           UNCHANGED bridgeVars
    PROVE  BridgeInv'
<1> DEFINE s    == Append(stack, Frame(native, 0))
           code == "callback"
<1>1. /\ stack # <<>> /\ Top.code \in GuestCode /\ result.k # "fatal"
      /\ stack' = Append(s, Frame(code, 0)) /\ result' = Running
      /\ UNCHANGED <<grants, chains, sent, raised>>
  BY DEF GuestCallsBack, GuestMayAct
<1>2. Suspended(stack, Len(chains)) /\ PathsOK(stack, chains) /\ ChainsOK(chains)
  BY <1>1, GuestIsNotDeferring, TopStays
<1>3. native \in Wrappers
  BY DEF Wrappers
<1>4. /\ Suspended(s, Len(chains)) /\ PathsOK(s, chains)
      /\ s # <<>> /\ s[1].code = stack[1].code
  BY <1>1, <1>2, <1>3, WrapperWaits
<1>5. code \in Code /\ code \notin Interceptor
  BY CallbackIsCode
<1>6. AllSurvivable
  BY <1>1, TopFrame
<1> HIDE DEF s, code
<1> QED
  BY <1>1, <1>4, <1>5, <1>6, PushKept

LEMMA GuestEndsKept ==
    ASSUME BridgeInv, stack # <<>>, Top.code \in GuestCode,
           NEW r \in {Ok(v) : v \in Returns(Top.code)} \cup {Throw(e) : e \in Thrown}
                       \cup {Fatal(e) : e \in VmError},
           GuestEnds(GuestCode, r), UNCHANGED bridgeVars
    PROVE  BridgeInv'
<1>1. /\ result.k # "fatal" /\ Deliver(Below, r) /\ Log(r)
      /\ UNCHANGED <<grants, chains, sent>>
  BY DEF GuestEnds, GuestMayAct
<1>2. ASSUME r.k = "ok"
      PROVE  /\ Top.code = "client" => r.v \in Clients
             /\ Top.code = "imageRequest" => r.v \in Items \cup {Null}
  <2>1. r.v \in Returns(Top.code)
    BY <1>2 DEF Ok, Throw, Fatal
  <2>2. "client" \notin InterceptorCode /\ "imageRequest" \notin InterceptorCode
    BY InterceptorNames DEF Interceptor, SourceCode
  <2>3. ASSUME Top.code = "client" PROVE r.v \in Clients
    BY <2>1, <2>2, <2>3 DEF Returns, Clients
  <2>4. ASSUME Top.code = "imageRequest" PROVE r.v \in Items \cup {Null}
    BY <2>1, <2>2, <2>4 DEF Returns, Items
  <2> QED
    BY <2>3, <2>4
<1>3. ReturnsWith(r)
  BY <1>1, TopFrame DEF ReturnsWith
<1> QED
  BY <1>1, <1>2, <1>3, ReturnKept

LEMMA GuestUnwindsKept ==
    ASSUME BridgeInv, GuestUnwinds(GuestCode), UNCHANGED bridgeVars
    PROVE  BridgeInv'
<1>1. /\ stack # <<>> /\ result.k = "fatal" /\ Deliver(Below, result)
      /\ UNCHANGED <<grants, chains, sent, raised>>
  BY DEF GuestUnwinds
<1> QED
  BY <1>1, ReturnKept DEF ReturnsWith

LEMMA PassThroughKept ==
    ASSUME BridgeInv, PassThrough, UNCHANGED bridgeVars
    PROVE  BridgeInv'
<1>1. stack # <<>> /\ Top.code \in Stub /\ UNCHANGED grants
  BY DEF PassThrough
<1>2. Top.code \in Interceptor /\ Top.code \in Deferring
  BY <1>1 DEF Interceptor, Deferring
<1>3. CASE Top.pc = 0 /\ ChainProceed(AtPc(1), Top.chain, chains[Top.chain].req)
  <2>1. result.k # "fatal" /\ AllSurvivable /\ Top.chain \in 1 .. Len(chains)
    BY <1>1, <1>2, <1>3, TopFrame
  <2> DEFINE k == 1
  <2>5. k \in Nat \ {0} /\ k = Top.pc + 1 /\ ChainProceed(AtPc(k), Top.chain, chains[Top.chain].req)
    BY <1>3
  <2> HIDE DEF k
  <2>2. /\ Suspended(AtPc(k), Len(chains)) /\ PathsOK(AtPc(k), chains)
        /\ AtPc(k) # <<>> /\ AtPc(k)[1].code = stack[1].code
        /\ Lossless(stack) => Lossless(AtPc(k))
        /\ Proceeding(AtPc(k), Top.chain, chains[Top.chain])
    BY <1>1, <1>2, <2>5, TopAtPc
  <2>3. chains[Top.chain].req \in Request
    <3>1. chains \in Seq(ChainRec)
      BY <1>1, TopFrame DEF ChainsOK
    <3>2. chains[Top.chain] \in ChainRec
      BY <3>1, <2>1
    <3> QED
      BY <3>2 DEF ChainRec
  <2>4. CallStep(AtPc(k))
    BY <1>1, <2>1, <2>2, <2>3, <2>5, TopFrame, ChainProceedStep
  <2> QED
    BY <1>1, <2>1, <2>2, <2>4, CallKept
<1>4. CASE Deliver(Below, result) /\ UNCHANGED <<chains, sent, raised>>
  <2>1. Top.code # "client" /\ Top.code # "imageRequest"
    BY <1>2, InterceptorNames DEF SourceCode
  <2> QED
    BY <1>1, <1>4, <2>1, ReturnKept DEF ReturnsWith
<1> QED
  BY <1>3, <1>4 DEF PassThrough

LEMMA WrapperReturnsKept ==
    ASSUME BridgeInv, WrapperReturns, UNCHANGED bridgeVars
    PROVE  BridgeInv'
<1>1. /\ stack # <<>> /\ Top.code \in Wrappers
      /\ UNCHANGED <<grants, chains, sent, raised>>
  BY DEF WrapperReturns
<1>2. Top.code # "client" /\ Top.code # "imageRequest"
  BY <1>1 DEF Wrappers, CallWrappers, Lossy
<1>3. ASSUME NEW r, Deliver(Below, r), (result.k = "fatal" => r = result) \/ Top.code \in Lossy
      PROVE  BridgeInv'
  <2>1. ReturnsWith(r)
    BY <1>1, <1>3, TopFrame DEF ReturnsWith
  <2> QED
    BY <1>1, <1>2, <1>3, <2>1, ReturnKept
<1>4. result.k = "fatal" => Successful(result) = result /\ ObservableOf(result) = result
  BY DEF Successful, ObservableOf
<1>5. CASE Deliver(Below, Successful(result))
  BY <1>3, <1>4, <1>5
<1>6. CASE Deliver(Below, ObservableOf(result))
  BY <1>3, <1>4, <1>6
<1>7. CASE Deliver(Below, ObservableOf(Successful(result)))
  BY <1>3, <1>4, <1>7
<1>8. CASE /\ result.k # "fatal"
           /\ stack' = Append(AtPc(1), Frame("callback", 0)) /\ result' = Running
  <2> DEFINE k    == 1
             code == "callback"
  <2>1. k \in Nat \ {0} /\ code \in Code /\ code \notin Interceptor
        /\ stack' = Append(AtPc(k), Frame(code, 0))
    BY <1>8, CallbackIsCode
  <2> HIDE DEF k, code
  <2>2. /\ Suspended(AtPc(k), Len(chains)) /\ PathsOK(AtPc(k), chains)
        /\ AtPc(k) # <<>> /\ AtPc(k)[1].code = stack[1].code
    BY <1>1, <2>1, TopAtPc
  <2>3. AllSurvivable
    BY <1>1, <1>8, TopFrame
  <2> QED
    BY <1>1, <1>8, <2>1, <2>2, <2>3, PushKept
<1>9. CASE Deliver(Below, result)
  BY <1>3, <1>9
<1>10. CASE Deliver(Below, IF result.k = "ok" THEN Ok(Null) ELSE result)
  BY <1>3, <1>10
<1>11. CASE Top.code = "enqueue" /\ EnqueueReturns
  BY <1>8, <1>9, <1>10, <1>11 DEF EnqueueReturns
<1>12. CASE Top.code = "subscribe" /\ \E r : Deliver(Below, r)
  BY <1>3, <1>12 DEF Lossy
<1>13. CASE Top.code = "lenient" /\ \E r : Deliver(Below, r)
  BY <1>3, <1>13 DEF Lossy
<1> QED
  BY <1>5, <1>6, <1>7, <1>11, <1>12, <1>13 DEF WrapperReturns

LEMMA DefaultMethodKept ==
    ASSUME BridgeInv, DefaultMethod
    PROVE  BridgeInv'
<1>1. /\ stack # <<>> /\ Top.code \in {"fetchDefault", "getDefault"}
      /\ UNCHANGED <<grants, bridgeVars>>
  BY DEF DefaultMethod, bridgeVars
<1>2. /\ Top.code \in Deferring /\ Top.code # "client" /\ Top.code # "imageRequest"
      /\ Top.pc = 0 => result.k # "fatal"
  BY <1>1, TopFrame DEF Deferring
<1>3. ASSUME NEW k \in Nat \ {0}
      PROVE  /\ Suspended(AtPc(k), Len(chains)) /\ PathsOK(AtPc(k), chains)
             /\ AtPc(k) # <<>> /\ AtPc(k)[1].code = stack[1].code
             /\ Lossless(stack) => Lossless(AtPc(k))
  BY <1>1, TopAtPc
<1>4. CASE Top.pc = 0 /\ Deliver(Below, Fatal("Resolution")) /\ UNCHANGED <<chains, sent, raised>>
  <2> DEFINE r == Fatal("Resolution")
  <2>1. Deliver(Below, r) /\ r.k # "ok" /\ (result.k = "fatal" => r = result)
    BY <1>2, <1>4 DEF Fatal
  <2> HIDE DEF r
  <2> QED
    BY <1>1, <1>4, <2>1, ReturnKept DEF ReturnsWith
<1>5. CASE /\ Top.pc = 0 /\ UNCHANGED <<chains, sent, raised>>
           /\ stack' = Append(AtPc(1), Frame("request", 0)) /\ result' = Running
  <2>1. "request" \notin Interceptor
    BY InterceptorNames DEF SourceCode
  <2>2. AllSurvivable
    BY <1>1, <1>2, <1>5, TopFrame
  <2> DEFINE s == AtPc(1)
             code == "request"
  <2>3. /\ Suspended(s, Len(chains)) /\ PathsOK(s, chains)
        /\ s # <<>> /\ s[1].code = stack[1].code
    BY <1>3
  <2>4. stack' = Append(s, Frame(code, 0)) /\ code \in Code /\ code \notin Interceptor
    BY <1>5, <2>1 DEF Code, GuestCode, SourceCode
  <2> HIDE DEF s, code
  <2> QED
    BY <1>1, <1>5, <2>2, <2>3, <2>4, PushKept
<1>6. CASE /\ result.k = "ok" /\ UNCHANGED chains
           /\ IF result.v.t = "request"
              THEN HostExecute(AtPc(2), result.v.req, 0, <<>>)
              ELSE /\ stack' = AtPc(3) /\ result' = Throw("NullPointerException")
                   /\ UNCHANGED <<sent, raised>>
  <2>1. AllSurvivable
    BY <1>1, <1>6, TopFrame
  <2>2. CASE HostExecute(AtPc(2), result.v.req, 0, <<>>)
    <3>1. stack' = AtPc(2) /\ SentOK(sent', chains) /\ HostReachedOnlyWithGrant' /\ RaisedStep
      <4> DEFINE t    == AtPc(2)
                 none == <<>>
                 req  == result.v.req
      <4>1. HostExecute(t, req, 0, none) /\ (Lossless(stack) => Lossless(t))
        BY <2>2, <1>3
      <4> HIDE DEF t, none, req
      <4>2. stack' = t /\ SentOK(sent', chains) /\ HostReachedOnlyWithGrant' /\ RaisedStep
        BY <4>1, <1>1, TopFrame, HostExecuteStep
      <4> QED
        BY <4>2 DEF t
    <3>2. StackOK(AtPc(2), Len(chains), result')
      BY <1>3, WaitingIsOK
    <3>3. CallStep(AtPc(2))
      BY <3>1, <3>2, <1>1, <1>3, <1>6, TopFrame DEF CallStep
    <3> QED
      BY <1>1, <1>3, <2>1, <3>3, CallKept
  <2>3. CASE /\ stack' = AtPc(3) /\ result' = Throw("NullPointerException")
             /\ UNCHANGED <<sent, raised>>
    <3>1. StackOK(AtPc(3), Len(chains), result')
      BY <1>3, WaitingIsOK
    <3>2. HostReachedOnlyWithGrant'
      BY <2>3, <1>1, TopFrame DEF HostReachedOnlyWithGrant, Permitted
    <3>3. CallStep(AtPc(3))
      BY <3>1, <3>2, <2>3, <1>1, <1>3, <1>6, TopFrame DEF CallStep, RaisedStep
    <3> QED
      BY <1>1, <1>3, <2>1, <3>3, CallKept
  <2> QED
    BY <1>6, <2>2, <2>3
<1>7. CASE /\ result.k = "ok" /\ UNCHANGED <<chains, sent, raised>>
           /\ stack' = Append(AtPc(3), Frame("parse", 0)) /\ result' = Running
  <2>1. "parse" \notin Interceptor
    BY InterceptorNames DEF SourceCode
  <2>2. AllSurvivable
    BY <1>1, <1>2, <1>7, TopFrame
  <2> DEFINE s == AtPc(3)
             code == "parse"
  <2>3. /\ Suspended(s, Len(chains)) /\ PathsOK(s, chains)
        /\ s # <<>> /\ s[1].code = stack[1].code
    BY <1>3
  <2>4. stack' = Append(s, Frame(code, 0)) /\ code \in Code /\ code \notin Interceptor
    BY <1>7, <2>1 DEF Code, GuestCode, SourceCode
  <2> HIDE DEF s, code
  <2> QED
    BY <1>1, <1>7, <2>2, <2>3, <2>4, PushKept
<1>8. CASE /\ Deliver(Below, IF Top.code = "fetchDefault" THEN ObservableOf(result) ELSE result)
           /\ UNCHANGED <<chains, sent, raised>>
  <2>1. result.k = "fatal" => ObservableOf(result) = result
    BY DEF ObservableOf
  <2> DEFINE r == IF Top.code = "fetchDefault" THEN ObservableOf(result) ELSE result
  <2>2. Deliver(Below, r) /\ (result.k = "fatal" => r = result)
    BY <1>8, <2>1
  <2> HIDE DEF r
  <2> QED
    BY <1>1, <1>2, <1>8, <2>2, ReturnKept DEF ReturnsWith
<1> QED
  BY <1>4, <1>5, <1>6, <1>7, <1>8 DEF DefaultMethod

-----------------------------------------------------------------------------
(* Bridge: steps of the operations.                                        *)

\* The operation is over: a pending VM error is its answer.
LEMMA AnswerKept ==
    ASSUME BridgeInv, UNCHANGED grants, NEW a, Answer(a), result.k = "fatal" => a = Fails(result)
    PROVE  BridgeInv' /\ ErrorsAnswered
<1>1. /\ answer' = a /\ op' = Idle /\ stack' = <<>> /\ result' = Running
      /\ chains' = <<>> /\ sent' = <<>> /\ raised' = {}
  BY DEF Answer
<1>2. OpOK' /\ IdleOK' /\ HostReachedOnlyWithGrant'
  <2>1. OpOK'
    BY <1>1, Zenon DEF OpOK, Idle
  <2>2. IdleOK'
    BY <1>1 DEF IdleOK
  <2>3. HostReachedOnlyWithGrant'
    BY <1>1 DEF HostReachedOnlyWithGrant
  <2> QED
    BY <2>1, <2>2, <2>3
<1>3. /\ StackOK(stack', Len(chains'), result') /\ ChainsOK(chains') /\ SentOK(sent', chains')
      /\ PathsOK(stack', chains')
  BY <1>1, PathsEmpty DEF StackOK, FramesOK, ChainsOK, SentOK
<1>4. /\ BottomOK(op'.stage, stack') /\ BackOK(op'.stage, stack', result')
      /\ LocalsOK(op'.stage, client', request') /\ PendingOK(raised', result', op'.stage, stack')
  BY <1>1 DEF BottomOK, BackOK, LocalsOK, PendingOK, Idle, Running
<1>5. ASSUME NEW x \in raised
      PROVE  Survivable(x) \/ answer' = [k |-> "error", v |-> [t |-> x.e]]
  <2> SUFFICES ASSUME ~Survivable(x) PROVE answer' = [k |-> "error", v |-> [t |-> x.e]]
    OBVIOUS
  <2>1. result.k = "fatal" /\ result.cls = x.e
    BY DEF BridgeInv, PendingOK
  <2> QED
    BY <2>1, <1>1 DEF Fails
<1> QED
  BY <1>2, <1>3, <1>4, <1>5 DEF BridgeInv, ErrorsAnswered

\* A method of the source, or the default of one, is invoked from scratch.
LEMMA InvokeKept ==
    ASSUME NEW name, NEW stage, NEW code \in Code \ Interceptor,
           code \in StageCode(stage), stage # "idle",
           op' = [name |-> name, stage |-> stage],
           stack' = <<Frame(code, 0)>>, result' = Running, chains' = <<>>, sent' = <<>>,
           AllSurvivable', LocalsOK(stage, client', request')
    PROVE  BridgeInv' /\ ErrorsAnswered
<1>1. OpOK' /\ op' # Idle /\ op'.stage = stage
  BY DEF OpOK, Idle
<1>2. HostReachedOnlyWithGrant' /\ ChainsOK(chains') /\ SentOK(sent', chains')
  BY DEF HostReachedOnlyWithGrant, ChainsOK, SentOK
<1> DEFINE f == Frame(code, 0)
<1>3. f \in FrameRec /\ f.code = code /\ f.chain = 0
  BY DEF Frame, FrameRec
<1> HIDE DEF f
<1>4. stack' \in Seq(FrameRec) /\ Len(stack') = 1 /\ DOMAIN stack' = {1} /\ stack'[1] = f
  BY <1>3 DEF f
<1>5. result'.k # "fatal" /\ result'.k # "ok"
  BY DEF Running
<1>6. StackOK(stack', Len(chains'), result')
  BY <1>3, <1>4, <1>5 DEF StackOK, FramesOK
<1>7. BottomOK(op'.stage, stack') /\ BackOK(op'.stage, stack', result')
  BY <1>1, <1>3, <1>4, <1>5 DEF BottomOK, BackOK
<1>8. PendingOK(raised', result', op'.stage, stack')
  BY DEF PendingOK, AllSurvivable
<1>9. PathsOK(stack', chains')
  BY <1>3, <1>4 DEF PathsOK
<1> QED
  BY <1>1, <1>2, <1>4, <1>6, <1>7, <1>8, <1>9 DEF BridgeInv, IdleOK, ErrorsAnswered

\* Which code that is.
LEMMA SourceIsCode ==
    /\ \A code \in SourceCode : code \in Code \ Interceptor
    /\ \A code \in {"fetchDefault", "getDefault"} : code \in Code \ Interceptor
  BY InterceptorNames DEF Code, GuestCode, Native

LEMMA OpAtStage ==
    ASSUME BridgeInv, NEW stage
    PROVE  [op EXCEPT !.stage = stage] = [name |-> op.name, stage |-> stage]
  BY DEF BridgeInv, OpOK

LEMMA BeginKept ==
    ASSUME NEW name, NEW stage, NEW code \in SourceCode \cup {"fetchDefault", "getDefault"},
           code \in StageCode(stage), stage \notin {"idle", "imageRequest", "baseUrl"},
           Begin(name, stage, code)
    PROVE  BridgeInv' /\ ErrorsAnswered
<1>1. /\ op' = [name |-> name, stage |-> stage]
      /\ stack' = <<Frame(code, 0)>> /\ result' = Running /\ chains' = <<>> /\ sent' = <<>>
      /\ raised' = {}
  BY DEF Begin
<1>2. AllSurvivable' /\ LocalsOK(stage, client', request')
  BY <1>1 DEF AllSurvivable, LocalsOK
<1> QED
  BY <1>1, <1>2, SourceIsCode, InvokeKept

LEMMA GoOnKept ==
    ASSUME BridgeInv, AllSurvivable, NEW stage, NEW code \in SourceCode,
           code \in StageCode(stage), stage \notin {"idle", "imageRequest", "baseUrl"},
           GoOn(stage, code)
    PROVE  BridgeInv' /\ ErrorsAnswered
<1>1. /\ op' = [name |-> op.name, stage |-> stage]
      /\ stack' = <<Frame(code, 0)>> /\ result' = Running /\ chains' = <<>> /\ sent' = <<>>
      /\ raised' = raised
  BY OpAtStage DEF GoOn
<1>2. AllSurvivable' /\ LocalsOK(stage, client', request')
  BY <1>1 DEF AllSurvivable, LocalsOK
<1> QED
  BY <1>1, <1>2, SourceIsCode, InvokeKept

LEMMA StartKept ==
    ASSUME Start
    PROVE  BridgeInv' /\ ErrorsAnswered
<1> USE DEF StageCode, Code, GuestCode, SourceCode, Native
<1>1. ASSUME NEW name \in RxOp, NEW o \in BOOLEAN, StartRx(name, o)
      PROVE  BridgeInv' /\ ErrorsAnswered
  <2> DEFINE code == IF o THEN "fetch" ELSE "fetchDefault"
  <2>1. Begin(name, "fetch", code)
    BY <1>1 DEF StartRx
  <2> QED
    BY <2>1, BeginKept
<1>2. ASSUME NEW o \in BOOLEAN, StartSuspend(o)
      PROVE  BridgeInv' /\ ErrorsAnswered
  <2> DEFINE code == IF o THEN "suspend" ELSE "getDefault"
  <2>1. Begin("coro", "suspend", code)
    BY <1>2 DEF StartSuspend
  <2> QED
    BY <2>1, BeginKept
<1>3. CASE StartUpdate
  BY <1>3, BeginKept DEF StartUpdate
<1>4. CASE StartGetter
  BY <1>4, BeginKept DEF StartGetter
<1>5. CASE StartImage
  BY <1>5, BeginKept DEF StartImage
<1>6. CASE StartScreen
  BY <1>6, BeginKept DEF StartScreen
<1>7. CASE StartSources
  BY <1>7, BeginKept DEF StartSources
<1> QED
  BY <1>1, <1>2, <1>3, <1>4, <1>5, <1>6, <1>7 DEF Start

\* image_data's request is executed by its client.
LEMMA ExecuteImageKept ==
    ASSUME BridgeInv, UNCHANGED grants, stack = <<>>, AllSurvivable, client.c \in Client,
           NEW req \in Request, ExecuteImage(req)
    PROVE  BridgeInv' /\ ErrorsAnswered
<1> DEFINE s == <<>>
           no == FALSE
<1>1. CallExecute(s, client.c, req, no) /\ op' = [name |-> op.name, stage |-> "image"]
  BY OpAtStage DEF ExecuteImage
<1>2. Suspended(s, Len(chains)) /\ PathsOK(s, chains) /\ Lossless(s)
  BY PathsEmpty DEF Suspended, FramesOK, Lossless
<1> HIDE DEF s, no
<1>3. CallStep(s)
  BY <1>1, <1>2, CallExecuteStep DEF BridgeInv
<1>4. op'.stage = "image" /\ op' # Idle /\ OpOK'
  BY <1>1 DEF Idle, OpOK
<1>5. PendingOK(raised', result', "image", stack')
  BY <1>3, RaisedIsPending DEF CallStep
<1>6. BottomOK("image", stack')
  <2> SUFFICES ASSUME stack' # <<>> PROVE stack'[1].code \in Code
    BY DEF BottomOK, StageCode
  <2>1. stack' \in Seq(FrameRec)
    BY <1>3 DEF CallStep, StackOK, FramesOK
  <2>2. stack'[1] \in FrameRec
    BY <2>1
  <2> QED
    BY <2>2 DEF FrameRec
<1>7. BackOK("image", stack', result') /\ LocalsOK("image", client', request')
  BY DEF BackOK, LocalsOK
<1> QED
  BY <1>3, <1>4, <1>5, <1>6, <1>7 DEF CallStep, BridgeInv, IdleOK, ErrorsAnswered

\* Every stage but fetch, create and baseUrl goes on only with a value.
LEMMA BridgingKept ==
    ASSUME BridgeInv, Bridging
    PROVE  BridgeInv' /\ ErrorsAnswered
<1> USE DEF StageCode, SourceCode
<1>1. result.k # "fatal" => AllSurvivable
  BY NonePending DEF BridgeInv
<1>2. CASE FetchBack
  <2>1. UNCHANGED grants /\ op.stage = "fetch"
    BY <1>2 DEF FetchBack, Quiet, Back
  <2>2. CASE FetchGaveNothing(result)
    <3>1. AllSurvivable
      <4> SUFFICES ASSUME NEW x \in raised, ~Survivable(x) PROVE FALSE
        BY DEF AllSurvivable
      <4>1. result.k = "fatal" /\ result.cls = x.e /\ x.at \in {"fetch", "fetchDefault"}
        BY <2>1 DEF BridgeInv, PendingOK
      <4>2. x.e # "Resolution"
        BY <4>1 DEF Survivable
      <4> QED
        BY <2>2, <4>1, <4>2 DEF FetchGaveNothing
    <3>2. GoOn("request", "request")
      BY <1>2, <2>2 DEF FetchBack
    <3> QED
      BY <3>1, <3>2, GoOnKept DEF Code, GuestCode
  <2>3. CASE ~FetchGaveNothing(result) /\ result.k # "ok"
    BY <1>2, <2>1, <2>3, AnswerKept DEF FetchBack
  <2>4. CASE ~FetchGaveNothing(result) /\ result.k = "ok"
    BY <1>2, <2>1, <2>4, AnswerKept DEF FetchBack
  <2> QED
    BY <2>2, <2>3, <2>4
<1>3. CASE RequestBack
  <2>1. UNCHANGED grants /\ stack = <<>>
    BY <1>3 DEF RequestBack, Quiet, Back
  <2>2. CASE result.k # "ok"
    BY <1>3, <2>1, <2>2, AnswerKept DEF RequestBack
  <2>3. CASE result.k = "ok" /\ result.v.t # "request"
    BY <1>3, <2>1, <2>3, AnswerKept DEF RequestBack
  <2>4. CASE result.k = "ok" /\ result.v.t = "request"
    <3>1. /\ HostExecute(<<>>, result.v.req, 0, <<>>)
          /\ op' = [op EXCEPT !.stage = "execute"]
          /\ UNCHANGED chains
      BY <1>3, <2>4 DEF RequestBack
    <3>2. stack' = <<>> /\ SentOK(sent', chains) /\ HostReachedOnlyWithGrant' /\ RaisedStep
      BY <3>1, <2>1, HostExecuteStep DEF BridgeInv
    <3>9. PathsOK(stack', chains')
      BY <3>2, PathsEmpty
    <3>3. op' = [name |-> op.name, stage |-> "execute"]
      BY <3>1, OpAtStage
    <3>4. op'.stage = "execute" /\ op' # Idle /\ OpOK'
      BY <3>3 DEF Idle, OpOK
    <3>5. PendingOK(raised', result', "execute", stack')
      BY <1>1, <2>4, <3>2, RaisedIsPending
    <3>6. StackOK(stack', Len(chains'), result')
      BY <3>2 DEF StackOK, FramesOK
    <3>7. /\ BottomOK(op'.stage, stack') /\ BackOK(op'.stage, stack', result')
          /\ LocalsOK(op'.stage, client', request')
      BY <3>2, <3>4 DEF BottomOK, BackOK, LocalsOK
    <3>8. ChainsOK(chains') /\ SentOK(sent', chains')
      BY <3>1, <3>2 DEF BridgeInv
    <3> QED
      BY <3>2, <3>4, <3>5, <3>6, <3>7, <3>8, <3>9 DEF BridgeInv, IdleOK, ErrorsAnswered
  <2> QED
    BY <2>2, <2>3, <2>4
<1>4. CASE ExecuteBack
  <2>1. UNCHANGED grants
    BY <1>4 DEF ExecuteBack, Quiet
  <2>2. CASE result.k = "ok"
    BY <1>1, <1>4, <2>2, GoOnKept DEF ExecuteBack, Code, GuestCode
  <2>3. CASE result.k # "ok"
    BY <1>4, <2>1, <2>3, AnswerKept DEF ExecuteBack
  <2> QED
    BY <2>2, <2>3
<1>5. CASE ReadBack
  <2>1. UNCHANGED grants /\ Answer(IF result.k = "ok" THEN ReadAs(result.v) ELSE Fails(result))
    BY <1>5 DEF ReadBack, Quiet
  <2> QED
    BY <2>1, AnswerKept
<1>6. CASE UpdateBack
  <2>1. UNCHANGED grants
    BY <1>6 DEF UpdateBack, Quiet
  <2>2. CASE result.k # "ok"
    BY <1>6, <2>1, <2>2, AnswerKept DEF UpdateBack
  <2>3. CASE result.k = "ok" /\ result.v.t = "null"
    BY <1>6, <2>1, <2>3, AnswerKept DEF UpdateBack
  <2>4. CASE result.k = "ok" /\ result.v.t # "null"
    BY <1>1, <1>6, <2>4, GoOnKept DEF UpdateBack, Code, GuestCode
  <2> QED
    BY <2>2, <2>3, <2>4
<1>7. CASE UpdateRead
  <2>1. UNCHANGED grants /\ Answer(IF result.k = "ok" THEN ReadAs(result.v) ELSE Fails(result))
    BY <1>7 DEF UpdateRead, Quiet
  <2> QED
    BY <2>1, AnswerKept
<1>8. CASE ClientBack
  <2>1. UNCHANGED grants /\ Back("client")
    BY <1>8 DEF ClientBack, Quiet
  <2>2. CASE result.k # "ok"
    BY <1>8, <2>1, <2>2, AnswerKept DEF ClientBack
  <2>3. CASE result.k = "ok"
    <3>1. /\ op' = [name |-> op.name, stage |-> "imageRequest"]
          /\ stack' = <<Frame("imageRequest", 0)>>
          /\ result' = Running /\ chains' = <<>> /\ sent' = <<>>
          /\ client' = result.v /\ raised' = raised
      BY <1>8, <2>3, OpAtStage DEF ClientBack
    <3>2. AllSurvivable'
      BY <1>1, <2>3, <3>1 DEF AllSurvivable
    <3>3. LocalsOK("imageRequest", client', request')
      BY <2>1, <2>3, <3>1 DEF LocalsOK, BridgeInv, BackOK, Back
    <3> QED
      BY <3>1, <3>2, <3>3, SourceIsCode, InvokeKept
  <2> QED
    BY <2>2, <2>3
<1>9. CASE ImageRequestBack
  <2>1. UNCHANGED grants /\ Back("imageRequest")
    BY <1>9 DEF ImageRequestBack, Quiet
  <2>2. CASE result.k # "ok"
    BY <1>9, <2>1, <2>2, AnswerKept DEF ImageRequestBack
  <2>3. CASE result.k = "ok" /\ result.v.t # "request"
    BY <1>9, <2>1, <2>3, AnswerKept DEF ImageRequestBack
  <2>4. CASE result.k = "ok" /\ result.v.t = "request"
    <3>1. client \in Clients /\ result.v \in Items \cup {Null} /\ stack = <<>>
      BY <2>1, <2>4 DEF BridgeInv, BackOK, LocalsOK, Back
    <3>2. result.v \in Items /\ client.c \in Client /\ result.v.req \in Request
      <4>1. result.v # Null
        BY <2>4 DEF Null
      <4> QED
        BY <3>1, <4>1 DEF Clients, Items, Item
    <3>3. CASE ExecuteImage(result.v.req)
      BY <1>1, <2>1, <2>4, <3>1, <3>2, <3>3, ExecuteImageKept
    <3>4. CASE /\ op' = [op EXCEPT !.stage = "baseUrl"]
               /\ stack' = <<Frame("baseUrl", 0)>>
               /\ result' = Running /\ chains' = <<>> /\ sent' = <<>>
               /\ request' = result.v
               /\ UNCHANGED <<answer, raised, client, fuel>>
      <4>1. op' = [name |-> op.name, stage |-> "baseUrl"]
        BY <3>4, OpAtStage
      <4>2. AllSurvivable'
        BY <1>1, <2>4, <3>4 DEF AllSurvivable
      <4>3. LocalsOK("baseUrl", client', request')
        BY <3>1, <3>2, <3>4 DEF LocalsOK
      <4> QED
        BY <3>4, <4>1, <4>2, <4>3, SourceIsCode, InvokeKept
    <3> QED
      BY <1>9, <2>4, <3>3, <3>4 DEF ImageRequestBack
  <2> QED
    BY <2>2, <2>3, <2>4
<1>10. CASE BaseUrlBack
  <2>1. /\ UNCHANGED grants /\ op.stage = "baseUrl" /\ stack = <<>>
        /\ ExecuteImage(request.req)
    BY <1>10 DEF BaseUrlBack, Quiet, Back
  <2>2. client.c \in Client /\ request.req \in Request
    BY <2>1 DEF BridgeInv, LocalsOK, Clients, Items, Item
  <2>3. AllSurvivable
    BY <2>1 DEF AllSurvivable, BridgeInv, PendingOK, Survivable
  <2> QED
    BY <2>1, <2>2, <2>3, ExecuteImageKept
<1>11. CASE ImageBack
  <2> DEFINE a == IF result.k # "ok" THEN Fails(result)
                  ELSE IF result.v.t = "response" THEN [k |-> "value", v |-> Payload]
                  ELSE Fails(Fatal("Resolution"))
  <2>1. UNCHANGED grants /\ Answer(a)
    BY <1>11 DEF ImageBack, Quiet
  <2> QED
    BY <2>1, AnswerKept
<1>12. CASE CreateScreenBack
  <2>1. UNCHANGED grants /\ op.stage = "create"
    BY <1>12 DEF CreateScreenBack, Quiet, Back
  <2>2. CASE result.k = "ok"
    BY <1>12, <2>1, <2>2, AnswerKept DEF CreateScreenBack
  <2>3. CASE result.k # "ok"
    <3>1. AllSurvivable
      BY <2>1 DEF AllSurvivable, BridgeInv, PendingOK, Survivable
    <3> QED
      BY <1>12, <2>3, <3>1, GoOnKept DEF CreateScreenBack, Code, GuestCode
  <2> QED
    BY <2>2, <2>3
<1>13. CASE SetupScreenBack
  <2>1. UNCHANGED grants
        /\ Answer(IF result.k = "ok" THEN [k |-> "value", v |-> Payload] ELSE Fails(result))
    BY <1>13 DEF SetupScreenBack, Quiet
  <2> QED
    BY <2>1, AnswerKept
<1>14. CASE InitBack
  <2>1. UNCHANGED grants
    BY <1>14 DEF InitBack, Quiet
  <2>2. CASE result.k = "ok"
    BY <1>1, <1>14, <2>2, GoOnKept DEF InitBack, Code, GuestCode
  <2>3. CASE result.k # "ok"
    BY <1>14, <2>1, <2>3, AnswerKept DEF InitBack
  <2> QED
    BY <2>2, <2>3
<1>15. CASE CreateSourcesBack
  <2>1. UNCHANGED grants /\ Answer(IF result.k # "ok" THEN Fails(result) ELSE ReadAs(result.v))
    BY <1>15 DEF CreateSourcesBack, Quiet
  <2> QED
    BY <2>1, AnswerKept
<1>16. CASE DefaultMethod
  <2>1. op' = op
    BY <1>16 DEF DefaultMethod, bridgeVars
  <2> QED
    BY <1>16, <2>1, DefaultMethodKept DEF ErrorsAnswered
<1> QED
  BY <1>2, <1>3, <1>4, <1>5, <1>6, <1>7, <1>8, <1>9, <1>10, <1>11, <1>12, <1>13, <1>14,
     <1>15, <1>16 DEF Bridging

LEMMA GuestKept ==
    ASSUME BridgeInv, Guest
    PROVE  BridgeInv' /\ ErrorsAnswered
<1>1. UNCHANGED bridgeVars
  BY DEF Guest
<1>2. op' = op
  BY <1>1 DEF bridgeVars
<1>3. BridgeInv'
  BY <1>1, GuestCallKept, GuestProceedKept, GuestCallsBackKept, GuestEndsKept, GuestUnwindsKept, PassThroughKept,
     WrapperReturnsKept DEF Guest
<1> QED
  BY <1>2, <1>3 DEF ErrorsAnswered

\* Grants change, and the callback is set, between operations only.
LEMMA HostKept ==
    ASSUME BridgeInv, op = Idle, UNCHANGED <<stack, result, chains, sent, raised, bridgeVars>>
    PROVE  BridgeInv' /\ ErrorsAnswered
<1>1. op' = op /\ client' = client /\ request' = request
  BY DEF bridgeVars
<1>2. sent' = <<>>
  BY DEF BridgeInv, IdleOK
<1>3. HostReachedOnlyWithGrant'
  BY <1>2 DEF HostReachedOnlyWithGrant
<1>4. OpOK' /\ IdleOK'
  BY <1>1 DEF BridgeInv, OpOK, IdleOK
<1> QED
  BY <1>1, <1>3, <1>4 DEF BridgeInv, ErrorsAnswered

LEMMA BridgeStep == BridgeInv /\ [BrNext]_brVars => BridgeInv' /\ [ErrorsAnswered]_brVars
<1> SUFFICES ASSUME BridgeInv, BrNext \/ UNCHANGED brVars
             PROVE  BridgeInv' /\ (ErrorsAnswered \/ UNCHANGED brVars)
  OBVIOUS
<1>1. CASE Start
  BY <1>1, StartKept
<1>2. CASE Guest
  BY <1>2, GuestKept
<1>3. CASE Bridging
  BY <1>3, BridgingKept
<1>4. CASE HostSetsHttp
  BY <1>4, HostKept DEF HostSetsHttp
<1>5. ASSUME NEW p \in HostCapability, HostGrants(p) \/ HostRevokes(p)
      PROVE  BridgeInv' /\ ErrorsAnswered
  BY <1>5, HostKept DEF HostGrants, HostRevokes
<1>6. CASE UNCHANGED brVars
  BY <1>6 DEF brVars, httpVars, bridgeVars, BridgeInv, OpOK, IdleOK, HostReachedOnlyWithGrant,
     Permitted
<1> QED
  BY <1>1, <1>2, <1>3, <1>4, <1>5, <1>6 DEF BrNext

LEMMA BridgeInit == BrInit => BridgeInv
<1> SUFFICES ASSUME BrInit PROVE BridgeInv
  OBVIOUS
<1>1. /\ stack = <<>> /\ result = Running /\ chains = <<>> /\ sent = <<>> /\ raised = {}
      /\ op = Idle
  BY DEF BrInit
<1>2. OpOK /\ IdleOK /\ HostReachedOnlyWithGrant
  <2>1. OpOK
    BY <1>1, Zenon DEF OpOK, Idle
  <2> QED
    BY <1>1, <2>1 DEF IdleOK, HostReachedOnlyWithGrant
<1>3. /\ StackOK(stack, Len(chains), result) /\ ChainsOK(chains) /\ SentOK(sent, chains)
      /\ PathsOK(stack, chains)
  BY <1>1, PathsEmpty DEF StackOK, FramesOK, ChainsOK, SentOK
<1>4. /\ BottomOK(op.stage, stack) /\ BackOK(op.stage, stack, result)
      /\ LocalsOK(op.stage, client, request) /\ PendingOK(raised, result, op.stage, stack)
  BY <1>1 DEF BottomOK, BackOK, LocalsOK, PendingOK, Idle, Running
<1> QED
  BY <1>2, <1>3, <1>4 DEF BridgeInv

LEMMA BridgeAlways == BrSpec => []BridgeInv
<1>1. BridgeInv /\ [BrNext]_brVars => BridgeInv'
  BY BridgeStep
<1> QED
  BY <1>1, BridgeInit, PTL DEF BrSpec

(***************************************************************************)
(* The permission store covers every request the host's callback sees       *)
(* (check_network_url in front of it), for every set of clients, requests   *)
(* and capabilities and however calls nest: the grants cannot change while  *)
(* an operation that was checked against them is running.                   *)
(***************************************************************************)
THEOREM HostNeedsGrant == BrSpec => []HostReachedOnlyWithGrant
<1>1. BridgeInv => HostReachedOnlyWithGrant
  BY DEF BridgeInv
<1> QED
  BY <1>1, BridgeAlways, PTL

(***************************************************************************)
(* A VM error raised below an operation is its answer, unless a native on   *)
(* its way drops such errors (Lossy) or the operation survives it           *)
(* (Survivable): through every other frame it unwinds as the result at      *)
(* hand, and no stage goes on while one is.                                 *)
(***************************************************************************)
THEOREM ErrorsReachHost == BrSpec => NoErrorLost
<1>1. BridgeInv /\ [BrNext]_brVars => [ErrorsAnswered]_brVars
  BY BridgeStep
<1> QED
  BY <1>1, BridgeAlways, PTL DEF BrSpec, NoErrorLost

(***************************************************************************)
(* A request of a client's call that interceptors handle for the first time *)
(* reaches the host with all of the client's interceptors on the stack, in  *)
(* their order, for clients with any number of interceptors and however the *)
(* calls nest: the chain's position is the number of frames between the     *)
(* call and the interceptor that proceeds, as long as none of these has     *)
(* proceeded before (the code runs fewer on a second proceed).              *)
(***************************************************************************)
THEOREM InterceptorsSeeAll == BrSpec => []AllBeforeHost
<1>1. BridgeInv => AllBeforeHost
  BY DEF BridgeInv, SentOK, Once, AllBeforeHost
<1> QED
  BY <1>1, BridgeAlways, PTL

-----------------------------------------------------------------------------
(* Loops over vectors.                                                     *)

\* Vectors!Keeping goes through the positions of s one by one.
KeepingRun(g, s, T) ==
    /\ g[0] = <<>>
    /\ \A i \in 1 .. Len(s) :
          g[i] = IF s[i] \in T THEN Append(g[i - 1], s[i]) ELSE g[i - 1]
    /\ Keeping(s, T) = g[Len(s)]

LEMMA KeepingLoop ==
    ASSUME NEW S, NEW s \in Seq(S), NEW T
    PROVE  \E g \in [0 .. Len(s) -> Seq(S)] : KeepingRun(g, s, T)
<1> DEFINE n == Len(s)
           loop(g) == [i \in 0 .. n |->
                         IF i = 0 THEN <<>>
                         ELSE IF s[i] \in T THEN Append(g[i - 1], s[i]) ELSE g[i - 1]]
           G == CHOOSE g : g = loop(g)
           step == [p \in (1 .. n) \X Seq(S) |->
                      IF s[p[1]] \in T THEN Append(p[2], s[p[1]]) ELSE p[2]]
<1>1. n \in Nat /\ \A i \in 1 .. n : s[i] \in S
  OBVIOUS
<1>2. step \in [(1 .. n) \X Seq(S) -> Seq(S)]
  BY <1>1
<1>3. Keeping(s, T) = G[n]
  BY DEF Keeping
<1>4. PICK g \in [0 .. n -> Seq(S)] : Follows(g, n, <<>>, step)
  <2>1. n \in Nat /\ <<>> \in Seq(S)
    BY <1>1
  <2> HIDE DEF n, step
  <2> QED
    BY <2>1, <1>2, Recursion
<1>5. g[0] = <<>> /\ \A i \in 1 .. n : g[i] = IF s[i] \in T THEN Append(g[i - 1], s[i]) ELSE g[i - 1]
  <2>1. ASSUME NEW i \in 1 .. n
        PROVE  g[i] = IF s[i] \in T THEN Append(g[i - 1], s[i]) ELSE g[i - 1]
    <3>1. i - 1 \in 0 .. n
      BY <1>1
    <3>2. <<i, g[i - 1]>> \in (1 .. n) \X Seq(S)
      BY <3>1
    <3>3. g[i] = step[<<i, g[i - 1]>>]
      BY <1>4 DEF Follows
    <3> QED
      BY <3>2, <3>3
  <2> QED
    BY <1>4, <2>1 DEF Follows
<1>6. g = loop(g)
  <2>1. \A i \in 0 .. n : g[i] = loop(g)[i]
    <3>1. \A i \in 0 .. n : i # 0 => i \in 1 .. n
      BY <1>1
    <3> QED
      BY <1>5, <3>1
  <2>2. g = [i \in 0 .. n |-> g[i]]
    OBVIOUS
  <2> QED
    BY <2>1, <2>2
<1>7. G = loop(G)
  BY <1>6
<1>8. \A i \in 0 .. n : G[i] = g[i]
  <2> DEFINE Same == {i \in 0 .. n : G[i] = g[i]}
  <2> HIDE DEF G
  <2>1. 0 \in Same
    BY <1>1, <1>5, <1>7
  <2>2. ASSUME NEW i \in 1 .. n, i - 1 \in Same PROVE i \in Same
    <3>1. i \in 0 .. n /\ i # 0 /\ G[i - 1] = g[i - 1]
      BY <1>1, <2>2
    <3>2. G[i] = IF s[i] \in T THEN Append(G[i - 1], s[i]) ELSE G[i - 1]
      BY <1>7, <3>1
    <3> QED
      BY <1>5, <3>1, <3>2
  <2> HIDE DEF Same
  <2>3. \A i \in 0 .. n : i \in Same
    BY <1>1, <2>1, <2>2, IntervalInduction
  <2> QED
    BY <2>3 DEF Same
<1>9. Keeping(s, T) = g[n]
  <2> HIDE DEF G
  <2> QED
    BY <1>1, <1>3, <1>8
<1>10. KeepingRun(g, s, T)
  BY <1>5, <1>9 DEF KeepingRun
<1> QED
  BY <1>10

-----------------------------------------------------------------------------
(* Messages.                                                               *)

\* The value of the last header of a name (HeaderOf, of the headers alone).
LastValue(hs, n) ==
    LET at == {k \in DOMAIN hs : Canon(hs[k][1]) = n} IN
    IF at = {} THEN 0 ELSE hs[CHOOSE k \in at : \A l \in at : l <= k][2]

LEMMA LastValueNone ==
    ASSUME NEW hs, NEW n, \A k \in DOMAIN hs : Canon(hs[k][1]) # n
    PROVE  LastValue(hs, n) = 0
  BY DEF LastValue

LEMMA LastValueAt ==
    ASSUME NEW hs \in Seq(Header), NEW n, NEW k \in DOMAIN hs, Canon(hs[k][1]) = n,
           \A l \in DOMAIN hs : l > k => Canon(hs[l][1]) # n
    PROVE  LastValue(hs, n) = hs[k][2]
<1> DEFINE at == {j \in DOMAIN hs : Canon(hs[j][1]) = n}
<1>1. k \in at /\ \A l \in at : l <= k
  OBVIOUS
<1>2. \A j \in at : (\A l \in at : l <= j) => j = k
  BY <1>1
<1> HIDE DEF at
<1>3. (CHOOSE j \in at : \A l \in at : l <= j) = k
  BY <1>1, <1>2
<1> QED
  BY <1>1, <1>3 DEF LastValue, at

\* A name has no header, or one that is its last.
LEMMA LastExists ==
    ASSUME NEW hs \in Seq(Header), NEW n
    PROVE  \/ \A k \in DOMAIN hs : Canon(hs[k][1]) # n
           \/ \E k \in DOMAIN hs : /\ Canon(hs[k][1]) = n
                                   /\ \A l \in DOMAIN hs : l > k => Canon(hs[l][1]) # n
<1> DEFINE at == {k \in DOMAIN hs : Canon(hs[k][1]) = n}
<1>1. Len(hs) \in Nat /\ DOMAIN hs = 1 .. Len(hs) /\ at \in SUBSET (0 .. Len(hs))
  OBVIOUS
<1>2. CASE at # {}
  <2>1. PICK k \in at : \A l \in at : l <= k
    <3> HIDE DEF at
    <3> QED
      BY <1>1, <1>2, IntervalMax
  <2> QED
    BY <2>1, <1>1
<1> QED
  BY <1>2

LEMMA AppendValue ==
    ASSUME NEW hs \in Seq(Header), NEW h \in Header, NEW n
    PROVE  LastValue(Append(hs, h), n) = IF Canon(h[1]) = n THEN h[2] ELSE LastValue(hs, n)
<1> DEFINE t == Append(hs, h)
<1>1. /\ t \in Seq(Header) /\ DOMAIN t = 1 .. Len(hs) + 1 /\ t[Len(hs) + 1] = h
      /\ \A k \in 1 .. Len(hs) : t[k] = hs[k]
      /\ Len(hs) \in Nat /\ DOMAIN hs = 1 .. Len(hs)
  OBVIOUS
<1> HIDE DEF t
<1>2. CASE Canon(h[1]) = n
  <2>1. Len(hs) + 1 \in DOMAIN t /\ \A l \in DOMAIN t : ~(l > Len(hs) + 1)
    BY <1>1
  <2>2. LastValue(t, n) = t[Len(hs) + 1][2]
    BY <1>1, <1>2, <2>1, LastValueAt
  <2> QED
    BY <1>1, <1>2, <2>2 DEF t
<1>3. CASE Canon(h[1]) # n
  <2>1. \A l \in DOMAIN t : l \in DOMAIN hs \/ l = Len(hs) + 1
    BY <1>1
  <2>2. CASE \A k \in DOMAIN hs : Canon(hs[k][1]) # n
    <3>1. \A k \in DOMAIN t : Canon(t[k][1]) # n
      BY <1>1, <1>3, <2>1, <2>2
    <3> QED
      BY <1>3, <2>2, <3>1, LastValueNone DEF t
  <2>3. ASSUME NEW k \in DOMAIN hs, Canon(hs[k][1]) = n,
               \A l \in DOMAIN hs : l > k => Canon(hs[l][1]) # n
        PROVE  LastValue(t, n) = LastValue(hs, n)
    <3>1. k \in DOMAIN t /\ t[k] = hs[k]
      BY <1>1
    <3>2. \A l \in DOMAIN t : l > k => Canon(t[l][1]) # n
      BY <1>1, <1>3, <2>1, <2>3
    <3>3. LastValue(t, n) = t[k][2]
      BY <1>1, <2>3, <3>1, <3>2, LastValueAt
    <3>4. LastValue(hs, n) = hs[k][2]
      BY <2>3, LastValueAt
    <3> QED
      BY <3>1, <3>3, <3>4
  <2> QED
    BY <1>3, <2>2, <2>3, LastExists DEF t
<1> QED
  BY <1>2, <1>3

LEMMA ConcatValue ==
    ASSUME NEW s \in Seq(Header), NEW t \in Seq(Header), NEW n
    PROVE  LastValue(s \o t, n) =
               IF LastValue(t, n) # 0 THEN LastValue(t, n) ELSE LastValue(s, n)
<1> DEFINE u == s \o t
<1>1. /\ Len(s) \in Nat /\ DOMAIN s = 1 .. Len(s)
      /\ Len(t) \in Nat /\ DOMAIN t = 1 .. Len(t)
      /\ u \in Seq(Header) /\ DOMAIN u = 1 .. Len(s) + Len(t)
      /\ \A k \in 1 .. Len(s) : u[k] = s[k]
      /\ \A k \in 1 .. Len(t) : u[Len(s) + k] = t[k]
  OBVIOUS
<1> HIDE DEF u
<1>2. ASSUME NEW l \in DOMAIN u, l \notin DOMAIN s
      PROVE  l - Len(s) \in DOMAIN t /\ u[l] = t[l - Len(s)]
  <2>1. l - Len(s) \in 1 .. Len(t) /\ Len(s) + (l - Len(s)) = l
    BY <1>1, <1>2
  <2> QED
    BY <1>1, <2>1
<1>3. ASSUME NEW k \in DOMAIN t, Canon(t[k][1]) = n,
             \A l \in DOMAIN t : l > k => Canon(t[l][1]) # n
      PROVE  LastValue(u, n) = LastValue(t, n) /\ LastValue(t, n) # 0
  <2>1. Len(s) + k \in DOMAIN u /\ u[Len(s) + k] = t[k]
    BY <1>1
  <2>2. ASSUME NEW l \in DOMAIN u, l > Len(s) + k PROVE Canon(u[l][1]) # n
    <3>1. l \notin DOMAIN s /\ l - Len(s) > k
      BY <1>1, <2>2
    <3> QED
      BY <1>2, <1>3, <3>1
  <2>3. LastValue(u, n) = u[Len(s) + k][2]
    BY <1>1, <1>3, <2>1, <2>2, LastValueAt, ZenonT(60)
  <2>4. LastValue(t, n) = t[k][2]
    BY <1>3, LastValueAt
  <2>5. t[k] \in Header
    BY <1>1
  <2> QED
    BY <2>1, <2>3, <2>4, <2>5, HeaderAssumption
<1>4. CASE \A k \in DOMAIN t : Canon(t[k][1]) # n
  <2>1. LastValue(t, n) = 0
    BY <1>4, LastValueNone
  <2>2. CASE \A k \in DOMAIN s : Canon(s[k][1]) # n
    <3>1. \A k \in DOMAIN u : Canon(u[k][1]) # n
      BY <1>1, <1>2, <1>4, <2>2
    <3> QED
      BY <2>1, <2>2, <3>1, LastValueNone DEF u
  <2>3. ASSUME NEW k \in DOMAIN s, Canon(s[k][1]) = n,
               \A l \in DOMAIN s : l > k => Canon(s[l][1]) # n
        PROVE  LastValue(u, n) = LastValue(s, n)
    <3>1. k \in DOMAIN u /\ u[k] = s[k]
      BY <1>1
    <3>2. ASSUME NEW l \in DOMAIN u, l > k PROVE Canon(u[l][1]) # n
      BY <1>1, <1>2, <1>4, <2>3, <3>2
    <3>3. LastValue(u, n) = u[k][2]
      BY <1>1, <2>3, <3>1, <3>2, LastValueAt, ZenonT(60)
    <3>4. LastValue(s, n) = s[k][2]
      BY <2>3, LastValueAt
    <3> QED
      BY <3>1, <3>3, <3>4
  <2> QED
    BY <2>1, <2>2, <2>3, LastExists DEF u
<1> QED
  BY <1>3, <1>4, LastExists DEF u

\* removeHeader takes all headers of the name, in any case of letters, and no
\* other.
LEMMA WithoutValue ==
    ASSUME NEW hs \in Seq(Header), NEW name
    PROVE  /\ Without(hs, name) \in Seq(Header)
           /\ \A n : LastValue(Without(hs, name), n) =
                        IF n = Canon(name) THEN 0 ELSE LastValue(hs, n)
<1> DEFINE T == {h \in ToSet(hs) : Canon(h[1]) # Canon(name)}
           L == Len(hs)
<1>1. L \in Nat /\ DOMAIN hs = 1 .. L /\ \A i \in 1 .. L : hs[i] \in Header
  OBVIOUS
<1>2. \A i \in 1 .. L : hs[i] \in T <=> Canon(hs[i][1]) # Canon(name)
  BY <1>1 DEF ToSet
<1> HIDE DEF T
<1>0. PICK g \in [0 .. L -> Seq(Header)] : KeepingRun(g, hs, T)
  BY KeepingLoop
<1>3. /\ g[0] = <<>>
      /\ \A i \in 1 .. L : g[i] = IF hs[i] \in T THEN Append(g[i - 1], hs[i]) ELSE g[i - 1]
      /\ Keeping(hs, T) = g[L]
  BY <1>0 DEF KeepingRun
<1>4. Without(hs, name) = g[L]
  BY <1>3 DEF Without, T
<1> DEFINE upto(i) == SubSeq(hs, 1, i)
           Good == {i \in 0 .. L : \A n : LastValue(g[i], n) =
                                     IF n = Canon(name) THEN 0 ELSE LastValue(upto(i), n)}
<1> HIDE DEF L
<1>5. \A i \in 0 .. L : upto(i) \in Seq(Header)
  BY <1>1 DEF L
<1>6. \A i \in 1 .. L : upto(i) = Append(upto(i - 1), hs[i])
  BY <1>1 DEF L
<1>7. upto(0) = <<>> /\ upto(L) = hs
  BY <1>1 DEF L
<1> HIDE DEF upto
<1>8. 0 \in Good
  <2>1. \A n : LastValue(<<>>, n) = 0
    BY LastValueNone
  <2> QED
    BY <1>1, <1>3, <1>7, <2>1
<1>9. ASSUME NEW i \in 1 .. L, i - 1 \in Good PROVE i \in Good
  <2>1. i \in 0 .. L /\ i - 1 \in 0 .. L /\ hs[i] \in Header
        /\ g[i - 1] \in Seq(Header) /\ upto(i - 1) \in Seq(Header)
    BY <1>1, <1>5
  <2>2. ASSUME NEW n
        PROVE  LastValue(g[i], n) = IF n = Canon(name) THEN 0 ELSE LastValue(upto(i), n)
    <3>1. LastValue(g[i - 1], n) = IF n = Canon(name) THEN 0 ELSE LastValue(upto(i - 1), n)
      BY <1>9
    <3>2. LastValue(upto(i), n) =
             IF Canon(hs[i][1]) = n THEN hs[i][2] ELSE LastValue(upto(i - 1), n)
      <4> DEFINE u == upto(i - 1)
                 h == hs[i]
      <4>1. upto(i) = Append(u, h) /\ u \in Seq(Header) /\ h \in Header
        BY <1>6, <2>1
      <4> HIDE DEF u, h
      <4>2. LastValue(Append(u, h), n) = IF Canon(h[1]) = n THEN h[2] ELSE LastValue(u, n)
        BY <4>1, AppendValue
      <4> QED
        BY <4>1, <4>2 DEF u, h
    <3>3. CASE hs[i] \in T
      <4>1. LastValue(g[i], n) = IF Canon(hs[i][1]) = n THEN hs[i][2] ELSE LastValue(g[i - 1], n)
        BY <1>3, <2>1, <3>3, AppendValue
      <4> QED
        BY <1>2, <3>1, <3>2, <3>3, <4>1
    <3>4. CASE hs[i] \notin T
      <4>1. g[i] = g[i - 1] /\ Canon(hs[i][1]) = Canon(name)
        BY <1>2, <1>3, <3>4
      <4> QED
        BY <3>1, <3>2, <4>1
    <3> QED
      BY <3>3, <3>4
  <2> QED
    BY <2>1, <2>2
<1>10. \A i \in 0 .. L : i \in Good
  <2> HIDE DEF Good
  <2> QED
    BY <1>1, <1>8, <1>9, IntervalInduction
<1>11. L \in Good /\ L \in 0 .. L
  BY <1>1, <1>10
<1> QED
  BY <1>3, <1>4, <1>7, <1>11

MsgRec ==
    [kind : {"request", "headers", "response"}, built : BOOLEAN, headers : Seq(Header),
     want : [Lowered -> {h[2] : h \in Header} \cup {0}]]

\* The headers of o say what its history wants.
MsgOK(o) == \A n \in Lowered : LastValue(o.headers, n) = o.want[n]

MsgInv == msgs \in Seq(MsgRec) /\ \A i \in DOMAIN msgs : MsgOK(msgs[i])

LEMMA AllocKept ==
    ASSUME MsgInv, NEW o \in MsgRec, MsgOK(o), Alloc(o)
    PROVE  MsgInv'
<1>1. msgs' = Append(msgs, o) /\ msgs \in Seq(MsgRec)
  BY DEF Alloc, MsgInv
<1>2. /\ msgs' \in Seq(MsgRec) /\ DOMAIN msgs' = 1 .. Len(msgs) + 1
      /\ DOMAIN msgs = 1 .. Len(msgs) /\ Len(msgs) \in Nat
      /\ msgs'[Len(msgs) + 1] = o /\ \A i \in 1 .. Len(msgs) : msgs'[i] = msgs[i]
  BY <1>1
<1>3. \A i \in DOMAIN msgs' : i \in DOMAIN msgs \/ i = Len(msgs) + 1
  BY <1>2
<1> QED
  BY <1>2, <1>3 DEF MsgInv

LEMMA RewritesKept ==
    ASSUME MsgInv, NEW i \in DOMAIN msgs, NEW hs \in Seq(Header),
           NEW want \in [Lowered -> {h[2] : h \in Header} \cup {0}],
           \A n \in Lowered : LastValue(hs, n) = want[n],
           Rewrites(i, hs, want)
    PROVE  MsgInv'
<1> DEFINE o0 == [msgs[i] EXCEPT !.headers = hs]
           o  == [o0 EXCEPT !.want = want]
<1>1. msgs \in Seq(MsgRec) /\ msgs[i] \in MsgRec
  BY DEF MsgInv
<1>2. o0 \in MsgRec /\ o0.headers = hs
  BY <1>1 DEF MsgRec
<1>3. o \in MsgRec /\ o.headers = hs /\ o.want = want
  <2> HIDE DEF o0
  <2> QED
    BY <1>2 DEF MsgRec
<1>4. msgs' = [msgs EXCEPT ![i] = o]
  BY <1>1 DEF Rewrites
<1> HIDE DEF o
<1>5. /\ msgs' \in Seq(MsgRec) /\ DOMAIN msgs' = DOMAIN msgs
      /\ msgs'[i] = o /\ \A j \in DOMAIN msgs : j # i => msgs'[j] = msgs[j]
  BY <1>1, <1>3, <1>4
<1>6. MsgOK(o)
  BY <1>3 DEF MsgOK
<1> QED
  BY <1>5, <1>6 DEF MsgInv

\* Messages and builders in a state, as the actions see them.
LEMMA MsgParts ==
    ASSUME MsgInv, NEW i \in DOMAIN msgs
    PROVE  /\ msgs[i] \in MsgRec /\ MsgOK(msgs[i])
           /\ msgs[i].headers \in Seq(Header)
           /\ msgs[i].want \in [Lowered -> {h[2] : h \in Header} \cup {0}]
           /\ \A n \in Lowered : LastValue(msgs[i].headers, n) = msgs[i].want[n]
<1>1. msgs[i] \in MsgRec /\ MsgOK(msgs[i])
  BY DEF MsgInv
<1> QED
  BY <1>1 DEF MsgRec, MsgOK

\* Writing one header, with the name's other headers gone or not.
LEMMA WriteKept ==
    ASSUME MsgInv, NEW i \in DOMAIN msgs, NEW h \in Header, NEW hs \in Seq(Header),
           \A n \in Lowered : n # Canon(h[1]) => LastValue(hs, n) = msgs[i].want[n],
           Rewrites(i, Append(hs, h), Wanting(i, h[1], h[2]))
    PROVE  MsgInv'
<1> DEFINE w == Wanting(i, h[1], h[2])
           t == Append(hs, h)
<1>1. Canon(h[1]) \in Lowered
  BY DEF Lowered
<1>2. /\ w \in [Lowered -> {g[2] : g \in Header} \cup {0}]
      /\ \A n \in Lowered : w[n] = IF n = Canon(h[1]) THEN h[2] ELSE msgs[i].want[n]
  BY <1>1, MsgParts DEF Wanting
<1>3. t \in Seq(Header)
  OBVIOUS
<1>4. \A n \in Lowered : LastValue(t, n) = w[n]
  BY <1>2, AppendValue
<1> HIDE DEF w, t
<1> QED
  BY <1>2, <1>3, <1>4, RewritesKept DEF w, t

LEMMA MsgStep == MsgInv /\ [MsgNext]_msgVars => MsgInv'
<1> SUFFICES ASSUME MsgInv, [MsgNext]_msgVars PROVE MsgInv'
  OBVIOUS
<1>1. ASSUME NEW kind \in {"request", "headers"}, EmptyBuilder(kind) PROVE MsgInv'
  <2> DEFINE o == Message(kind, FALSE, <<>>, Nothing)
  <2>1. o \in MsgRec /\ o.headers = <<>> /\ o.want = Nothing
    BY DEF Message, MsgRec, Nothing
  <2>2. Alloc(o)
    BY <1>1 DEF EmptyBuilder
  <2> HIDE DEF o
  <2>3. MsgOK(o)
    <3>1. \A n : LastValue(<<>>, n) = 0
      BY LastValueNone
    <3> QED
      BY <2>1, <3>1 DEF MsgOK, Nothing
  <2> QED
    BY <2>1, <2>2, <2>3, AllocKept
<1>2. ASSUME NEW h \in Header, HostResponse(h) PROVE MsgInv'
  <2> DEFINE w == [Nothing EXCEPT ![Canon(h[1])] = h[2]]
             o == Message("response", TRUE, <<h>>, w)
  <2>1. w \in [Lowered -> {g[2] : g \in Header} \cup {0}]
        /\ \A n \in Lowered : w[n] = IF n = Canon(h[1]) THEN h[2] ELSE 0
    BY DEF Nothing, Lowered
  <2> HIDE DEF w
  <2>2. <<h>> \in Seq(Header) /\ <<h>> = Append(<<>>, h)
    OBVIOUS
  <2>3. o \in MsgRec /\ o.headers = <<h>> /\ o.want = w
    BY <2>1, <2>2 DEF Message, MsgRec
  <2>4. Alloc(o)
    BY <1>2 DEF HostResponse, w
  <2> HIDE DEF o
  <2>5. MsgOK(o)
    <3>1. \A n : LastValue(<<>>, n) = 0
      BY LastValueNone
    <3>2. \A n : LastValue(<<h>>, n) = IF Canon(h[1]) = n THEN h[2] ELSE LastValue(<<>>, n)
      <4> DEFINE e == <<>>
      <4>1. e \in Seq(Header) /\ <<h>> = Append(e, h)
        BY <2>2
      <4> HIDE DEF e
      <4>2. \A n : LastValue(Append(e, h), n) = IF Canon(h[1]) = n THEN h[2] ELSE LastValue(e, n)
        BY <4>1, AppendValue
      <4> QED
        BY <4>1, <4>2 DEF e
    <3> QED
      BY <2>1, <2>3, <3>1, <3>2 DEF MsgOK
  <2> QED
    BY <2>3, <2>4, <2>5, AllocKept
\* Copies: the copy has the headers and the history of the original.
<1>3. ASSUME NEW i \in DOMAIN msgs, NEW o, Alloc(o),
             \/ \E b \in BOOLEAN : o = [msgs[i] EXCEPT !.built = b]
             \/ o = [msgs[i] EXCEPT !.kind = "headers"]
      PROVE  MsgInv'
  <2>1. o \in MsgRec /\ o.headers = msgs[i].headers /\ o.want = msgs[i].want
    BY <1>3, MsgParts DEF MsgRec
  <2>2. MsgOK(o)
    BY <2>1, MsgParts DEF MsgOK
  <2> QED
    BY <1>3, <2>1, <2>2, AllocKept
<1>4. ASSUME NEW i \in DOMAIN msgs, Build(i) \/ MessageNewBuilder(i) \/ HeadersOf(i)
      PROVE  MsgInv'
  BY <1>3, <1>4 DEF Build, MessageNewBuilder, HeadersOf
<1>5. ASSUME NEW i \in DOMAIN msgs, NEW h \in Header, SetHeader(i, h) PROVE MsgInv'
  <2> DEFINE hs == Without(msgs[i].headers, h[1])
  <2>1. /\ hs \in Seq(Header)
        /\ \A n \in Lowered : n # Canon(h[1]) => LastValue(hs, n) = msgs[i].want[n]
    BY MsgParts, WithoutValue
  <2>2. Rewrites(i, Append(hs, h), Wanting(i, h[1], h[2]))
    BY <1>5 DEF SetHeader
  <2> HIDE DEF hs
  <2> QED
    BY <2>1, <2>2, WriteKept
<1>6. ASSUME NEW i \in DOMAIN msgs, NEW h \in Header, AddHeader(i, h) PROVE MsgInv'
  BY <1>6, MsgParts, WriteKept DEF AddHeader
<1>7. ASSUME NEW i \in DOMAIN msgs, NEW h \in Header, RemoveHeader(i, h[1]) PROVE MsgInv'
  <2> DEFINE hs == Without(msgs[i].headers, h[1])
             w == Wanting(i, h[1], 0)
  <2>1. /\ hs \in Seq(Header)
        /\ \A n \in Lowered : LastValue(hs, n) = IF n = Canon(h[1]) THEN 0 ELSE msgs[i].want[n]
    BY MsgParts, WithoutValue
  <2>2. /\ w \in [Lowered -> {g[2] : g \in Header} \cup {0}]
        /\ \A n \in Lowered : w[n] = IF n = Canon(h[1]) THEN 0 ELSE msgs[i].want[n]
    BY MsgParts DEF Wanting, Lowered
  <2>3. Rewrites(i, hs, w)
    BY <1>7 DEF RemoveHeader
  <2> HIDE DEF hs, w
  <2> QED
    BY <2>1, <2>2, <2>3, RewritesKept
<1>8. ASSUME NEW i \in DOMAIN msgs, NEW j \in DOMAIN msgs, TakeHeaders(i, j) PROVE MsgInv'
  <2>1. CASE msgs[i].kind = "response"
    <3>1. Rewrites(i, msgs[j].headers, msgs[j].want)
      BY <1>8, <2>1 DEF TakeHeaders
    <3> QED
      BY <3>1, MsgParts, RewritesKept
  <2>2. CASE msgs[i].kind # "response"
    <3> DEFINE s == msgs[i].headers
               t == msgs[j].headers
               w == [n \in Lowered |-> IF msgs[j].want[n] # 0 THEN msgs[j].want[n] ELSE msgs[i].want[n]]
    <3>1. Rewrites(i, s \o t, w)
      BY <1>8, <2>2 DEF TakeHeaders
    <3>2. s \in Seq(Header) /\ t \in Seq(Header)
      BY MsgParts
    <3>3. /\ \A n \in Lowered : LastValue(s, n) = msgs[i].want[n]
          /\ \A n \in Lowered : LastValue(t, n) = msgs[j].want[n]
      BY MsgParts
    <3>4. w \in [Lowered -> {h[2] : h \in Header} \cup {0}]
      BY MsgParts
    <3> HIDE DEF s, t
    <3>5. \A n \in Lowered : LastValue(s \o t, n) = w[n]
      BY <3>2, <3>3, ConcatValue
    <3> HIDE DEF w
    <3>6. s \o t \in Seq(Header)
      BY <3>2
    <3> QED
      BY <3>1, <3>4, <3>5, <3>6, RewritesKept
  <2> QED
    BY <2>1, <2>2
<1>9. CASE UNCHANGED msgVars
  BY <1>9 DEF msgVars, MsgInv
<1> QED
  BY <1>1, <1>2, <1>4, <1>5, <1>6, <1>7, <1>8, <1>9 DEF MsgNext

(***************************************************************************)
(* A message answers for each header name the value last written under it,  *)
(* whatever the case of letters, for any set of headers and any number of   *)
(* messages and builders derived from one another (okhttp/mod.rs).          *)
(***************************************************************************)
THEOREM HeadersStand == MsgSpec => []LastHeaderStands
<1>1. MsgInit => MsgInv
  BY DEF MsgInit, MsgInv
<1>2. MsgInv => LastHeaderStands
  BY DEF MsgInv, MsgOK, LastHeaderStands, HeaderOf, LastValue
<1> QED
  BY <1>1, <1>2, MsgStep, PTL DEF MsgSpec

-----------------------------------------------------------------------------
(* Containers: the vectors the operations compute.                         *)

Pair == Elem \X Elem

LEMMA FirstAtIs ==
    ASSUME NEW S, NEW s \in Seq(S), NEW x
    PROVE  /\ FirstAt(s, x) \in Nat
           /\ FirstAt(s, x) = 0 <=> \A i \in DOMAIN s : s[i] # x
           /\ FirstAt(s, x) # 0 => FirstAt(s, x) \in DOMAIN s
<1>1. Len(s) \in Nat /\ DOMAIN s = 1 .. Len(s)
  OBVIOUS
<1>2. CASE x \in ToSet(s)
  <2> DEFINE T == {i \in DOMAIN s : s[i] = x}
  <2>1. T \in SUBSET Nat /\ T # {}
    BY <1>1, <1>2 DEF ToSet
  <2>2. PICK i \in T : \A j \in T : i <= j
    <3> HIDE DEF T
    <3> QED
      BY <2>1, NatMin
  <2>3. s[i] = x /\ i \in DOMAIN s /\ \A j \in 1 .. i - 1 : s[j] # x
    BY <1>1, <2>2
  <2>4. FirstAt(s, x) \in DOMAIN s
    BY <1>2, <2>3 DEF FirstAt
  <2> QED
    BY <1>1, <1>2, <2>3, <2>4
<1>3. CASE x \notin ToSet(s)
  <2>1. FirstAt(s, x) = 0 /\ \A i \in DOMAIN s : s[i] # x
    BY <1>3 DEF FirstAt, ToSet
  <2> QED
    BY <1>1, <2>1
<1> QED
  BY <1>2, <1>3

LEMMA RemoveAtIs ==
    ASSUME NEW S, NEW s \in Seq(S), NEW i \in DOMAIN s
    PROVE  /\ RemoveAt(s, i) \in Seq(S) /\ Len(RemoveAt(s, i)) = Len(s) - 1
           /\ \A j \in 1 .. Len(s) - 1 : RemoveAt(s, i)[j] = s[IF j < i THEN j ELSE j + 1]
<1> DEFINE a == SubSeq(s, 1, i - 1)
           b == SubSeq(s, i + 1, Len(s))
<1>1. Len(s) \in Nat /\ i \in 1 .. Len(s)
  OBVIOUS
<1>2. a \in Seq(S) /\ Len(a) = i - 1 /\ \A j \in 1 .. i - 1 : a[j] = s[j]
  BY <1>1
<1>3. b \in Seq(S) /\ Len(b) = Len(s) - i /\ \A j \in 1 .. Len(s) - i : b[j] = s[i + j]
  BY <1>1
<1>4. RemoveAt(s, i) = a \o b
  BY DEF RemoveAt
<1> HIDE DEF a, b
<1>5. a \o b \in Seq(S) /\ Len(a \o b) = Len(s) - 1
  BY <1>1, <1>2, <1>3
<1>6. ASSUME NEW j \in 1 .. Len(s) - 1
      PROVE  (a \o b)[j] = s[IF j < i THEN j ELSE j + 1]
  <2>1. CASE j < i
    <3>1. j \in 1 .. Len(a)
      BY <1>1, <1>2, <2>1
    <3> QED
      BY <1>1, <1>2, <1>3, <2>1, <3>1
  <2>2. CASE ~(j < i)
    <3>1. j - Len(a) \in 1 .. Len(s) - i /\ ~(j <= Len(a)) /\ i + (j - Len(a)) = j + 1
      BY <1>1, <1>2, <2>2
    <3>2. (a \o b)[j] = b[j - Len(a)]
      <4>1. /\ a \in Seq(S) /\ b \in Seq(S) /\ Len(a) \in Nat /\ Len(b) \in Nat
            /\ j \in 1 .. Len(a) + Len(b)
        BY <1>1, <1>2, <1>3
      <4>2. ~(j <= Len(a))
        BY <3>1
      <4> QED
        BY <4>1, <4>2
    <3> QED
      BY <1>3, <2>2, <3>1, <3>2
  <2> QED
    BY <2>1, <2>2
<1> QED
  BY <1>4, <1>5, <1>6

\* Maps with one pair per key.
DistinctKeys(m) == \A i, j \in DOMAIN m : m[i][1] = m[j][1] => i = j
Maps == {m \in Seq(Pair) : DistinctKeys(m)}

LEMMA KeysIs ==
    ASSUME NEW m \in Seq(Pair)
    PROVE  /\ Keys(m) \in Seq(Elem) /\ Len(Keys(m)) = Len(m) /\ DOMAIN Keys(m) = DOMAIN m
           /\ \A i \in DOMAIN m : Keys(m)[i] = m[i][1]
           /\ IsInjective(Keys(m)) <=> DistinctKeys(m)
<1>1. Len(m) \in Nat /\ DOMAIN m = 1 .. Len(m)
  OBVIOUS
<1>2. \A i \in 1 .. Len(m) : m[i] \in Elem \X Elem
  BY DEF Pair
<1>3. \A i \in 1 .. Len(m) : m[i][1] \in Elem
  BY <1>2
<1>4. Keys(m) = [i \in 1 .. Len(m) |-> m[i][1]]
  BY <1>1 DEF Keys
<1>5. Keys(m) \in Seq(Elem) /\ Len(Keys(m)) = Len(m)
  BY <1>1, <1>3, <1>4
<1> QED
  BY <1>1, <1>4, <1>5 DEF IsInjective, DistinctKeys

LEMMA AppendPair ==
    ASSUME NEW m \in Maps, NEW p \in Pair, \A i \in DOMAIN m : m[i][1] # p[1]
    PROVE  Append(m, p) \in Maps
<1> DEFINE t == Append(m, p)
<1>1. m \in Seq(Pair) /\ DistinctKeys(m)
  BY DEF Maps
<1>2. /\ t \in Seq(Pair) /\ DOMAIN t = 1 .. Len(m) + 1 /\ t[Len(m) + 1] = p
      /\ \A i \in 1 .. Len(m) : t[i] = m[i]
      /\ Len(m) \in Nat /\ DOMAIN m = 1 .. Len(m)
  BY <1>1
<1> HIDE DEF t
<1>3. \A i \in DOMAIN t : i \in DOMAIN m \/ i = Len(m) + 1
  BY <1>2
<1>4. DistinctKeys(t)
  BY <1>1, <1>2, <1>3 DEF DistinctKeys
<1> QED
  BY <1>2, <1>4 DEF Maps, t

\* map_put keeps keys distinct: a new key is appended, an old one keeps its
\* place.
LEMMA MapPutIs ==
    ASSUME NEW m \in Maps, NEW k \in Elem, NEW v \in Elem
    PROVE  MapPut(m, k, v) \in Maps
<1>1. m \in Seq(Pair) /\ DistinctKeys(m) /\ Len(m) \in Nat /\ DOMAIN m = 1 .. Len(m)
  BY DEF Maps
<1>2. CASE MapFind(m, k) = 0
  <2>1. \A i \in DOMAIN m : m[i][1] # k
    BY <1>1, <1>2, KeysIs, FirstAtIs DEF MapFind
  <2> DEFINE p == <<k, v>>
  <2>2. p \in Pair /\ p[1] = k
    BY DEF Pair
  <2>3. MapPut(m, k, v) = Append(m, p)
    BY <1>2 DEF MapPut
  <2> HIDE DEF p
  <2> QED
    BY <2>1, <2>2, <2>3, AppendPair
<1>3. CASE MapFind(m, k) # 0
  <2> DEFINE e(i) == IF m[i][1] = k THEN <<m[i][1], v>> ELSE m[i]
             t == [i \in 1 .. Len(m) |-> e(i)]
  <2>1. MapPut(m, k, v) = t
    BY <1>1, <1>3 DEF MapPut
  <2>2. \A i \in 1 .. Len(m) : e(i) \in Pair /\ e(i)[1] = m[i][1]
    <3>1. \A i \in 1 .. Len(m) : m[i] \in Elem \X Elem
      BY <1>1 DEF Pair
    <3> QED
      BY <3>1 DEF Pair
  <2> HIDE DEF e
  <2>3. t \in Seq(Pair) /\ DOMAIN t = DOMAIN m /\ \A i \in DOMAIN m : t[i][1] = m[i][1]
    BY <1>1, <2>2
  <2> HIDE DEF t
  <2>4. DistinctKeys(t)
    BY <1>1, <2>3 DEF DistinctKeys
  <2> QED
    BY <2>1, <2>3, <2>4 DEF Maps
<1> QED
  BY <1>2, <1>3

LEMMA RemovePair ==
    ASSUME NEW m \in Maps, NEW i \in DOMAIN m
    PROVE  RemoveAt(m, i) \in Maps
<1> DEFINE t == RemoveAt(m, i)
           at(j) == IF j < i THEN j ELSE j + 1
<1>1. m \in Seq(Pair) /\ DistinctKeys(m) /\ Len(m) \in Nat /\ DOMAIN m = 1 .. Len(m)
  BY DEF Maps
<1>2. t \in Seq(Pair) /\ Len(t) = Len(m) - 1 /\ \A j \in 1 .. Len(m) - 1 : t[j] = m[at(j)]
  BY <1>1, RemoveAtIs
<1> HIDE DEF t
<1>3. DOMAIN t = 1 .. Len(m) - 1
  BY <1>2
<1>4. /\ \A j \in DOMAIN t : at(j) \in DOMAIN m
      /\ \A j, l \in DOMAIN t : at(j) = at(l) => j = l
  BY <1>1, <1>3
<1> HIDE DEF at
<1>5. DistinctKeys(t)
  <2> SUFFICES ASSUME NEW j \in DOMAIN t, NEW l \in DOMAIN t, t[j][1] = t[l][1]
               PROVE  j = l
    BY DEF DistinctKeys
  <2>1. t[j] = m[at(j)] /\ t[l] = m[at(l)]
    BY <1>2, <1>3
  <2>2. at(j) \in DOMAIN m /\ at(l) \in DOMAIN m
    BY <1>4
  <2>3. at(j) = at(l)
    BY <1>1, <2>1, <2>2 DEF DistinctKeys
  <2> QED
    BY <1>4, <2>3
<1> QED
  BY <1>2, <1>5 DEF Maps, t

LEMMA MapRemoveIs ==
    ASSUME NEW m \in Maps, NEW k, NEW want
    PROVE  MapRemove(m, k, want) \in Maps
<1>1. m \in Seq(Pair)
  BY DEF Maps
<1>2. MapFind(m, k) # 0 => MapFind(m, k) \in DOMAIN m
  BY <1>1, KeysIs, FirstAtIs DEF MapFind
<1> QED
  BY <1>2, RemovePair DEF MapRemove

\* map_put_all puts the pairs one by one.
LEMMA MapPutAllIs ==
    ASSUME NEW m \in Maps, NEW src \in Seq(Pair)
    PROVE  MapPutAll(m, src) \in Maps
<1> DEFINE n == Len(src)
           loop(g) == [i \in 0 .. n |->
                         IF i = 0 THEN m ELSE MapPut(g[i - 1], src[i][1], src[i][2])]
           G == CHOOSE g : g = loop(g)
           step == [p \in (1 .. n) \X Maps |-> MapPut(p[2], src[p[1]][1], src[p[1]][2])]
<1>1. n \in Nat /\ \A i \in 1 .. n : src[i][1] \in Elem /\ src[i][2] \in Elem
  <2>1. \A i \in 1 .. n : src[i] \in Elem \X Elem
    BY DEF Pair
  <2> QED
    BY <2>1
<1>2. step \in [(1 .. n) \X Maps -> Maps]
  <2>1. \A p \in (1 .. n) \X Maps : MapPut(p[2], src[p[1]][1], src[p[1]][2]) \in Maps
    BY <1>1, MapPutIs
  <2> QED
    BY <2>1
<1>3. MapPutAll(m, src) = G[n]
  BY DEF MapPutAll
<1>4. PICK g \in [0 .. n -> Maps] : Follows(g, n, m, step)
  <2>1. n \in Nat
    BY <1>1
  <2> HIDE DEF n, step
  <2> QED
    BY <2>1, <1>2, Recursion
<1>5. g[0] = m /\ \A i \in 1 .. n : g[i] = MapPut(g[i - 1], src[i][1], src[i][2])
  <2>1. ASSUME NEW i \in 1 .. n PROVE g[i] = MapPut(g[i - 1], src[i][1], src[i][2])
    <3>1. i - 1 \in 0 .. n
      BY <1>1
    <3>2. <<i, g[i - 1]>> \in (1 .. n) \X Maps
      BY <3>1
    <3>3. g[i] = step[<<i, g[i - 1]>>]
      BY <1>4 DEF Follows
    <3> QED
      BY <3>2, <3>3
  <2> QED
    BY <1>4, <2>1 DEF Follows
<1>6. g = loop(g)
  <2>1. \A i \in 0 .. n : g[i] = loop(g)[i]
    <3>1. \A i \in 0 .. n : i # 0 => i \in 1 .. n
      BY <1>1
    <3> QED
      BY <1>5, <3>1
  <2>2. g = [i \in 0 .. n |-> g[i]]
    OBVIOUS
  <2> QED
    BY <2>1, <2>2
<1>7. G = loop(G)
  BY <1>6
<1>8. \A i \in 0 .. n : G[i] \in Maps
  <2> DEFINE In == {i \in 0 .. n : G[i] \in Maps}
  <2> HIDE DEF G
  <2>1. 0 \in In
    BY <1>1, <1>7
  <2>2. ASSUME NEW i \in 1 .. n, i - 1 \in In PROVE i \in In
    <3>1. i \in 0 .. n /\ i # 0 /\ G[i - 1] \in Maps
      BY <1>1, <2>2
    <3>2. G[i] = MapPut(G[i - 1], src[i][1], src[i][2])
      BY <1>7, <3>1
    <3> QED
      BY <1>1, <3>1, <3>2, MapPutIs
  <2> HIDE DEF In
  <2>3. \A i \in 0 .. n : i \in In
    BY <1>1, <2>1, <2>2, IntervalInduction
  <2> QED
    BY <2>3 DEF In
<1> HIDE DEF G
<1> QED
  BY <1>1, <1>3, <1>8

\* set_add_all pushes the elements that are not there yet.
LEMMA SetAddAllIs ==
    ASSUME NEW s \in Seq(Elem), NEW xs \in Seq(Elem)
    PROVE  SetAddAll(s, xs) \in Seq(Elem)
<1> DEFINE n == Len(xs)
           push(t, x) == IF x \in ToSet(t) THEN t ELSE Append(t, x)
           loop(g) == [i \in 0 .. n |-> IF i = 0 THEN s ELSE push(g[i - 1], xs[i])]
           G == CHOOSE g : g = loop(g)
           step == [p \in (1 .. n) \X Seq(Elem) |-> push(p[2], xs[p[1]])]
<1>1. n \in Nat /\ \A i \in 1 .. n : xs[i] \in Elem
  OBVIOUS
<1>0. \A t \in Seq(Elem), x \in Elem : push(t, x) \in Seq(Elem)
  OBVIOUS
<1>3. SetAddAll(s, xs) = G[n]
  BY DEF SetAddAll
<1> HIDE DEF push
<1>2. step \in [(1 .. n) \X Seq(Elem) -> Seq(Elem)]
  <2>1. \A p \in (1 .. n) \X Seq(Elem) : push(p[2], xs[p[1]]) \in Seq(Elem)
    BY <1>0, <1>1
  <2> QED
    BY <2>1
<1>4. PICK g \in [0 .. n -> Seq(Elem)] : Follows(g, n, s, step)
  <2>1. n \in Nat
    BY <1>1
  <2> HIDE DEF n, step
  <2> QED
    BY <2>1, <1>2, Recursion
<1>5. g[0] = s /\ \A i \in 1 .. n : g[i] = push(g[i - 1], xs[i])
  <2>1. ASSUME NEW i \in 1 .. n PROVE g[i] = push(g[i - 1], xs[i])
    <3>1. i - 1 \in 0 .. n
      BY <1>1
    <3>2. <<i, g[i - 1]>> \in (1 .. n) \X Seq(Elem)
      BY <3>1
    <3>3. g[i] = step[<<i, g[i - 1]>>]
      BY <1>4 DEF Follows
    <3> QED
      BY <3>2, <3>3
  <2> QED
    BY <1>4, <2>1 DEF Follows
<1>6. g = loop(g)
  <2>1. \A i \in 0 .. n : g[i] = loop(g)[i]
    <3>1. \A i \in 0 .. n : i # 0 => i \in 1 .. n
      BY <1>1
    <3> QED
      BY <1>5, <3>1
  <2>2. g = [i \in 0 .. n |-> g[i]]
    OBVIOUS
  <2> QED
    BY <2>1, <2>2
<1>7. G = loop(G)
  BY <1>6
<1>8. \A i \in 0 .. n : G[i] \in Seq(Elem)
  <2> DEFINE In == {i \in 0 .. n : G[i] \in Seq(Elem)}
  <2> HIDE DEF G
  <2>1. 0 \in In
    BY <1>1, <1>7
  <2>2. ASSUME NEW i \in 1 .. n, i - 1 \in In PROVE i \in In
    <3>1. i \in 0 .. n /\ i # 0 /\ G[i - 1] \in Seq(Elem)
      BY <1>1, <2>2
    <3>2. G[i] = push(G[i - 1], xs[i])
      BY <1>7, <3>1
    <3> QED
      BY <1>0, <1>1, <3>1, <3>2
  <2> HIDE DEF In
  <2>3. \A i \in 0 .. n : i \in In
    BY <1>1, <2>1, <2>2, IntervalInduction
  <2> QED
    BY <2>3 DEF In
<1> HIDE DEF G
<1> QED
  BY <1>1, <1>3, <1>8

\* The argument of the map's bulk operation.
LEMMA EverythingIs == Everything \in Seq(Pair)
<1> DEFINE T == {<<k, k>> : k \in Elem}
           f == [k \in Elem |-> <<k, k>>]
<1>1. T \subseteq Pair
  BY DEF Pair
<1>2. f \in Bijection(Elem, T)
  BY DEF Bijection, Injection, Surjection, IsInjective
<1> HIDE DEF T, f
<1>3. IsFiniteSet(T)
  BY <1>2, ElemAssumption, FS_Bijection DEF ExistsBijection
<1>4. Cardinality(T) \in Nat /\ \E g : g \in Bijection(1 .. Cardinality(T), T)
  BY <1>3, FS_CardinalityType DEF ExistsBijection
<1>5. \E g \in [1 .. Cardinality(T) -> T] : IsInjective(g)
  BY <1>4 DEF Bijection, Injection
<1>6. SetToSeq(T) \in [1 .. Cardinality(T) -> T]
  BY <1>5 DEF SetToSeq
<1>7. SetToSeq(T) \in Seq(Pair)
  BY <1>1, <1>4, <1>6
<1> QED
  BY <1>7 DEF Everything, T

LEMMA PrefixIs ==
    ASSUME NEW S, NEW s \in Seq(S), NEW t \in Seq(S)
    PROVE  IsPrefix(s, t) <=> Len(s) <= Len(t) /\ \A i \in 1 .. Len(s) : s[i] = t[i]
<1>1. Len(s) \in Nat /\ Len(t) \in Nat /\ s = [i \in 1 .. Len(s) |-> s[i]]
  OBVIOUS
<1> SUFFICES ASSUME Len(s) <= Len(t)
             PROVE  SubSeq(s, 1, Len(s)) = SubSeq(t, 1, Len(s)) <=> \A i \in 1 .. Len(s) : s[i] = t[i]
  BY DEF IsPrefix
<1>2. SubSeq(s, 1, Len(s)) = s
  BY <1>1
<1>3. SubSeq(t, 1, Len(s)) = [i \in 1 .. Len(s) |-> t[i]]
  BY <1>1
<1> QED
  BY <1>1, <1>2, <1>3

-----------------------------------------------------------------------------
(* Containers: the inductive invariant.  Every copy an operation works on   *)
(* is a vector the container could have, whatever happened to the container *)
(* since the copy was taken.                                                *)

ItemOf(kind) == IF kind = "map" THEN Pair ELSE Elem
VectorOK(kind, v) == v \in Seq(ItemOf(kind)) /\ (kind = "map" => DistinctKeys(v))

CallRec ==
    [op   : {"remove", "removeAll", "retainAll", "sort", "add", "addAll", "put", "putIfAbsent", "putAll"},
     arg  : Elem \cup Seq(Elem) \cup {NullRef} \cup Pair \cup Seq(Pair) \cup (Elem \X {NullRef}),
     snap : Seq(Elem) \cup Seq(Pair)]

CallOK(kind, c) ==
    /\ VectorOK(kind, c.snap)
    /\ kind = "set" => /\ c.op = "add" => c.arg \in Elem
                       /\ c.op = "addAll" => c.arg \in Seq(Elem)
    /\ kind = "map" => /\ c.op \in {"put", "putIfAbsent"} => c.arg \in Pair
                       /\ c.op = "putAll" => c.arg \in Seq(Pair)

CallsOK(kind, cs) == cs \in Seq(CallRec) /\ \A i \in DOMAIN cs : CallOK(kind, cs[i])

IterOK(kind, v, it) ==
    /\ it \in [on : BOOLEAN, idx : Nat, seen : Seq(ItemOf(kind))]
    /\ it.on => Len(it.seen) = it.idx /\ IsPrefix(it.seen, v)

EntryOK(kind, v, en) ==
    en # NoEntry => kind = "map" /\ en.idx \in DOMAIN v /\ v[en.idx][1] = en.key

ContInv ==
    /\ cKind \in {"list", "set", "map", "deque"}
    /\ VectorOK(cKind, cItems) /\ CallsOK(cKind, cCalls)
    /\ IterOK(cKind, cItems, cIter) /\ EntryOK(cKind, cItems, cEntry)

\* Iterators and entries survive what Becomes says they survive.
LEMMA BecomesKept ==
    ASSUME ContInv, NEW v, VectorOK(cKind, v), Becomes(v), CallsOK(cKind, cCalls')
    PROVE  ContInv'
<1> DEFINE S == ItemOf(cKind)
<1>1. /\ cKind' = cKind /\ cItems' = v
      /\ cIter' = IF IsPrefix(cItems, v) THEN cIter ELSE NoIter
      /\ cEntry' = IF cKind = "map" /\ ~IsPrefix(Keys(cItems), Keys(v)) THEN NoEntry ELSE cEntry
  BY DEF Becomes
<1>2. cItems \in Seq(S) /\ v \in Seq(S)
  BY DEF ContInv, VectorOK
<1>3. IterOK(cKind, v, cIter')
  <2>1. CASE IsPrefix(cItems, v)
    <3>1. cIter' = cIter /\ IterOK(cKind, cItems, cIter)
      BY <1>1, <2>1 DEF ContInv
    <3>2. cIter.seen \in Seq(S)
      BY <3>1 DEF IterOK
    <3> HIDE DEF S
    <3>3. cIter.on => IsPrefix(cIter.seen, v)
      <4> SUFFICES ASSUME cIter.on PROVE IsPrefix(cIter.seen, v)
        OBVIOUS
      <4> DEFINE q == cIter.seen
      <4>1. q \in Seq(S) /\ IsPrefix(q, cItems)
        BY <3>1, <3>2 DEF IterOK
      <4> HIDE DEF q
      <4>2. /\ Len(q) <= Len(cItems) /\ \A i \in 1 .. Len(q) : q[i] = cItems[i]
            /\ Len(cItems) <= Len(v) /\ \A i \in 1 .. Len(cItems) : cItems[i] = v[i]
            /\ Len(q) \in Nat /\ Len(cItems) \in Nat /\ Len(v) \in Nat
        BY <1>2, <2>1, <4>1, PrefixIs
      <4>3. Len(q) <= Len(v) /\ \A i \in 1 .. Len(q) : q[i] = v[i]
        BY <4>2
      <4> QED
        BY <1>2, <4>1, <4>3, PrefixIs DEF q
    <3> QED
      BY <3>1, <3>3 DEF IterOK
  <2>2. CASE ~IsPrefix(cItems, v)
    BY <1>1, <2>2 DEF IterOK, NoIter
  <2> QED
    BY <2>1, <2>2
<1>4. EntryOK(cKind, v, cEntry')
  <2> SUFFICES ASSUME cEntry' # NoEntry
               PROVE  cKind = "map" /\ cEntry.idx \in DOMAIN v /\ v[cEntry.idx][1] = cEntry.key
                      /\ cEntry' = cEntry
    BY DEF EntryOK
  <2>1. cEntry' = cEntry
    BY <1>1
  <2>2. cKind = "map" /\ cEntry.idx \in DOMAIN cItems /\ cItems[cEntry.idx][1] = cEntry.key
    BY <2>1 DEF ContInv, EntryOK
  <2>3. IsPrefix(Keys(cItems), Keys(v)) /\ cItems \in Seq(Pair) /\ v \in Seq(Pair)
    BY <1>1, <1>2, <2>2 DEF ItemOf
  <2>4. /\ Len(cItems) <= Len(v) /\ \A i \in 1 .. Len(cItems) : Keys(cItems)[i] = Keys(v)[i]
        /\ \A i \in DOMAIN cItems : Keys(cItems)[i] = cItems[i][1]
        /\ \A i \in DOMAIN v : Keys(v)[i] = v[i][1]
    <3>1. /\ Keys(cItems) \in Seq(Elem) /\ Len(Keys(cItems)) = Len(cItems)
          /\ Keys(v) \in Seq(Elem) /\ Len(Keys(v)) = Len(v)
          /\ \A i \in DOMAIN cItems : Keys(cItems)[i] = cItems[i][1]
          /\ \A i \in DOMAIN v : Keys(v)[i] = v[i][1]
      BY <2>3, KeysIs
    <3>2. Len(Keys(cItems)) <= Len(Keys(v))
          /\ \A i \in 1 .. Len(Keys(cItems)) : Keys(cItems)[i] = Keys(v)[i]
      BY <2>3, <3>1, PrefixIs
    <3> QED
      BY <3>1, <3>2
  <2>5. DOMAIN cItems = 1 .. Len(cItems) /\ DOMAIN v = 1 .. Len(v)
        /\ Len(cItems) \in Nat /\ Len(v) \in Nat
    BY <2>3
  <2>6. cEntry.idx \in DOMAIN v
    BY <2>2, <2>4, <2>5
  <2> QED
    BY <2>1, <2>2, <2>4, <2>5, <2>6
<1> QED
  BY <1>1, <1>3, <1>4 DEF ContInv

LEMMA DoesKept ==
    ASSUME ContInv, NEW v, VectorOK(cKind, v), Does(v)
    PROVE  ContInv'
<1>1. Becomes(v) /\ CallsOK(cKind, cCalls')
  BY DEF Does, ContInv
<1> QED
  BY <1>1, BecomesKept

LEMMA ThrowsKept ==
    ASSUME ContInv, NEW e, Throws(e)
    PROVE  ContInv'
  BY DEF Throws, ContInv

\* The innermost operation is done.
LEMMA PopCall ==
    ASSUME ContInv, cCalls # <<>>
    PROVE  /\ CallsOK(cKind, Front(cCalls))
           /\ Call \in CallRec /\ CallOK(cKind, Call)
<1>1. cCalls \in Seq(CallRec) /\ \A i \in DOMAIN cCalls : CallOK(cKind, cCalls[i])
  BY DEF ContInv, CallsOK
<1>2. /\ Front(cCalls) \in Seq(CallRec) /\ DOMAIN Front(cCalls) = 1 .. Len(cCalls) - 1
      /\ \A i \in 1 .. Len(cCalls) - 1 : Front(cCalls)[i] = cCalls[i]
      /\ Len(cCalls) \in DOMAIN cCalls /\ Last(cCalls) = cCalls[Len(cCalls)]
      /\ Last(cCalls) \in CallRec
      /\ Len(cCalls) \in Nat \ {0} /\ DOMAIN cCalls = 1 .. Len(cCalls)
  BY <1>1, FrontFrames
<1>3. \A i \in 1 .. Len(cCalls) - 1 : i \in DOMAIN cCalls
  BY <1>2
<1> QED
  BY <1>1, <1>2, <1>3 DEF CallsOK, Call

LEMMA StoresKept ==
    ASSUME ContInv, cCalls # <<>>, NEW v, VectorOK(cKind, v), Stores(v)
    PROVE  ContInv'
<1>1. Becomes(v) /\ CallsOK(cKind, cCalls')
  BY PopCall DEF Stores
<1> QED
  BY <1>1, BecomesKept

LEMMA EndsKept ==
    ASSUME ContInv, cCalls # <<>>, NEW out, Ends(out)
    PROVE  ContInv'
<1>1. CallsOK(cKind, cCalls') /\ UNCHANGED <<cKind, cItems, cIter, cEntry>>
  BY PopCall DEF Ends
<1> QED
  BY <1>1 DEF ContInv

LEMMA ContBeginKept ==
    ASSUME ContInv, NEW o, NEW arg, ContBegin(o, arg),
           o \in {"remove", "removeAll", "retainAll", "sort", "add", "addAll", "put", "putIfAbsent",
                  "putAll"},
           arg \in Elem \cup Seq(Elem) \cup {NullRef} \cup Pair \cup Seq(Pair) \cup (Elem \X {NullRef}),
           cKind = "set" => (o = "add" => arg \in Elem) /\ (o = "addAll" => arg \in Seq(Elem)),
           cKind = "map" => /\ o \in {"put", "putIfAbsent"} => arg \in Pair
                            /\ o = "putAll" => arg \in Seq(Pair)
    PROVE  ContInv'
<1> DEFINE c == [op |-> o, arg |-> arg, snap |-> cItems]
<1>1. cCalls' = Append(cCalls, c) /\ UNCHANGED <<cKind, cItems, cIter, cEntry>>
  BY DEF ContBegin
<1>2. cItems \in Seq(Elem) \cup Seq(Pair)
  BY DEF ContInv, VectorOK, ItemOf
<1>3. c \in CallRec
  BY <1>2 DEF CallRec
<1>4. c.op = o /\ c.arg = arg /\ c.snap = cItems
  OBVIOUS
<1> HIDE DEF c
<1>5. CallOK(cKind, c)
  BY <1>4 DEF CallOK, ContInv
<1>6. cCalls \in Seq(CallRec) /\ \A i \in DOMAIN cCalls : CallOK(cKind, cCalls[i])
  BY DEF ContInv, CallsOK
<1>7. /\ cCalls' \in Seq(CallRec) /\ DOMAIN cCalls' = 1 .. Len(cCalls) + 1
      /\ cCalls'[Len(cCalls) + 1] = c /\ \A i \in 1 .. Len(cCalls) : cCalls'[i] = cCalls[i]
      /\ DOMAIN cCalls = 1 .. Len(cCalls) /\ Len(cCalls) \in Nat
  BY <1>1, <1>3, <1>6
<1>8. \A i \in DOMAIN cCalls' : i \in DOMAIN cCalls \/ i = Len(cCalls) + 1
  BY <1>7
<1>9. CallsOK(cKind, cCalls')
  BY <1>5, <1>6, <1>7, <1>8 DEF CallsOK
<1> QED
  BY <1>1, <1>9 DEF ContInv

\* What the operations of lists, sets and deques make of a vector of elements
\* is one.
LEMMA VectorOps ==
    ASSUME NEW s \in Seq(Elem)
    PROVE  /\ \A i \in DOMAIN s, x \in Elem : [s EXCEPT ![i] = x] \in Seq(Elem)
           /\ \A x \in Elem : Append(s, x) \in Seq(Elem) /\ <<x>> \o s \in Seq(Elem)
           /\ \A t \in Seq(Elem) : s \o t \in Seq(Elem)
           /\ \A i \in 1 .. Len(s) + 1, x \in Elem : InsertAt(s, i, x) \in Seq(Elem)
           /\ \A i \in DOMAIN s : RemoveAt(s, i) \in Seq(Elem)
           /\ Reverse(s) \in Seq(Elem) /\ <<>> \in Seq(Elem)
           /\ s # <<>> => Tail(s) \in Seq(Elem) /\ Front(s) \in Seq(Elem)
           /\ \A T : Keeping(s, T) \in Seq(Elem)
           /\ \A v \in Sorted(s) : v \in Seq(Elem)
<1>1. Len(s) \in Nat /\ DOMAIN s = 1 .. Len(s) /\ \A i \in 1 .. Len(s) : s[i] \in Elem
  OBVIOUS
<1>2. ASSUME NEW i \in DOMAIN s, NEW x \in Elem PROVE [s EXCEPT ![i] = x] \in Seq(Elem)
  OBVIOUS
<1>3. ASSUME NEW x \in Elem PROVE Append(s, x) \in Seq(Elem) /\ <<x>> \o s \in Seq(Elem)
  <2>1. <<x>> \in Seq(Elem)
    OBVIOUS
  <2> DEFINE one == <<x>>
  <2> HIDE DEF one
  <2>2. one \o s \in Seq(Elem)
    BY <2>1 DEF one
  <2> QED
    BY <2>2 DEF one
<1>4. ASSUME NEW t \in Seq(Elem) PROVE s \o t \in Seq(Elem)
  OBVIOUS
<1>5. ASSUME NEW i \in 1 .. Len(s) + 1, NEW x \in Elem PROVE InsertAt(s, i, x) \in Seq(Elem)
  <2> DEFINE a == SubSeq(s, 1, i - 1)
             o == <<x>>
             b == SubSeq(s, i, Len(s))
  <2>1. a \in Seq(Elem) /\ b \in Seq(Elem) /\ o \in Seq(Elem)
    <3>1. \A j \in 1 .. i - 1 : j \in 1 .. Len(s)
      BY <1>1
    <3>2. \A j \in i .. Len(s) : j \in 1 .. Len(s)
      BY <1>1
    <3> QED
      BY <1>1, <3>1, <3>2
  <2>2. InsertAt(s, i, x) = a \o o \o b
    BY DEF InsertAt
  <2> HIDE DEF a, o, b
  <2>3. a \o o \in Seq(Elem)
    BY <2>1
  <2> QED
    BY <2>1, <2>2, <2>3
<1>6. ASSUME NEW i \in DOMAIN s PROVE RemoveAt(s, i) \in Seq(Elem)
  BY RemoveAtIs
<1>7. Reverse(s) \in Seq(Elem) /\ <<>> \in Seq(Elem)
  <2>1. \A i \in 1 .. Len(s) : (Len(s) - i) + 1 \in 1 .. Len(s)
    BY <1>1
  <2> QED
    BY <1>1, <2>1 DEF Reverse
<1>8. s # <<>> => Tail(s) \in Seq(Elem) /\ Front(s) \in Seq(Elem)
  BY FrontFrames
<1>9. ASSUME NEW T PROVE Keeping(s, T) \in Seq(Elem)
  <2>1. PICK g \in [0 .. Len(s) -> Seq(Elem)] : KeepingRun(g, s, T)
    BY KeepingLoop
  <2>2. Keeping(s, T) = g[Len(s)]
    BY <2>1 DEF KeepingRun
  <2> QED
    BY <1>1, <2>2
<1>10. ASSUME NEW v \in Sorted(s) PROVE v \in Seq(Elem)
  <2>1. PICK p \in [DOMAIN s -> DOMAIN s] : v = [i \in DOMAIN s |-> s[p[i]]]
    BY DEF Sorted
  <2> QED
    BY <1>1, <2>1
<1> QED
  BY <1>2, <1>3, <1>4, <1>5, <1>6, <1>7, <1>8, <1>9, <1>10

LEMMA OneIs == ASSUME NEW xs \in One PROVE xs \in Seq(Elem)
<1>1. PICK x \in Elem : xs = <<x>>
  BY DEF One
<1> QED
  BY <1>1

\* A removal by value looks its argument up in its copy: the position found
\* there is removed here, or lies past the end.
LEMMA RemoveFoundKept ==
    ASSUME ContInv, cCalls # <<>>, cKind # "map", NEW x, RemoveFound(x)
    PROVE  ContInv'
<1> DEFINE i == FirstAt(Snap, x)
<1>1. Snap \in Seq(Elem) /\ cItems \in Seq(Elem)
  BY PopCall DEF ContInv, CallOK, VectorOK, ItemOf, Snap
<1>2. CASE i \in DOMAIN cItems /\ Stores(RemoveAt(cItems, i))
  <2> HIDE DEF i
  <2>1. VectorOK(cKind, RemoveAt(cItems, i))
    BY <1>1, <1>2, VectorOps DEF VectorOK, ItemOf
  <2> QED
    BY <1>2, <2>1, StoresKept
<1> QED
  BY <1>2, EndsKept DEF RemoveFound

LEMMA ClearKept ==
    ASSUME ContInv, Clear
    PROVE  ContInv'
<1>1. VectorOK(cKind, <<>>)
  BY DEF VectorOK, DistinctKeys
<1> QED
  BY <1>1, DoesKept DEF Clear

LEMMA IterNewKept ==
    ASSUME ContInv, cKind # "map", NEW i \in 0 .. Len(cItems), IterNew(i)
    PROVE  ContInv'
<1> DEFINE q == SubSeq(cItems, 1, i)
           it == [on |-> TRUE, idx |-> i, seen |-> q]
<1>1. cIter' = it /\ UNCHANGED <<cKind, cItems, cCalls, cEntry>>
  BY DEF IterNew
<1>2. cItems \in Seq(Elem) /\ Len(cItems) \in Nat
  BY DEF ContInv, VectorOK, ItemOf
<1>3. q \in Seq(Elem) /\ Len(q) = i /\ \A j \in 1 .. i : q[j] = cItems[j]
  BY <1>2
<1> HIDE DEF q
<1>4. IsPrefix(q, cItems)
  BY <1>2, <1>3, PrefixIs
<1>5. it.on = TRUE /\ it.idx = i /\ it.seen = q /\ it \in [on : BOOLEAN, idx : Nat, seen : Seq(Elem)]
  BY <1>2, <1>3
<1> HIDE DEF it
<1>6. IterOK(cKind, cItems, it)
  BY <1>3, <1>4, <1>5 DEF IterOK, ItemOf
<1> QED
  BY <1>1, <1>6 DEF ContInv

LEMMA ListCommitKept ==
    ASSUME ContInv, cKind = "list", cCalls # <<>>, ListCommit
    PROVE  ContInv'
<1>1. Snap \in Seq(Elem)
  BY PopCall DEF ContInv, CallOK, VectorOK, ItemOf, Snap
<1>2. CASE RemoveFound(Arg)
  BY <1>2, RemoveFoundKept
<1>3. ASSUME NEW v \in Seq(Elem), Stores(v) PROVE ContInv'
  <2>1. VectorOK(cKind, v)
    BY DEF VectorOK, ItemOf
  <2> QED
    BY <1>3, <2>1, StoresKept
<1>4. CASE Stores(ItemsWithout(Snap, Arg))
  <2>1. ItemsWithout(Snap, Arg) \in Seq(Elem)
    BY <1>1, VectorOps DEF ItemsWithout
  <2> QED
    BY <1>3, <1>4, <2>1
<1>5. CASE Stores(Within(Snap, Arg))
  <2>1. Within(Snap, Arg) \in Seq(Elem)
    BY <1>1, VectorOps DEF Within
  <2> QED
    BY <1>3, <1>5, <2>1
<1>6. ASSUME NEW v \in Sorted(Snap), Stores(v) PROVE ContInv'
  <2>1. v \in Seq(Elem)
    BY <1>1, VectorOps
  <2> QED
    BY <1>3, <1>6, <2>1
<1> QED
  BY <1>2, <1>4, <1>5, <1>6 DEF ListCommit

LEMMA ListOpsKept ==
    ASSUME ContInv, cKind = "list", ListOps
    PROVE  ContInv'
<1>1. cItems \in Seq(Elem) /\ Len(cItems) \in Nat /\ DOMAIN cItems = 1 .. Len(cItems)
  BY DEF ContInv, VectorOK, ItemOf
<1>2. ASSUME NEW v \in Seq(Elem), Does(v) PROVE ContInv'
  <2>1. VectorOK(cKind, v)
    BY DEF VectorOK, ItemOf
  <2> QED
    BY <1>2, <2>1, DoesKept
<1>3. ASSUME NEW xs \in One PROVE xs \in Seq(Elem)
  BY OneIs
<1>4. ASSUME NEW i \in -1 .. Len(cItems), ListGet(i) PROVE ContInv'
  BY <1>1, <1>2, <1>4, ThrowsKept DEF ListGet
<1>5. ASSUME NEW i \in -1 .. Len(cItems), ListRemoveAt(i) PROVE ContInv'
  <2>1. CASE InBounds(i)
    <3>1. i + 1 \in DOMAIN cItems
      BY <1>1, <2>1 DEF InBounds
    <3>2. RemoveAt(cItems, i + 1) \in Seq(Elem)
      BY <1>1, <3>1, VectorOps
    <3> QED
      BY <1>2, <1>5, <2>1, <3>2 DEF ListRemoveAt
  <2> QED
    BY <1>5, <2>1, ThrowsKept DEF ListRemoveAt
<1>6. ASSUME NEW i \in -1 .. Len(cItems), NEW x \in Elem, ListSet(i, x) PROVE ContInv'
  <2>1. CASE InBounds(i)
    <3>1. i + 1 \in DOMAIN cItems
      BY <1>1, <2>1 DEF InBounds
    <3>2. [cItems EXCEPT ![i + 1] = x] \in Seq(Elem)
      BY <1>1, <3>1, VectorOps
    <3> QED
      BY <1>2, <1>6, <2>1, <3>2 DEF ListSet
  <2> QED
    BY <1>6, <2>1, ThrowsKept DEF ListSet
<1>7. ASSUME NEW i \in -1 .. Len(cItems), NEW x \in Elem, ListAddAt(i, x) PROVE ContInv'
  <2>1. CASE i \in 0 .. Len(cItems)
    <3>1. i + 1 \in 1 .. Len(cItems) + 1
      BY <1>1, <2>1
    <3>2. InsertAt(cItems, i + 1, x) \in Seq(Elem)
      BY <1>1, <3>1, VectorOps
    <3> QED
      BY <1>2, <1>7, <2>1, <3>2 DEF ListAddAt
  <2> QED
    BY <1>7, <2>1, ThrowsKept DEF ListAddAt
<1>8. ASSUME NEW x \in Elem, ListAdd(x) PROVE ContInv'
  BY <1>1, <1>2, <1>8, VectorOps DEF ListAdd
<1>9. ASSUME NEW x \in Elem, ContBegin("remove", x) PROVE ContInv'
  BY <1>9, ContBeginKept
<1>10. ASSUME NEW xs \in One, ListAddAll(xs) PROVE ContInv'
  BY <1>1, <1>2, <1>3, <1>10, VectorOps DEF ListAddAll
<1>11. ASSUME NEW xs \in One, ListAddAllAt(xs) PROVE ContInv'
  BY <1>11, ThrowsKept DEF ListAddAllAt
<1>12. ASSUME NEW xs \in One, ContBegin("removeAll", xs) \/ ContBegin("retainAll", xs) PROVE ContInv'
  BY <1>3, <1>12, ContBeginKept
<1>13. CASE ContBegin("sort", NullRef)
  BY <1>13, ContBeginKept
<1>14. CASE CollectionsReverse
  BY <1>1, <1>2, <1>14, VectorOps DEF CollectionsReverse
<1>15. CASE Clear
  BY <1>15, ClearKept
<1>16. ASSUME NEW i \in 0 .. Len(cItems), IterNew(i) PROVE ContInv'
  BY <1>16, IterNewKept
<1>17. CASE cCalls # <<>> /\ ListCommit
  BY <1>17, ListCommitKept
<1> QED
  BY <1>4, <1>5, <1>6, <1>7, <1>8, <1>9, <1>10, <1>11, <1>12, <1>13, <1>14, <1>15, <1>16, <1>17
     DEF ListOps

LEMMA SetOpsKept ==
    ASSUME ContInv, cKind = "set", SetOps
    PROVE  ContInv'
<1>1. cItems \in Seq(Elem) /\ Len(cItems) \in Nat
  BY DEF ContInv, VectorOK, ItemOf
<1>2. ASSUME NEW v \in Seq(Elem) PROVE VectorOK(cKind, v)
  BY DEF VectorOK, ItemOf
<1>3. ASSUME NEW x \in Elem, ContBegin("add", x) \/ ContBegin("remove", x) PROVE ContInv'
  BY <1>3, ContBeginKept
<1>4. ASSUME NEW xs \in One, ContBegin("addAll", xs) PROVE ContInv'
  BY <1>4, OneIs, ContBeginKept
<1>5. ASSUME NEW xs \in One, CollectionsAddAll(xs) PROVE ContInv'
  <2>1. cItems \o xs \in Seq(Elem)
    BY <1>1, OneIs, VectorOps
  <2> QED
    BY <1>2, <1>5, <2>1, DoesKept DEF CollectionsAddAll
<1>6. CASE IterNew(0)
  <2>1. 0 \in 0 .. Len(cItems)
    BY <1>1
  <2> QED
    BY <1>6, <2>1, IterNewKept
<1>7. CASE cCalls # <<>> /\ SetCommit
  <2>1. /\ Snap \in Seq(Elem)
        /\ Call.op = "add" => Arg \in Elem
        /\ Call.op = "addAll" => Arg \in Seq(Elem)
    BY <1>7, PopCall DEF ContInv, CallOK, VectorOK, ItemOf, Snap, Arg
  <2>2. CASE Ends("ok")
    BY <1>7, <2>2, EndsKept
  <2>3. CASE Call.op = "add" /\ Stores(Append(cItems, Arg))
    <3>1. Append(cItems, Arg) \in Seq(Elem)
      BY <1>1, <2>1, <2>3, VectorOps
    <3> QED
      BY <1>2, <1>7, <2>3, <3>1, StoresKept
  <2>4. CASE RemoveFound(Arg)
    BY <1>7, <2>4, RemoveFoundKept
  <2>5. CASE Call.op = "addAll" /\ Stores(SetAddAll(Snap, Arg))
    <3>1. SetAddAll(Snap, Arg) \in Seq(Elem)
      BY <2>1, <2>5, SetAddAllIs
    <3> QED
      BY <1>2, <1>7, <2>5, <3>1, StoresKept
  <2> QED
    BY <1>7, <2>2, <2>3, <2>4, <2>5 DEF SetCommit
<1> QED
  BY <1>3, <1>4, <1>5, <1>6, <1>7, ClearKept DEF SetOps

\* An entry writes a value and no key.
LEMMA EntrySetValueKept ==
    ASSUME ContInv, NEW v \in Elem, EntrySetValue(v)
    PROVE  ContInv'
<1> DEFINE n == cEntry.idx
           w == [cItems EXCEPT ![n][2] = v]
<1>1. cKind = "map" /\ n \in DOMAIN cItems /\ cItems \in Seq(Pair) /\ DistinctKeys(cItems)
  BY DEF ContInv, EntryOK, VectorOK, ItemOf, EntrySetValue
<1>2. Does(w)
  BY <1>1 DEF EntrySetValue
<1> HIDE DEF n
<1>3. cItems[n] \in Elem \X Elem
  BY <1>1 DEF Pair
<1> DEFINE p == [cItems[n] EXCEPT ![2] = v]
<1>4. p \in Pair /\ p[1] = cItems[n][1]
  BY <1>3 DEF Pair
<1>5. w = [cItems EXCEPT ![n] = p]
  OBVIOUS
<1> HIDE DEF p, w
<1>6. w \in Seq(Pair) /\ DOMAIN w = DOMAIN cItems /\ \A i \in DOMAIN cItems : w[i][1] = cItems[i][1]
  BY <1>1, <1>4, <1>5
<1>7. VectorOK(cKind, w)
  BY <1>1, <1>6 DEF VectorOK, ItemOf, DistinctKeys
<1> QED
  BY <1>2, <1>7, DoesKept

LEMMA EntryNewKept ==
    ASSUME ContInv, cKind = "map", NEW i, EntryNew(i)
    PROVE  ContInv'
<1> DEFINE e == [idx |-> i, key |-> cItems[i][1]]
<1>1. cEntry' = e /\ i \in DOMAIN cItems /\ UNCHANGED <<cKind, cItems, cCalls, cIter>>
  BY DEF EntryNew
<1>2. e.idx = i /\ e.key = cItems[i][1]
  OBVIOUS
<1> HIDE DEF e
<1>3. EntryOK(cKind, cItems, e)
  BY <1>1, <1>2 DEF EntryOK
<1> QED
  BY <1>1, <1>3 DEF ContInv

\* Every map operation stores what it made of its copy, which had one pair
\* per key.
LEMMA MapCommitKept ==
    ASSUME ContInv, cKind = "map", cCalls # <<>>, MapCommit
    PROVE  ContInv'
<1>1. /\ Snap \in Maps
      /\ Call.op \in {"put", "putIfAbsent"} => Arg \in Pair
      /\ Call.op = "putAll" => Arg \in Seq(Pair)
  BY PopCall DEF ContInv, CallOK, VectorOK, ItemOf, Snap, Arg, Maps
<1>2. ASSUME NEW v \in Maps, Stores(v) PROVE ContInv'
  <2>1. VectorOK(cKind, v)
    BY DEF VectorOK, ItemOf, Maps
  <2> QED
    BY <1>2, <2>1, StoresKept
<1>3. CASE Call.op = "put" /\ Stores(MapPut(Snap, Arg[1], Arg[2]))
  <2>1. Arg[1] \in Elem /\ Arg[2] \in Elem
    BY <1>1, <1>3 DEF Pair
  <2>2. MapPut(Snap, Arg[1], Arg[2]) \in Maps
    BY <1>1, <2>1, MapPutIs
  <2> QED
    BY <1>2, <1>3, <2>2
<1>4. CASE Call.op = "putIfAbsent" /\ MapFind(Snap, Arg[1]) = 0 /\ Stores(Append(Snap, Arg))
  <2>1. Snap \in Seq(Pair)
    BY <1>1 DEF Maps
  <2>2. \A i \in DOMAIN Snap : Snap[i][1] # Arg[1]
    <3> DEFINE m == Snap
               k == Arg[1]
    <3>1. m \in Seq(Pair) /\ MapFind(m, k) = 0
      BY <1>4, <2>1
    <3> HIDE DEF m, k
    <3>2. \A i \in DOMAIN m : m[i][1] # k
      BY <3>1, KeysIs, FirstAtIs DEF MapFind
    <3> QED
      BY <3>2 DEF m, k
  <2>3. Append(Snap, Arg) \in Maps
    BY <1>1, <1>4, <2>2, AppendPair
  <2> QED
    BY <1>2, <1>4, <2>3
<1>5. CASE Ends("ok")
  BY <1>5, EndsKept
<1>6. CASE Call.op = "putAll" /\ Stores(MapPutAll(Snap, Arg))
  <2>1. MapPutAll(Snap, Arg) \in Maps
    BY <1>1, <1>6, MapPutAllIs
  <2> QED
    BY <1>2, <1>6, <2>1
<1>7. CASE Stores(MapRemove(Snap, Arg[1], Arg[2]))
  <2>1. MapRemove(Snap, Arg[1], Arg[2]) \in Maps
    BY <1>1, MapRemoveIs
  <2> QED
    BY <1>2, <1>7, <2>1
<1> QED
  BY <1>3, <1>4, <1>5, <1>6, <1>7 DEF MapCommit

LEMMA MapOpsKept ==
    ASSUME ContInv, cKind = "map", MapOps
    PROVE  ContInv'
<1>1. ASSUME NEW k \in Elem, ContBegin("put", <<k, k>>) \/ ContBegin("putIfAbsent", <<k, k>>) PROVE ContInv'
  <2> DEFINE p == <<k, k>>
  <2>1. p \in Pair
    BY DEF Pair
  <2> HIDE DEF p
  <2>2. ContBegin("put", p) \/ ContBegin("putIfAbsent", p)
    BY <1>1 DEF p
  <2> QED
    BY <2>1, <2>2, ContBeginKept
<1>2. CASE ContBegin("putAll", Everything)
  BY <1>2, EverythingIs, ContBeginKept
<1>3. ASSUME NEW k \in Elem, ContBegin("remove", <<k, k>>) \/ ContBegin("remove", <<k, NullRef>>) PROVE ContInv'
  <2> DEFINE p == <<k, k>>
             q == <<k, NullRef>>
  <2>1. p \in Pair /\ q \in Elem \X {NullRef}
    BY DEF Pair
  <2> HIDE DEF p, q
  <2>2. ContBegin("remove", p) \/ ContBegin("remove", q)
    BY <1>3 DEF p, q
  <2> QED
    BY <2>1, <2>2, ContBeginKept
<1>4. CASE cCalls # <<>> /\ MapCommit
  BY <1>4, MapCommitKept
<1> QED
  BY <1>1, <1>2, <1>3, <1>4, ClearKept, EntryNewKept, EntrySetValueKept DEF MapOps

LEMMA DequeOpsKept ==
    ASSUME ContInv, cKind = "deque", DequeOps
    PROVE  ContInv'
<1>1. cItems \in Seq(Elem)
  BY DEF ContInv, VectorOK, ItemOf
<1>2. ASSUME NEW v \in Seq(Elem), Does(v) PROVE ContInv'
  <2>1. VectorOK(cKind, v)
    BY DEF VectorOK, ItemOf
  <2> QED
    BY <1>2, <2>1, DoesKept
<1>3. ASSUME NEW x \in Elem, DequeAddFirst(x) \/ DequeAddLast(x) PROVE ContInv'
  <2>1. <<x>> \o cItems \in Seq(Elem) /\ Append(cItems, x) \in Seq(Elem)
    BY <1>1, VectorOps
  <2> QED
    BY <1>2, <1>3, <2>1 DEF DequeAddFirst, DequeAddLast
<1>4. CASE DequeRemoveFirst \/ DequeRemoveLast
  <2>1. cItems # <<>> => Tail(cItems) \in Seq(Elem) /\ Front(cItems) \in Seq(Elem)
    BY <1>1, VectorOps
  <2> QED
    BY <1>2, <1>4, <2>1, ThrowsKept DEF DequeRemoveFirst, DequeRemoveLast
<1> QED
  BY <1>3, <1>4, ClearKept DEF DequeOps

\* next() returns the element after those returned so far.
LEMMA IterNextKept ==
    ASSUME ContInv, IterNext
    PROVE  ContInv'
<1> SUFFICES ASSUME cIter.idx < Len(cItems) PROVE ContInv'
  BY ThrowsKept DEF IterNext
<1> DEFINE S == ItemOf(cKind)
           q == cIter.seen
           n == cIter.idx
           x == cItems[n + 1]
           it == [cIter EXCEPT !.idx = n + 1, !.seen = Append(q, x)]
<1>1. cIter.on /\ cIter' = it /\ UNCHANGED <<cKind, cItems, cCalls, cEntry>>
  BY DEF IterNext
<1>2. /\ cItems \in Seq(S) /\ Len(cItems) \in Nat
      /\ cIter \in [on : BOOLEAN, idx : Nat, seen : Seq(S)]
      /\ q \in Seq(S) /\ n \in Nat /\ Len(q) = n /\ IsPrefix(q, cItems)
  BY <1>1 DEF ContInv, VectorOK, IterOK
<1>3. n + 1 \in 1 .. Len(cItems)
  BY <1>2
<1>4. x \in S
  BY <1>2, <1>3
<1>5. it.on = cIter.on /\ it.idx = n + 1 /\ it.seen = Append(q, x)
      /\ it \in [on : BOOLEAN, idx : Nat, seen : Seq(S)]
  <2> DEFINE t == Append(q, x)
             m == n + 1
  <2>1. t \in Seq(S) /\ m \in Nat
    <3> HIDE DEF S, n, q, x
    <3> QED
      BY <1>2, <1>4
  <2>2. it = [[cIter EXCEPT !.idx = m] EXCEPT !.seen = t]
    OBVIOUS
  <2> HIDE DEF S, t, m
  <2>3. it.on = cIter.on /\ it.idx = m /\ it.seen = t /\ it \in [on : BOOLEAN, idx : Nat, seen : Seq(S)]
    <3> HIDE DEF it
    <3> QED
      BY <1>2, <2>1, <2>2
  <2> QED
    BY <2>3 DEF t, m
<1> HIDE DEF it
<1>6. IsPrefix(Append(q, x), cItems)
  <2>1. Len(q) <= Len(cItems) /\ \A i \in 1 .. Len(q) : q[i] = cItems[i]
    <3> HIDE DEF S, q
    <3> QED
      BY <1>2, PrefixIs
  <2> DEFINE t == Append(q, x)
  <2>2. t \in Seq(S) /\ Len(t) = n + 1 /\ t[n + 1] = x /\ \A i \in 1 .. n : t[i] = q[i]
    <3> HIDE DEF S, n, q, x
    <3> QED
      BY <1>2, <1>4
  <2> HIDE DEF t
  <2>3. \A i \in 1 .. n + 1 : i \in 1 .. n \/ i = n + 1
    BY <1>2
  <2>4. Len(t) <= Len(cItems) /\ \A i \in 1 .. Len(t) : t[i] = cItems[i]
    BY <1>2, <1>3, <2>1, <2>2, <2>3
  <2>5. IsPrefix(t, cItems)
    <3> HIDE DEF S
    <3> QED
      BY <1>2, <2>2, <2>4, PrefixIs
  <2> QED
    BY <2>5 DEF t
<1>7. Len(Append(q, x)) = n + 1
  <2> HIDE DEF S, n, q, x
  <2> QED
    BY <1>2, <1>4
<1>8. IterOK(cKind, cItems, it)
  BY <1>5, <1>6, <1>7 DEF IterOK
<1> QED
  BY <1>1, <1>8 DEF ContInv

LEMMA ContStep == ContInv /\ [ContNext]_cVars => ContInv'
<1> SUFFICES ASSUME ContInv, [ContNext]_cVars PROVE ContInv'
  OBVIOUS
<1>1. CASE IterRemove
  BY <1>1, ThrowsKept DEF IterRemove
<1>2. CASE ComparatorThrows
  BY <1>2, EndsKept DEF ComparatorThrows
<1>3. CASE UNCHANGED cVars
  BY <1>3 DEF cVars, ContInv
<1> QED
  BY <1>1, <1>2, <1>3, ListOpsKept, SetOpsKept, MapOpsKept, DequeOpsKept, IterNextKept DEF ContNext

LEMMA ContStart == ContInit => ContInv
<1> SUFFICES ASSUME ContInit PROVE ContInv
  OBVIOUS
<1>1. /\ cKind \in {"list", "set", "map", "deque"}
      /\ cCalls = <<>> /\ cIter = NoIter /\ cEntry = NoEntry
  BY DEF ContInit
<1>2. VectorOK(cKind, <<>>)
  BY DEF VectorOK, DistinctKeys
<1>3. cItems = <<>> \/ (cKind # "map" /\ cItems \in Seq(Elem))
  <2>1. CASE cKind = "set"
    <3>1. cItems = <<>> \/ \E x \in Elem : cItems = <<x, x>>
      BY <2>1 DEF ContInit
    <3>2. \A x \in Elem : <<x, x>> \in Seq(Elem)
      OBVIOUS
    <3> QED
      BY <2>1, <3>1, <3>2, Zenon
  <2>2. CASE cKind = "list"
    <3>1. cItems = <<>> \/ cItems \in One
      BY <2>2 DEF ContInit
    <3> QED
      BY <2>2, <3>1, OneIs
  <2>3. CASE cKind \notin {"set", "list"}
    BY <2>3 DEF ContInit
  <2> QED
    BY <2>1, <2>2, <2>3
<1>4. VectorOK(cKind, cItems)
  BY <1>2, <1>3 DEF VectorOK, ItemOf
<1>5. CallsOK(cKind, cCalls)
  BY <1>1 DEF CallsOK
<1>6. IterOK(cKind, cItems, cIter) /\ EntryOK(cKind, cItems, cEntry)
  BY <1>1 DEF IterOK, EntryOK, NoIter
<1> QED
  BY <1>1, <1>4, <1>5, <1>6 DEF ContInv

(***************************************************************************)
(* A map keeps one entry per key however the operations its keys' equals    *)
(* and hashCode make nest, for any set of keys, any size and any depth of   *)
(* nesting (java/util/hashmap.rs).                                          *)
(***************************************************************************)
THEOREM OneEntryPerKey == ContSpec => []MapKeysDistinct
<1>1. ContInv => MapKeysDistinct
  BY KeysIs DEF ContInv, VectorOK, ItemOf, MapKeysDistinct
<1> QED
  BY <1>1, ContStart, ContStep, PTL DEF ContSpec

(***************************************************************************)
(* Iterators return a prefix of their container and entries keep their key  *)
(* while the container only grows at its end, for containers of any size.   *)
(***************************************************************************)
THEOREM PositionsKept == ContSpec => []PositionsStand
<1>1. ContInv => PositionsStand
  BY DEF ContInv, IterOK, EntryOK, EntryKey, PositionsStand
<1> QED
  BY <1>1, ContStart, ContStep, PTL DEF ContSpec

-----------------------------------------------------------------------------
(* Rx.  The loops of rx_materialize and of the reference run side by side:  *)
(* after each operator the evaluation has the items of the stream, or its   *)
(* error, or was left with an error no handler will see.                    *)

(* A sequence of anything. *)
IsSeq(s) == \E S : s \in Seq(S)

(* An error a guest throws is none of the names the model gives to ends. *)
RxErrorName(e) == e \notin {RxNone, Done, VmEnd}

(* A callback returns, throws an error or fails in the VM, and one that      *)
(* should return an Observable does.                                         *)
RxCallsReply ==
    /\ \A cb \in RxCallback \cup RxNestedCb : \A x :
         /\ RxCall(cb, x).k \in {"ok", "throw", "fatal"}
         /\ RxCall(cb, x).k = "throw" => RxErrorName(RxCall(cb, x).e)
    /\ \A cb \in RxNestedCb : \A x : RxCall(cb, x).k = "ok" =>
         /\ IsSeq(RxCall(cb, x).v.values)
         /\ RxCall(cb, x).v.error \notin {Done, VmEnd}

LEMMA SeqFacts ==
    /\ IsSeq(<<>>)
    /\ \A v : IsSeq(<<v>>)
    /\ \A s : IsSeq(s) => Len(s) \in Nat
    /\ \A s, t : IsSeq(s) /\ IsSeq(t) => IsSeq(s \o t)
  <1>1. IsSeq(<<>>)
    <2>1. <<>> \in Seq({})
      OBVIOUS
    <2> QED
      BY <2>1 DEF IsSeq
  <1>2. ASSUME NEW v PROVE IsSeq(<<v>>)
    <2>1. <<v>> \in Seq({v})
      OBVIOUS
    <2> QED
      BY <2>1 DEF IsSeq
  <1>3. ASSUME NEW s, IsSeq(s) PROVE Len(s) \in Nat
    BY <1>3 DEF IsSeq
  <1>4. ASSUME NEW s, NEW t, IsSeq(s), IsSeq(t) PROVE IsSeq(s \o t)
    <2>1. PICK S : s \in Seq(S)
      BY <1>4 DEF IsSeq
    <2>2. PICK T : t \in Seq(T)
      BY <1>4 DEF IsSeq
    <2>3. s \in Seq(S \cup T) /\ t \in Seq(S \cup T)
      BY <2>1, <2>2
    <2>4. s \o t \in Seq(S \cup T)
      BY <2>3
    <2> QED
      BY <2>4 DEF IsSeq
  <1> QED
    BY <1>1, <1>2, <1>3, <1>4

-----------------------------------------------------------------------------
(* The loops of the model, unfolded. *)

FeedLoop(g, n, items, cb, as, start) ==
    g = [i \in 0 .. n |->
           IF i = 0 THEN Eval(start, RxNone)
           ELSE FeedItem(g[i - 1], items[i], cb, as)]

LEMMA FeedUnfolds ==
    ASSUME NEW items, NEW cb, NEW as, NEW start, Len(items) \in Nat
    PROVE  \E g : /\ FeedLoop(g, Len(items), items, cb, as, start)
                  /\ Feed(items, cb, as, start) = g[Len(items)]
  <1> DEFINE n == Len(items)
             L(g, k) == FeedLoop(g, k, items, cb, as, start)
             T == {k \in 0 .. n : \E g : L(g, k)}
  <1>0. n \in Nat /\ 0 \in 0 .. n
    OBVIOUS
  <1>1. 0 \in T
    <2> DEFINE b == Eval(start, RxNone)
               h == [i \in 0 .. 0 |-> b]
    <2> HIDE DEF b
    <2>1. h = [i \in 0 .. 0 |-> IF i = 0 THEN b ELSE FeedItem(h[i - 1], items[i], cb, as)]
      OBVIOUS
    <2>2. L(h, 0)
      BY <2>1 DEF FeedLoop, b
    <2> QED
      BY <1>0, <2>2
  <1>2. ASSUME NEW k \in 1 .. n, k - 1 \in T PROVE k \in T
    <2>1. PICK g : L(g, k - 1)
      BY <1>2
    <2> DEFINE b == Eval(start, RxNone)
               x == FeedItem(g[k - 1], items[k], cb, as)
               h == [i \in 0 .. k |-> IF i = k THEN x ELSE g[i]]
    <2>2. g = [i \in 0 .. (k - 1) |-> IF i = 0 THEN b ELSE FeedItem(g[i - 1], items[i], cb, as)]
      BY <2>1 DEF FeedLoop
    <2> HIDE DEF b
    <2>3. ASSUME NEW i \in 0 .. k
          PROVE  h[i] = IF i = 0 THEN b ELSE FeedItem(h[i - 1], items[i], cb, as)
      <3> HIDE DEF x
      <3>1. i # 0 => i - 1 \in 0 .. (k - 1) /\ h[i - 1] = g[i - 1]
        OBVIOUS
      <3>2. h[k] = x /\ k # 0
        OBVIOUS
      <3>3. i # k => i \in 0 .. (k - 1) /\ h[i] = g[i]
        OBVIOUS
      <3>4. i # k => g[i] = IF i = 0 THEN b ELSE FeedItem(g[i - 1], items[i], cb, as)
        BY <2>2, <3>3
      <3> HIDE DEF h
      <3> QED
        BY <3>1, <3>2, <3>3, <3>4 DEF x
    <2>4. h = [i \in 0 .. k |-> IF i = 0 THEN b ELSE FeedItem(h[i - 1], items[i], cb, as)]
      BY <2>3
    <2>5. L(h, k)
      BY <2>4 DEF FeedLoop, b
    <2> QED
      BY <2>5
  <1>3. n \in T
    <2> HIDE DEF T, n
    <2>1. \A k \in 0 .. n : k \in T
      BY <1>0, <1>1, <1>2, IntervalInduction, Zenon
    <2> QED
      BY <1>0, <2>1
  <1>4. \E g : L(g, n)
    BY <1>3
  <1> QED
    BY <1>4 DEF Feed, FeedLoop

EachLoop(g, n, oper, items) ==
    g = [i \in 0 .. n |->
           IF i = 0 THEN Stream(<<>>, Done)
           ELSE Then(g[i - 1], RefItem(oper, items[i]))]

LEMMA EachUnfolds ==
    ASSUME NEW oper, NEW items, Len(items) \in Nat
    PROVE  \E g : /\ EachLoop(g, Len(items), oper, items)
                  /\ EachItem(oper, items) = g[Len(items)]
  <1> DEFINE n == Len(items)
             L(g, k) == EachLoop(g, k, oper, items)
             T == {k \in 0 .. n : \E g : L(g, k)}
  <1>0. n \in Nat /\ 0 \in 0 .. n
    OBVIOUS
  <1>1. 0 \in T
    <2> DEFINE b == Stream(<<>>, Done)
               h == [i \in 0 .. 0 |-> b]
    <2> HIDE DEF b
    <2>1. h = [i \in 0 .. 0 |-> IF i = 0 THEN b ELSE Then(h[i - 1], RefItem(oper, items[i]))]
      OBVIOUS
    <2>2. L(h, 0)
      BY <2>1 DEF EachLoop, b
    <2> QED
      BY <1>0, <2>2
  <1>2. ASSUME NEW k \in 1 .. n, k - 1 \in T PROVE k \in T
    <2>1. PICK g : L(g, k - 1)
      BY <1>2
    <2> DEFINE b == Stream(<<>>, Done)
               x == Then(g[k - 1], RefItem(oper, items[k]))
               h == [i \in 0 .. k |-> IF i = k THEN x ELSE g[i]]
    <2>2. g = [i \in 0 .. (k - 1) |-> IF i = 0 THEN b ELSE Then(g[i - 1], RefItem(oper, items[i]))]
      BY <2>1 DEF EachLoop
    <2> HIDE DEF b
    <2>3. ASSUME NEW i \in 0 .. k
          PROVE  h[i] = IF i = 0 THEN b ELSE Then(h[i - 1], RefItem(oper, items[i]))
      <3> HIDE DEF x
      <3>1. i # 0 => i - 1 \in 0 .. (k - 1) /\ h[i - 1] = g[i - 1]
        OBVIOUS
      <3>2. h[k] = x /\ k # 0
        OBVIOUS
      <3>3. i # k => i \in 0 .. (k - 1) /\ h[i] = g[i]
        OBVIOUS
      <3>4. i # k => g[i] = IF i = 0 THEN b ELSE Then(g[i - 1], RefItem(oper, items[i]))
        BY <2>2, <3>3
      <3> HIDE DEF h
      <3> QED
        BY <3>1, <3>2, <3>3, <3>4 DEF x
    <2>4. h = [i \in 0 .. k |-> IF i = 0 THEN b ELSE Then(h[i - 1], RefItem(oper, items[i]))]
      BY <2>3
    <2>5. L(h, k)
      BY <2>4 DEF EachLoop, b
    <2> QED
      BY <2>5
  <1>3. n \in T
    <2> HIDE DEF T, n
    <2>1. \A k \in 0 .. n : k \in T
      BY <1>0, <1>1, <1>2, IntervalInduction, Zenon
    <2> QED
      BY <1>0, <2>1
  <1>4. \E g : L(g, n)
    BY <1>3
  <1> QED
    BY <1>4 DEF EachItem, EachLoop

EvalLoop(g, n, o) ==
    g = [i \in 0 .. n |->
           IF i = 0 THEN RxCalled(o)
           ELSE RxStep(o.ops[i], g[i - 1])]

LEMMA EvalUnfolds ==
    ASSUME NEW o, Len(o.ops) \in Nat
    PROVE  EvalLoop(RxEvaluated(o), Len(o.ops), o)
  <1> DEFINE n == Len(o.ops)
             L(g, k) == EvalLoop(g, k, o)
             T == {k \in 0 .. n : \E g : L(g, k)}
  <1>0. n \in Nat /\ 0 \in 0 .. n
    OBVIOUS
  <1>1. 0 \in T
    <2> DEFINE b == RxCalled(o)
               h == [i \in 0 .. 0 |-> b]
    <2> HIDE DEF b
    <2>1. h = [i \in 0 .. 0 |-> IF i = 0 THEN b ELSE RxStep(o.ops[i], h[i - 1])]
      OBVIOUS
    <2>2. L(h, 0)
      BY <2>1 DEF EvalLoop, b
    <2> QED
      BY <1>0, <2>2
  <1>2. ASSUME NEW k \in 1 .. n, k - 1 \in T PROVE k \in T
    <2>1. PICK g : L(g, k - 1)
      BY <1>2
    <2> DEFINE b == RxCalled(o)
               x == RxStep(o.ops[k], g[k - 1])
               h == [i \in 0 .. k |-> IF i = k THEN x ELSE g[i]]
    <2>2. g = [i \in 0 .. (k - 1) |-> IF i = 0 THEN b ELSE RxStep(o.ops[i], g[i - 1])]
      BY <2>1 DEF EvalLoop
    <2> HIDE DEF b
    <2>3. ASSUME NEW i \in 0 .. k
          PROVE  h[i] = IF i = 0 THEN b ELSE RxStep(o.ops[i], h[i - 1])
      <3> HIDE DEF x
      <3>1. i # 0 => i - 1 \in 0 .. (k - 1) /\ h[i - 1] = g[i - 1]
        OBVIOUS
      <3>2. h[k] = x /\ k # 0
        OBVIOUS
      <3>3. i # k => i \in 0 .. (k - 1) /\ h[i] = g[i]
        OBVIOUS
      <3>4. i # k => g[i] = IF i = 0 THEN b ELSE RxStep(o.ops[i], g[i - 1])
        BY <2>2, <3>3
      <3> HIDE DEF h
      <3> QED
        BY <3>1, <3>2, <3>3, <3>4 DEF x
    <2>4. h = [i \in 0 .. k |-> IF i = 0 THEN b ELSE RxStep(o.ops[i], h[i - 1])]
      BY <2>3
    <2>5. L(h, k)
      BY <2>4 DEF EvalLoop, b
    <2> QED
      BY <2>5
  <1>3. n \in T
    <2> HIDE DEF T, n
    <2>1. \A k \in 0 .. n : k \in T
      BY <1>0, <1>1, <1>2, IntervalInduction, Zenon
    <2> QED
      BY <1>0, <2>1
  <1>4. \E g : L(g, n)
    BY <1>3
  <1> QED
    BY <1>4 DEF RxEvaluated, EvalLoop

RefLoop(g, n, o) ==
    g = [i \in 0 .. n |->
           IF i = 0 THEN RefStart(o)
           ELSE RefStep(o.ops[i], g[i - 1])]

LEMMA RefUnfolds ==
    ASSUME NEW o, Len(o.ops) \in Nat
    PROVE  RefLoop(RefStreams(o), Len(o.ops), o)
  <1> DEFINE n == Len(o.ops)
             L(g, k) == RefLoop(g, k, o)
             T == {k \in 0 .. n : \E g : L(g, k)}
  <1>0. n \in Nat /\ 0 \in 0 .. n
    OBVIOUS
  <1>1. 0 \in T
    <2> DEFINE b == RefStart(o)
               h == [i \in 0 .. 0 |-> b]
    <2> HIDE DEF b
    <2>1. h = [i \in 0 .. 0 |-> IF i = 0 THEN b ELSE RefStep(o.ops[i], h[i - 1])]
      OBVIOUS
    <2>2. L(h, 0)
      BY <2>1 DEF RefLoop, b
    <2> QED
      BY <1>0, <2>2
  <1>2. ASSUME NEW k \in 1 .. n, k - 1 \in T PROVE k \in T
    <2>1. PICK g : L(g, k - 1)
      BY <1>2
    <2> DEFINE b == RefStart(o)
               x == RefStep(o.ops[k], g[k - 1])
               h == [i \in 0 .. k |-> IF i = k THEN x ELSE g[i]]
    <2>2. g = [i \in 0 .. (k - 1) |-> IF i = 0 THEN b ELSE RefStep(o.ops[i], g[i - 1])]
      BY <2>1 DEF RefLoop
    <2> HIDE DEF b
    <2>3. ASSUME NEW i \in 0 .. k
          PROVE  h[i] = IF i = 0 THEN b ELSE RefStep(o.ops[i], h[i - 1])
      <3> HIDE DEF x
      <3>1. i # 0 => i - 1 \in 0 .. (k - 1) /\ h[i - 1] = g[i - 1]
        OBVIOUS
      <3>2. h[k] = x /\ k # 0
        OBVIOUS
      <3>3. i # k => i \in 0 .. (k - 1) /\ h[i] = g[i]
        OBVIOUS
      <3>4. i # k => g[i] = IF i = 0 THEN b ELSE RefStep(o.ops[i], g[i - 1])
        BY <2>2, <3>3
      <3> HIDE DEF h
      <3> QED
        BY <3>1, <3>2, <3>3, <3>4 DEF x
    <2>4. h = [i \in 0 .. k |-> IF i = 0 THEN b ELSE RefStep(o.ops[i], h[i - 1])]
      BY <2>3
    <2>5. L(h, k)
      BY <2>4 DEF RefLoop, b
    <2> QED
      BY <2>5
  <1>3. n \in T
    <2> HIDE DEF T, n
    <2>1. \A k \in 0 .. n : k \in T
      BY <1>0, <1>1, <1>2, IntervalInduction, Zenon
    <2> QED
      BY <1>0, <2>1
  <1>4. \E g : L(g, n)
    BY <1>3
  <1> QED
    BY <1>4 DEF RefStreams, RefLoop

-----------------------------------------------------------------------------
(* An evaluation is a record of these four fields. *)
IsEval(st) ==
    st \in [values : {st.values}, error : {st.error}, left : BOOLEAN, vm : BOOLEAN]

LEMMA ErrsFields ==
    ASSUME NEW st, IsEval(st), NEW e
    PROVE  /\ IsEval(Errs(st, e))
           /\ Errs(st, e).values = st.values /\ Errs(st, e).error = e
           /\ Errs(st, e).left = st.left /\ Errs(st, e).vm = st.vm
  BY DEF IsEval, Errs

LEMMA BrokenFields ==
    ASSUME NEW st, IsEval(st)
    PROVE  IsEval(Broken(st)) /\ Broken(st).vm = TRUE
  BY DEF IsEval, Broken

Leaving(st) == [st EXCEPT !.left = TRUE]

LEMMA LeavingFields ==
    ASSUME NEW st, IsEval(st)
    PROVE  IsEval(Leaving(st)) /\ Leaving(st).left = TRUE /\ Leaving(st).error = st.error
  BY DEF IsEval, Leaving

Growing(st, vs) == [st EXCEPT !.values = @ \o vs]

LEMMA GrowingFields ==
    ASSUME NEW st, IsEval(st), NEW vs
    PROVE  /\ IsEval(Growing(st, vs))
           /\ Growing(st, vs).values = st.values \o vs
           /\ Growing(st, vs).error = st.error
           /\ Growing(st, vs).left = st.left
           /\ Growing(st, vs).vm = st.vm
  <1>1. /\ Growing(st, vs).values = st.values \o vs
        /\ Growing(st, vs).error = st.error
        /\ Growing(st, vs).left = st.left
        /\ Growing(st, vs).vm = st.vm
    BY DEF IsEval, Growing
  <1> DEFINE w == st.values \o vs
  <1>2. Growing(st, vs) \in [values : {w}, error : {st.error}, left : BOOLEAN, vm : BOOLEAN]
    <2>1. w \in {w} /\ Growing(st, vs) = [st EXCEPT !.values = w]
      BY DEF Growing
    <2> HIDE DEF w
    <2> QED
      BY <2>1 DEF IsEval
  <1> QED
    BY <1>1, <1>2 DEF IsEval

Starts(st, vs, e) ==
    /\ IsEval(st) /\ st.values = vs /\ st.error = e
    /\ st.left = FALSE /\ st.vm = FALSE

LEMMA EvalStarts ==
    ASSUME NEW vs, NEW e
    PROVE  Starts(Eval(vs, e), vs, e)
  BY DEF Starts, Eval, IsEval

(* An evaluation that goes on has the items of the stream, or its error. *)
Agrees(st, s) ==
    /\ st.left = FALSE /\ st.vm = FALSE
    /\ st.error = RxNone => s.end = Done /\ s.items = st.values /\ IsSeq(st.values)
    /\ st.error # RxNone => s.end = st.error /\ RxErrorName(st.error)

(* Unless it was left: with an error, or because the VM failed. *)
Tracks(st, s) ==
    /\ IsEval(st)
    /\ \/ st.vm = TRUE
       \/ st.left = TRUE /\ st.error # RxNone
       \/ Agrees(st, s)

(* In the loop over the items nothing is left. *)
Feeds(acc, t) == IsEval(acc) /\ (acc.vm = TRUE \/ Agrees(acc, t))

LEMMA StreamFields ==
    ASSUME NEW vs, NEW e
    PROVE  Stream(vs, e).items = vs /\ Stream(vs, e).end = e
  BY DEF Stream

(* What the callback of an operator returns, and how it is used. *)
YieldsAs(oper, as) ==
    \/ oper.k = "map" /\ as = "item" /\ oper.cb \in RxCallback
    \/ oper.k = "flatMap" /\ as = "observable" /\ oper.cb \in RxNestedCb

(* What a callback made of an item, as items and as a stream. *)
LEMMA FeedItemAgrees ==
    ASSUME NEW acc, NEW t, NEW oper, NEW v, NEW as, RxCallsReply, Feeds(acc, t),
           YieldsAs(oper, as)
    PROVE  Feeds(FeedItem(acc, v, oper.cb, as), Then(t, RefItem(oper, v)))
  <1> DEFINE r == RxCall(oper.cb, v)
             new == FeedItem(acc, v, oper.cb, as)
             u == RefItem(oper, v)
             s == Then(t, u)
  <1>1. /\ r.k \in {"ok", "throw", "fatal"}
        /\ r.k = "throw" => RxErrorName(r.e)
        /\ r.k = "ok" /\ as = "observable" => IsSeq(r.v.values) /\ r.v.error \notin {Done, VmEnd}
    BY DEF RxCallsReply, YieldsAs
  <1>2. u = IF r.k = "ok" THEN (IF as = "item" THEN Emits(r.v) ELSE OfNested(r.v))
            ELSE Stream(<<>>, EndOf(r))
    BY DEF RefItem, Replied, YieldsAs
  <1> DEFINE y == Yielded(as, r.v)
  <1>3. /\ IsEval(acc)
        /\ y = IF as = "item" THEN Eval(<<r.v>>, RxNone) ELSE Eval(r.v.values, r.v.error)
    BY DEF Feeds, Yielded, YieldsAs
  <1>4. CASE acc.vm = TRUE
    <2>1. new = acc
      BY <1>4 DEF FeedItem
    <2> QED
      BY <1>4, <1>3, <2>1 DEF Feeds
  <1>5. CASE acc.vm = FALSE /\ acc.error # RxNone
    <2>1. new = acc
      BY <1>5 DEF FeedItem
    <2>2. Agrees(acc, t) /\ t.end # Done
      BY <1>5 DEF Feeds, Agrees, RxErrorName
    <2>3. s = t
      BY <2>2 DEF Then
    <2> QED
      BY <1>3, <2>1, <2>2, <2>3 DEF Feeds
  <1>6. CASE acc.vm = FALSE /\ acc.error = RxNone
    <2>1. acc.left = FALSE /\ t.end = Done /\ t.items = acc.values /\ IsSeq(acc.values)
      BY <1>6 DEF Feeds, Agrees
    <2>2. s = Stream(t.items \o u.items, u.end)
      BY <2>1 DEF Then
    <2>3. s.items = t.items \o u.items /\ s.end = u.end
      <3> HIDE DEF s, u
      <3> QED
        BY <2>2 DEF Stream
    <2>4. CASE r.k = "fatal"
      <3>1. new = Broken(acc)
        BY <1>6, <2>4 DEF FeedItem
      <3> HIDE DEF new
      <3>2. IsEval(new) /\ new.vm = TRUE
        BY <1>3, <3>1, BrokenFields
      <3> QED
        BY <3>2 DEF Feeds, new
    <2>5. CASE r.k = "throw"
      <3>1. new = Errs(acc, r.e)
        BY <1>6, <2>5 DEF FeedItem
      <3>2. u.end = r.e
        BY <1>2, <2>5, StreamFields DEF EndOf
      <3> HIDE DEF r, new, u, s
      <3>3. IsEval(new) /\ new.error = r.e /\ new.left = FALSE /\ new.vm = FALSE
        BY <1>3, <1>6, <2>1, <3>1, ErrsFields
      <3>4. Agrees(new, s)
        BY <1>1, <2>5, <2>3, <3>2, <3>3 DEF Agrees, RxErrorName
      <3> QED
        BY <3>3, <3>4 DEF Feeds, new, s, u
    <2>6. CASE r.k = "ok"
      <3>1. new = IF y.vm THEN Broken(acc) ELSE IF y.error # RxNone THEN Errs(acc, y.error)
                  ELSE Growing(acc, y.values)
        BY <1>6, <2>6 DEF FeedItem, Growing
      <3> HIDE DEF r, new, u, s, y
      <3>2. /\ u.items = y.values /\ y.vm = FALSE
            /\ u.end = (IF y.error = RxNone THEN Done ELSE y.error)
        <4>1. CASE as = "item"
          BY <1>2, <1>3, <2>6, <4>1 DEF Emits, Stream, Eval
        <4>2. CASE as = "observable"
          <5>1. u = OfNested(r.v) /\ y = Eval(r.v.values, r.v.error)
            BY <1>2, <1>3, <2>6, <4>2
          <5> QED
            BY <5>1 DEF OfNested, Stream, Eval
        <4> QED
          BY <4>1, <4>2 DEF YieldsAs
      <3>3. IsSeq(y.values) /\ (y.error # RxNone => RxErrorName(y.error))
        <4>1. CASE as = "item"
          <5>1. y.values = <<r.v>> /\ y.error = RxNone
            BY <1>3, <4>1 DEF Eval
          <5> QED
            BY <5>1, SeqFacts
        <4>2. CASE as = "observable"
          <5>1. y.values = r.v.values /\ y.error = r.v.error
            BY <1>3, <4>2 DEF Eval
          <5> QED
            BY <1>1, <2>6, <4>2, <5>1 DEF RxErrorName
        <4> QED
          BY <4>1, <4>2 DEF YieldsAs
      <3>4. CASE y.error # RxNone
        <4>0. new = Errs(acc, y.error)
          BY <3>1, <3>2, <3>4
        <4>1. IsEval(new) /\ new.error = y.error /\ new.left = FALSE /\ new.vm = FALSE
          <5>1. /\ IsEval(Errs(acc, y.error)) /\ Errs(acc, y.error).error = y.error
                /\ Errs(acc, y.error).left = acc.left /\ Errs(acc, y.error).vm = acc.vm
            BY <1>3, ErrsFields, Zenon
          <5> QED
            BY <1>6, <2>1, <4>0, <5>1
        <4>2. Agrees(new, s)
          BY <2>3, <3>2, <3>3, <3>4, <4>1 DEF Agrees
        <4> QED
          BY <4>1, <4>2 DEF Feeds, new, s, u
      <3>5. CASE y.error = RxNone
        <4>1. new = Growing(acc, y.values)
          BY <3>1, <3>2, <3>5
        <4>2. IsEval(new) /\ new.error = RxNone /\ new.left = FALSE /\ new.vm = FALSE
              /\ new.values = acc.values \o y.values
          <5>1. /\ IsEval(Growing(acc, y.values))
                /\ Growing(acc, y.values).values = acc.values \o y.values
                /\ Growing(acc, y.values).error = acc.error
                /\ Growing(acc, y.values).left = acc.left
                /\ Growing(acc, y.values).vm = acc.vm
            BY <1>3, GrowingFields, Zenon
          <5> QED
            BY <1>6, <2>1, <4>1, <5>1
        <4>3. IsSeq(new.values)
          BY <2>1, <3>3, <4>2, SeqFacts
        <4>4. Agrees(new, s)
          BY <2>1, <2>3, <3>2, <3>5, <4>2, <4>3 DEF Agrees
        <4> QED
          BY <4>2, <4>4 DEF Feeds, new, s, u
      <3> QED
        BY <3>4, <3>5
    <2> QED
      BY <1>1, <2>4, <2>5, <2>6
  <1> QED
    BY <1>3, <1>4, <1>5, <1>6 DEF Feeds, Agrees

(* doOnNext keeps the items it starts with, while the stream emits them one *)
(* by one.                                                                 *)
NextAgrees(acc, t, items, i) ==
    /\ IsEval(acc)
    /\ \/ acc.vm = TRUE
       \/ /\ acc.left = FALSE /\ acc.vm = FALSE
          /\ acc.error = RxNone =>
                t.end = Done /\ t.items = SubSeq(items, 1, i) /\ acc.values = items
          /\ acc.error # RxNone => t.end = acc.error /\ RxErrorName(acc.error)

LEMMA PrefixGrows ==
    ASSUME NEW items, IsSeq(items), NEW i \in 1 .. Len(items)
    PROVE  SubSeq(items, 1, i - 1) \o <<items[i]>> = SubSeq(items, 1, i)
  <1>1. PICK S : items \in Seq(S)
    BY DEF IsSeq
  <1> QED
    BY <1>1

LEMMA NextItemAgrees ==
    ASSUME NEW acc, NEW t, NEW oper, NEW items, NEW i \in 1 .. Len(items), RxCallsReply,
           IsSeq(items), NextAgrees(acc, t, items, i - 1),
           oper.k = "doOnNext", oper.cb \in RxCallback
    PROVE  NextAgrees(FeedItem(acc, items[i], oper.cb, "nothing"),
                      Then(t, RefItem(oper, items[i])), items, i)
  <1> DEFINE v == items[i]
             r == RxCall(oper.cb, v)
             new == FeedItem(acc, v, oper.cb, "nothing")
             u == RefItem(oper, v)
             s == Then(t, u)
             y == Yielded("nothing", r.v)
  <1>1. r.k \in {"ok", "throw", "fatal"} /\ (r.k = "throw" => RxErrorName(r.e))
    BY DEF RxCallsReply
  <1>2. u = IF r.k = "ok" THEN Emits(v) ELSE Stream(<<>>, EndOf(r))
    BY DEF RefItem, Replied
  <1>3. IsEval(acc) /\ y = Eval(<<>>, RxNone)
    BY DEF NextAgrees, Yielded
  <1>4. CASE acc.vm = TRUE
    <2>1. new = acc
      BY <1>4 DEF FeedItem
    <2> QED
      BY <1>4, <1>3, <2>1 DEF NextAgrees
  <1>5. CASE acc.vm = FALSE /\ acc.error # RxNone
    <2>1. new = acc
      BY <1>5 DEF FeedItem
    <2>2. t.end = acc.error /\ RxErrorName(acc.error) /\ acc.left = FALSE
      BY <1>5 DEF NextAgrees
    <2>3. s = t
      BY <2>2 DEF Then, RxErrorName
    <2> HIDE DEF s, new
    <2> QED
      BY <1>3, <1>5, <2>1, <2>2, <2>3 DEF NextAgrees, s, new
  <1>6. CASE acc.vm = FALSE /\ acc.error = RxNone
    <2>1. acc.left = FALSE /\ t.end = Done /\ t.items = SubSeq(items, 1, i - 1) /\ acc.values = items
      BY <1>6 DEF NextAgrees
    <2>2. s = Stream(t.items \o u.items, u.end)
      BY <2>1 DEF Then
    <2>3. s.items = t.items \o u.items /\ s.end = u.end
      <3> HIDE DEF s, u
      <3> QED
        BY <2>2 DEF Stream
    <2>4. CASE r.k = "fatal"
      <3>1. new = Broken(acc)
        BY <1>6, <2>4 DEF FeedItem
      <3> HIDE DEF new
      <3>2. IsEval(new) /\ new.vm = TRUE
        BY <1>3, <3>1, BrokenFields
      <3> QED
        BY <3>2 DEF NextAgrees, new
    <2>5. CASE r.k = "throw"
      <3>1. new = Errs(acc, r.e)
        BY <1>6, <2>5 DEF FeedItem
      <3>2. u.end = r.e
        BY <1>2, <2>5, StreamFields DEF EndOf
      <3> HIDE DEF r, new, u, s
      <3>3. IsEval(new) /\ new.error = r.e /\ new.left = FALSE /\ new.vm = FALSE
        BY <1>3, <1>6, <2>1, <3>1, ErrsFields
      <3> QED
        BY <1>1, <2>3, <2>5, <3>2, <3>3 DEF NextAgrees, RxErrorName, new, s, u
    <2>6. CASE r.k = "ok"
      <3>1. new = IF y.vm THEN Broken(acc) ELSE IF y.error # RxNone THEN Errs(acc, y.error)
                  ELSE Growing(acc, y.values)
        BY <1>6, <2>6 DEF FeedItem, Growing
      <3>2. u.items = <<v>> /\ u.end = Done
        BY <1>2, <2>6 DEF Emits, Stream
      <3> HIDE DEF r, new, u, s, y
      <3>3. new = Growing(acc, <<>>)
        BY <1>3, <3>1 DEF Eval
      <3>4. /\ IsEval(Growing(acc, <<>>))
            /\ Growing(acc, <<>>).values = acc.values \o <<>>
            /\ Growing(acc, <<>>).error = acc.error
            /\ Growing(acc, <<>>).left = acc.left
            /\ Growing(acc, <<>>).vm = acc.vm
        BY <1>3, GrowingFields, Zenon
      <3>5. items \o <<>> = items
        BY DEF IsSeq
      <3>6. s.items = SubSeq(items, 1, i) /\ s.end = Done
        BY <2>1, <2>3, <3>2, PrefixGrows
      <3>7. IsEval(new) /\ new.values = items /\ new.error = RxNone /\ new.left = FALSE /\ new.vm = FALSE
        BY <1>6, <2>1, <3>3, <3>4, <3>5
      <3> QED
        BY <3>6, <3>7 DEF NextAgrees, new, s, u
    <2> QED
      BY <1>1, <2>4, <2>5, <2>6
  <1> QED
    BY <1>3, <1>4, <1>5, <1>6 DEF NextAgrees

LEMMA FeedAgrees ==
    ASSUME NEW items, NEW oper, NEW as, RxCallsReply, IsSeq(items),
           YieldsAs(oper, as)
    PROVE  Feeds(Feed(items, oper.cb, as, <<>>), EachItem(oper, items))
  <1> DEFINE n == Len(items)
             cb == oper.cb
  <1>1. n \in Nat /\ n \in 0 .. n /\ 0 \in 0 .. n
    BY SeqFacts
  <1>2. PICK g : FeedLoop(g, n, items, cb, as, <<>>) /\ Feed(items, cb, as, <<>>) = g[n]
    <2>1. Len(items) \in Nat
      BY <1>1
    <2> QED
      <3>1. \A e : \E g : FeedLoop(g, n, items, cb, as, e) /\ Feed(items, cb, as, e) = g[n]
        BY <2>1, FeedUnfolds
      <3> QED
        BY <3>1, Zenon
  <1>3. PICK h : EachLoop(h, n, oper, items) /\ EachItem(oper, items) = h[n]
    BY <1>1, EachUnfolds
  <1>4. g[0] = Eval(<<>>, RxNone) /\ h[0] = Stream(<<>>, Done)
    BY <1>1, <1>2, <1>3 DEF FeedLoop, EachLoop
  <1>5. ASSUME NEW i \in 1 .. n
        PROVE  /\ g[i] = FeedItem(g[i - 1], items[i], cb, as)
               /\ h[i] = Then(h[i - 1], RefItem(oper, items[i]))
    <2>1. i \in 0 .. n /\ i # 0
      OBVIOUS
    <2> HIDE DEF n, cb
    <2> QED
      BY <1>2, <1>3, <2>1 DEF FeedLoop, EachLoop, cb
  <1> DEFINE T == {i \in 0 .. n : Feeds(g[i], h[i])}
  <1>6. 0 \in T
    <2>1. Feeds(Eval(<<>>, RxNone), Stream(<<>>, Done))
      <3> DEFINE b == Eval(<<>>, RxNone)
                 c == Stream(<<>>, Done)
      <3>1. IsEval(b) /\ b.values = <<>> /\ b.error = RxNone /\ b.left = FALSE /\ b.vm = FALSE
        <4>1. Starts(b, <<>>, RxNone)
          BY EvalStarts, Zenon
        <4> QED
          BY <4>1 DEF Starts
      <3>2. c.items = <<>> /\ c.end = Done /\ IsSeq(<<>>)
        BY StreamFields, SeqFacts
      <3> HIDE DEF b, c
      <3>3. Feeds(b, c)
        BY <3>1, <3>2 DEF Feeds, Agrees
      <3> QED
        BY <3>3 DEF b, c
    <2> QED
      BY <1>1, <1>4, <2>1
  <1>7. ASSUME NEW i \in 1 .. n, i - 1 \in T PROVE i \in T
    <2>1. Feeds(g[i - 1], h[i - 1])
      BY <1>7
    <2>2. Feeds(FeedItem(g[i - 1], items[i], oper.cb, as), Then(h[i - 1], RefItem(oper, items[i])))
      BY <2>1, FeedItemAgrees
    <2>3. Feeds(g[i], h[i])
      BY <1>5, <2>2
    <2>4. i \in 0 .. n
      OBVIOUS
    <2> QED
      BY <2>3, <2>4
  <1>8. n \in T
    <2> HIDE DEF T, n
    <2>1. \A k \in 0 .. n : k \in T
      BY <1>1, <1>6, <1>7, IntervalInduction, Zenon
    <2> QED
      BY <1>1, <2>1
  <1> QED
    BY <1>2, <1>3, <1>8

LEMMA FeedNextAgrees ==
    ASSUME NEW items, NEW oper, RxCallsReply, IsSeq(items),
           oper.k = "doOnNext", oper.cb \in RxCallback
    PROVE  NextAgrees(Feed(items, oper.cb, "nothing", items), EachItem(oper, items),
                      items, Len(items))
  <1> DEFINE n == Len(items)
             cb == oper.cb
             as == "nothing"
  <1>1. n \in Nat /\ n \in 0 .. n /\ 0 \in 0 .. n
    BY SeqFacts
  <1>2. PICK g : FeedLoop(g, n, items, cb, as, items) /\ Feed(items, cb, as, items) = g[n]
    <2>1. Len(items) \in Nat
      BY <1>1
    <2> QED
      BY <2>1, FeedUnfolds
  <1>3. PICK h : EachLoop(h, n, oper, items) /\ EachItem(oper, items) = h[n]
    BY <1>1, EachUnfolds
  <1>4. g[0] = Eval(items, RxNone) /\ h[0] = Stream(<<>>, Done)
    BY <1>1, <1>2, <1>3 DEF FeedLoop, EachLoop
  <1>5. ASSUME NEW i \in 1 .. n
        PROVE  /\ g[i] = FeedItem(g[i - 1], items[i], cb, as)
               /\ h[i] = Then(h[i - 1], RefItem(oper, items[i]))
    <2>1. i \in 0 .. n /\ i # 0
      OBVIOUS
    <2> HIDE DEF n, cb
    <2> QED
      BY <1>2, <1>3, <2>1 DEF FeedLoop, EachLoop, cb
  <1> DEFINE T == {i \in 0 .. n : NextAgrees(g[i], h[i], items, i)}
  <1>6. 0 \in T
    <2>1. SubSeq(items, 1, 0) = <<>>
      BY DEF IsSeq
    <2>2. NextAgrees(Eval(items, RxNone), Stream(<<>>, Done), items, 0)
      <3> DEFINE b == Eval(items, RxNone)
                 c == Stream(<<>>, Done)
      <3>1. IsEval(b) /\ b.values = items /\ b.error = RxNone /\ b.left = FALSE /\ b.vm = FALSE
        <4>1. Starts(b, items, RxNone)
          BY EvalStarts, Zenon
        <4> QED
          BY <4>1 DEF Starts
      <3>2. c.items = <<>> /\ c.end = Done
        BY StreamFields
      <3> HIDE DEF b, c
      <3>3. NextAgrees(b, c, items, 0)
        BY <2>1, <3>1, <3>2 DEF NextAgrees
      <3> QED
        BY <3>3 DEF b, c
    <2> QED
      BY <1>1, <1>4, <2>2
  <1>7. ASSUME NEW i \in 1 .. n, i - 1 \in T PROVE i \in T
    <2>1. NextAgrees(g[i - 1], h[i - 1], items, i - 1)
      BY <1>7
    <2>2. NextAgrees(FeedItem(g[i - 1], items[i], oper.cb, "nothing"),
                     Then(h[i - 1], RefItem(oper, items[i])), items, i)
      BY <2>1, NextItemAgrees
    <2>3. NextAgrees(g[i], h[i], items, i)
      BY <1>5, <2>2
    <2>4. i \in 0 .. n
      OBVIOUS
    <2> QED
      BY <2>3, <2>4
  <1>8. n \in T
    <2> HIDE DEF T, n
    <2>1. \A k \in 0 .. n : k \in T
      BY <1>1, <1>6, <1>7, IntervalInduction, Zenon
    <2> QED
      BY <1>1, <2>1
  <1> QED
    BY <1>2, <1>3, <1>8

(* An operator takes an evaluation that tracks a stream to one that tracks  *)
(* what the operator makes of the stream.                                   *)
QuietOp(oper) == oper.k = "doOnTerminate" => RxCall(oper.cb, <<"terminate">>).k = "ok"
Handler(oper) == oper.k \in {"onErrorReturn", "onErrorResume"}

LEMMA OperatorKinds ==
    ASSUME NEW oper \in RxOperators
    PROVE  \/ oper.k \in {"map", "doOnNext", "onErrorReturn", "doOnTerminate"} /\ oper.cb \in RxCallback
           \/ oper.k \in {"flatMap", "onErrorResume"} /\ oper.cb \in RxNestedCb
           \/ oper.k = "toList"
  BY DEF RxOperators, RxOperator

LEMMA RecoverTracks ==
    ASSUME NEW st, NEW s, NEW cb, NEW as, RxCallsReply, IsEval(st), Agrees(st, s),
           st.error # RxNone, s.items = <<>>,
           \/ as = "item" /\ cb \in RxCallback
           \/ as = "observable" /\ cb \in RxNestedCb
    PROVE  LET r == RxCall(cb, <<s.end>>) IN
           Tracks(Recover(st, cb, as),
                  Then(Stream(s.items, Done),
                       Replied(r, IF as = "item" THEN Emits(r.v) ELSE OfNested(r.v))))
  <1> DEFINE r == RxCall(cb, <<s.end>>)
             u == Replied(r, IF as = "item" THEN Emits(r.v) ELSE OfNested(r.v))
             t == Then(Stream(s.items, Done), u)
             new == Recover(st, cb, as)
             y == Yielded(as, r.v)
  <1>1. /\ r.k \in {"ok", "throw", "fatal"}
        /\ r.k = "throw" => RxErrorName(r.e)
        /\ r.k = "ok" /\ as = "observable" => IsSeq(r.v.values) /\ r.v.error \notin {Done, VmEnd}
    BY DEF RxCallsReply
  <1>2. s.end = st.error /\ st.left = FALSE /\ st.vm = FALSE
    BY DEF Agrees
  <1>3. t = Stream(s.items \o u.items, u.end)
    BY DEF Then, Stream
  <1>4. t.items = <<>> \o u.items /\ t.end = u.end
    <2> HIDE DEF t, u
    <2> QED
      BY <1>3 DEF Stream
  <1>5. CASE r.k = "fatal"
    <2>1. new = Broken(st)
      BY <1>2, <1>5 DEF Recover
    <2> HIDE DEF new
    <2>2. IsEval(new) /\ new.vm = TRUE
      BY <2>1, BrokenFields
    <2> QED
      BY <2>2 DEF Tracks, new
  <1>6. CASE r.k = "throw"
    <2>1. new = Errs(st, r.e)
      BY <1>2, <1>6 DEF Recover
    <2>2. u.end = r.e
      BY <1>6 DEF Replied, Stream, EndOf
    <2> HIDE DEF new, t, u, r
    <2>3. IsEval(new) /\ new.error = r.e /\ new.left = FALSE /\ new.vm = FALSE
      BY <1>2, <2>1, ErrsFields
    <2>4. Agrees(new, t)
      BY <1>1, <1>4, <1>6, <2>2, <2>3 DEF Agrees, RxErrorName
    <2> QED
      BY <2>3, <2>4 DEF Tracks, new, t, u, r
  <1>7. CASE r.k = "ok"
    <2>1. new = y
      BY <1>2, <1>7 DEF Recover
    <2>2. u = IF as = "item" THEN Emits(r.v) ELSE OfNested(r.v)
      BY <1>7 DEF Replied
    <2>3. y = IF as = "item" THEN Eval(<<r.v>>, RxNone) ELSE Eval(r.v.values, r.v.error)
      BY DEF Yielded
    <2> HIDE DEF new, t, u, r, y
    <2>4. CASE as = "item"
      <3>1. /\ u.items = <<r.v>> /\ u.end = Done
        BY <2>2, <2>4 DEF Emits, Stream
      <3>2. /\ new.values = <<r.v>> /\ new.error = RxNone /\ new.left = FALSE /\ new.vm = FALSE
            /\ IsEval(new)
        <4>1. Starts(new, <<r.v>>, RxNone)
          BY <2>1, <2>3, <2>4, EvalStarts, Zenon
        <4> QED
          BY <4>1 DEF Starts
      <3>3. t.items = <<r.v>> /\ IsSeq(<<r.v>>)
        BY <1>4, <3>1, SeqFacts
      <3>4. Agrees(new, t)
        BY <1>4, <3>1, <3>2, <3>3 DEF Agrees
      <3> QED
        BY <3>2, <3>4 DEF Tracks, new, t, u, r
    <2>5. CASE as = "observable"
      <3>1. u.items = r.v.values /\ u.end = (IF r.v.error = RxNone THEN Done ELSE r.v.error)
        BY <2>2, <2>5 DEF OfNested, Stream
      <3>2. /\ new.values = r.v.values /\ new.error = r.v.error
            /\ new.left = FALSE /\ new.vm = FALSE /\ IsEval(new)
        <4>1. new = Eval(r.v.values, r.v.error)
          BY <2>1, <2>3, <2>5
        <4> DEFINE a == r.v.values
                   b == r.v.error
        <4> HIDE DEF a, b
        <4>2. /\ new.values = a /\ new.error = b /\ new.left = FALSE /\ new.vm = FALSE /\ IsEval(new)
          <5>1. new = Eval(a, b)
            BY <4>1 DEF a, b
          <5> QED
            <6>1. Starts(new, a, b)
              BY <5>1, EvalStarts, Zenon
            <6> QED
              BY <6>1 DEF Starts
        <4> QED
          BY <4>2 DEF a, b
      <3>3. IsSeq(r.v.values) /\ (r.v.error # RxNone => RxErrorName(r.v.error))
        BY <1>1, <1>7, <2>5 DEF RxErrorName
      <3>4. t.items = r.v.values
        BY <1>4, <3>1, <3>3 DEF IsSeq
      <3>5. Agrees(new, t)
        BY <1>4, <3>1, <3>2, <3>3, <3>4 DEF Agrees
      <3> QED
        BY <3>2, <3>5 DEF Tracks, new, t, u, r
    <2> QED
      BY <2>4, <2>5
  <1> QED
    BY <1>1, <1>5, <1>6, <1>7

LEMMA MappedTracks ==
    ASSUME NEW oper \in RxOperators, NEW st, NEW s, RxCallsReply, IsEval(st), Agrees(st, s),
           st.error = RxNone, oper.k \in {"map", "flatMap", "doOnNext"}
    PROVE  Tracks(RxStep(oper, st), RefStep(oper, s))
  <1> DEFINE new == RxStep(oper, st)
             m == EachItem(oper, st.values)
             t == RefStep(oper, s)
  <1>1. s.end = Done /\ s.items = st.values /\ IsSeq(st.values) /\ st.left = FALSE /\ st.vm = FALSE
    BY DEF Agrees
  <1>2. t = IF m.end = Done THEN Stream(m.items, Done) ELSE m
    BY <1>1 DEF RefStep, Mapped
  <1>3. t.end = m.end /\ (m.end = Done => t.items = m.items)
    <2> HIDE DEF t, m
    <2> QED
      BY <1>2 DEF Stream
  <1>4. CASE oper.k \in {"map", "flatMap"}
    <2>1. Feeds(new, m)
      <3>1. CASE oper.k = "map"
        <4>1. oper.cb \in RxCallback
          BY <3>1, OperatorKinds
        <4>2. new = Feed(st.values, oper.cb, "item", <<>>)
          BY <1>1, <3>1 DEF RxStep
        <4>3. Feeds(Feed(st.values, oper.cb, "item", <<>>), EachItem(oper, st.values))
          BY <1>1, <3>1, <4>1, FeedAgrees DEF YieldsAs
        <4> QED
          BY <4>2, <4>3
      <3>2. CASE oper.k = "flatMap"
        <4>1. oper.cb \in RxNestedCb
          BY <3>2, OperatorKinds
        <4>2. new = Feed(st.values, oper.cb, "observable", <<>>)
          BY <1>1, <3>2 DEF RxStep
        <4>3. Feeds(Feed(st.values, oper.cb, "observable", <<>>), EachItem(oper, st.values))
          BY <1>1, <3>2, <4>1, FeedAgrees DEF YieldsAs
        <4> QED
          BY <4>2, <4>3
      <3> QED
        BY <1>4, <3>1, <3>2
    <2> HIDE DEF new, m, t
    <2>2. new.vm = TRUE \/ Agrees(new, t)
      BY <1>3, <2>1 DEF Feeds, Agrees
    <2>3. Tracks(new, t)
      BY <2>1, <2>2 DEF Tracks, Feeds
    <2> QED
      BY <2>3 DEF new, t
  <1>5. CASE oper.k = "doOnNext"
    <2>1. NextAgrees(new, m, st.values, Len(st.values))
      <3>1. oper.cb \in RxCallback
        BY <1>5, OperatorKinds
      <3>2. new = Feed(st.values, oper.cb, "nothing", st.values)
        BY <1>1, <1>5 DEF RxStep
      <3>3. NextAgrees(Feed(st.values, oper.cb, "nothing", st.values), EachItem(oper, st.values),
                       st.values, Len(st.values))
        BY <1>1, <1>5, <3>1, FeedNextAgrees
      <3> QED
        BY <3>2, <3>3
    <2>2. SubSeq(st.values, 1, Len(st.values)) = st.values
      BY <1>1 DEF IsSeq
    <2> HIDE DEF new, m, t
    <2>3. new.vm = TRUE \/ Agrees(new, t)
      BY <1>1, <1>3, <2>1, <2>2 DEF NextAgrees, Agrees
    <2>4. Tracks(new, t)
      BY <2>1, <2>3 DEF Tracks, NextAgrees
    <2> QED
      BY <2>4 DEF new, t
  <1> QED
    BY <1>4, <1>5

LEMMA StepTracks ==
    ASSUME NEW oper \in RxOperators, NEW st, NEW s, RxCallsReply, Tracks(st, s), QuietOp(oper),
           Handler(oper) /\ IsErr(s.end) => s.items = <<>>
    PROVE  Tracks(RxStep(oper, st), RefStep(oper, s))
  <1>1. IsEval(st)
    BY DEF Tracks
  <1>2. CASE st.vm = TRUE \/ (st.left = TRUE /\ st.error # RxNone)
    <2>1. RxStep(oper, st) = st
      BY <1>2 DEF RxStep
    <2> QED
      BY <1>1, <1>2, <2>1 DEF Tracks
  <1>3. CASE Agrees(st, s)
    <2>1. st.left = FALSE /\ st.vm = FALSE
      BY <1>3 DEF Agrees
    <2>2. CASE oper.k = "doOnTerminate"
      <3>1. RxStep(oper, st) = st
        BY <2>1, <2>2 DEF RxStep, Terminated, QuietOp
      <3>2. RefStep(oper, s) = s
        BY <2>2 DEF RefStep, QuietOp
      <3> QED
        BY <3>1, <3>2
    <2>3. CASE Handler(oper) /\ st.error = RxNone
      <3>1. RxStep(oper, st) = st
        BY <2>1, <2>3 DEF RxStep, Recover, Handler
      <3>2. s.end = Done
        BY <1>3, <2>3 DEF Agrees
      <3>3. RefStep(oper, s) = s
        BY <2>3, <3>2 DEF RefStep, IsErr, Handler
      <3> QED
        BY <3>1, <3>3
    <2>4. CASE Handler(oper) /\ st.error # RxNone
      <3>1. s.end = st.error /\ RxErrorName(st.error)
        BY <1>3, <2>4 DEF Agrees
      <3>2. IsErr(s.end) /\ s.items = <<>>
        BY <2>4, <3>1 DEF IsErr, RxErrorName
      <3> DEFINE r == RxCall(oper.cb, <<s.end>>)
                 T(as) == Then(Stream(s.items, Done),
                               Replied(r, IF as = "item" THEN Emits(r.v) ELSE OfNested(r.v)))
      <3>3. CASE oper.k = "onErrorReturn"
        <4>1. oper.cb \in RxCallback
          BY <3>3, OperatorKinds
        <4>2. RxStep(oper, st) = Recover(st, oper.cb, "item")
          BY <2>1, <3>3 DEF RxStep
        <4>3. RefStep(oper, s) = Then(Stream(s.items, Done), Replied(r, Emits(r.v)))
          BY <3>2, <3>3 DEF RefStep
        <4>4. T("item") = Then(Stream(s.items, Done), Replied(r, Emits(r.v)))
          OBVIOUS
        <4>5. Tracks(Recover(st, oper.cb, "item"), T("item"))
          BY <1>1, <1>3, <2>4, <3>2, <4>1, RecoverTracks
        <4> QED
          BY <4>2, <4>3, <4>4, <4>5
      <3>4. CASE oper.k = "onErrorResume"
        <4>1. oper.cb \in RxNestedCb
          BY <3>4, OperatorKinds
        <4>2. RxStep(oper, st) = Recover(st, oper.cb, "observable")
          BY <2>1, <3>4 DEF RxStep
        <4>3. RefStep(oper, s) = Then(Stream(s.items, Done), Replied(r, OfNested(r.v)))
          BY <3>2, <3>4 DEF RefStep
        <4>4. T("observable") = Then(Stream(s.items, Done), Replied(r, OfNested(r.v)))
          OBVIOUS
        <4>5. Tracks(Recover(st, oper.cb, "observable"), T("observable"))
          BY <1>1, <1>3, <2>4, <3>2, <4>1, RecoverTracks
        <4> QED
          BY <4>2, <4>3, <4>4, <4>5
      <3> QED
        BY <2>4, <3>3, <3>4 DEF Handler
    <2>5. CASE oper.k \in {"map", "flatMap", "doOnNext", "toList"} /\ st.error # RxNone
      <3>1. RxStep(oper, st) = Leaving(st)
        BY <2>1, <2>5 DEF RxStep, Leaving
      <3>2. IsEval(Leaving(st)) /\ Leaving(st).left = TRUE /\ Leaving(st).error # RxNone
        BY <1>1, <2>5, LeavingFields
      <3> QED
        BY <3>1, <3>2 DEF Tracks
    <2>6. CASE oper.k \in {"map", "flatMap", "doOnNext"} /\ st.error = RxNone
      BY <1>1, <1>3, <2>6, MappedTracks
    <2>7. CASE oper.k = "toList" /\ st.error = RxNone
      <3> DEFINE v == ListItem(st.values)
                 new == RxStep(oper, st)
                 t == RefStep(oper, s)
      <3>1. new = Eval(<<v>>, RxNone)
        BY <2>1, <2>7 DEF RxStep
      <3>2. t = Stream(<<v>>, Done)
        BY <1>3, <2>7 DEF RefStep, Agrees, Emits
      <3> HIDE DEF v, new, t
      <3>3. IsEval(new) /\ new.values = <<v>> /\ new.error = RxNone /\ new.left = FALSE /\ new.vm = FALSE
        <4>1. Starts(new, <<v>>, RxNone)
          BY <3>1, EvalStarts, Zenon
        <4> QED
          BY <4>1 DEF Starts
      <3>4. t.items = <<v>> /\ t.end = Done /\ IsSeq(<<v>>)
        BY <3>2, SeqFacts DEF Stream
      <3>5. Agrees(new, t)
        BY <3>3, <3>4 DEF Agrees
      <3> QED
        BY <3>3, <3>5 DEF Tracks, new, t
    <2> QED
      BY <2>2, <2>3, <2>4, <2>5, <2>6, <2>7, OperatorKinds DEF Handler
  <1> QED
    BY <1>2, <1>3 DEF Tracks

-----------------------------------------------------------------------------
(* What the guest can build. *)
RxFormed(o) ==
    /\ o \in [values : {o.values}, error : {o.error}, callable : {o.callable},
              ops : Seq(RxOperators)]
    /\ IsSeq(o.values)
    /\ o.error \notin {Done, VmEnd}
    /\ o.callable # RxNone =>
         o.callable \in RxCallback /\ o.values = <<>> /\ o.error = RxNone

LEMMA StartTracks ==
    ASSUME NEW o, RxFormed(o), RxCallsReply
    PROVE  Tracks(RxCalled(o), RefStart(o))
  <1> DEFINE new == RxCalled(o)
             t == RefStart(o)
  <1>1. CASE o.callable = RxNone
    <2>1. new = Eval(o.values, o.error)
      BY <1>1 DEF RxCalled
    <2>2. t = OfNested(o)
      BY <1>1 DEF RefStart
    <2>3. t.items = o.values /\ t.end = (IF o.error = RxNone THEN Done ELSE o.error)
      BY <2>2 DEF OfNested, Stream
    <2> HIDE DEF new, t
    <2>4. /\ IsEval(new) /\ new.values = o.values /\ new.error = o.error
          /\ new.left = FALSE /\ new.vm = FALSE
      <3> DEFINE a == o.values
                 b == o.error
      <3>1. new = Eval(a, b)
        BY <2>1
      <3> HIDE DEF a, b
      <3>2. IsEval(new) /\ new.values = a /\ new.error = b /\ new.left = FALSE /\ new.vm = FALSE
        <4>1. Starts(new, a, b)
          BY <3>1, EvalStarts, Zenon
        <4> QED
          BY <4>1 DEF Starts
      <3> QED
        BY <3>2 DEF a, b
    <2>5. Agrees(new, t)
      BY <2>3, <2>4 DEF Agrees, RxFormed, RxErrorName
    <2> QED
      BY <2>4, <2>5 DEF Tracks, new, t
  <1>2. CASE o.callable # RxNone
    <2> DEFINE r == RxCall(o.callable, <<>>)
    <2>1. o.callable \in RxCallback /\ o.values = <<>> /\ o.error = RxNone
      BY <1>2 DEF RxFormed
    <2>2. r.k \in {"ok", "throw", "fatal"} /\ (r.k = "throw" => RxErrorName(r.e))
      BY <2>1 DEF RxCallsReply
    <2>3. t = Replied(r, Emits(r.v))
      BY <1>2 DEF RefStart
    <2>4. CASE r.k = "fatal"
      <3>1. new = Broken(Eval(o.values, o.error))
        BY <1>2, <2>4 DEF RxCalled
      <3>2. IsEval(Eval(o.values, o.error))
        <4>1. Starts(Eval(o.values, o.error), o.values, o.error)
          BY EvalStarts, Zenon
        <4> QED
          BY <4>1 DEF Starts
      <3> HIDE DEF new
      <3>3. IsEval(new) /\ new.vm = TRUE
        BY <3>1, <3>2, BrokenFields
      <3> QED
        BY <3>3 DEF Tracks, new
    <2>5. CASE r.k = "throw"
      <3>1. new = Eval(o.values, r.e)
        BY <1>2, <2>5 DEF RxCalled
      <3>2. t.end = r.e
        BY <2>3, <2>5 DEF Replied, Stream, EndOf
      <3> HIDE DEF new, t, r
      <3>3. IsEval(new) /\ new.error = r.e /\ new.left = FALSE /\ new.vm = FALSE
        <4> DEFINE a == o.values
                   b == r.e
        <4>1. new = Eval(a, b)
          BY <3>1
        <4> HIDE DEF a, b
        <4>2. IsEval(new) /\ new.error = b /\ new.left = FALSE /\ new.vm = FALSE
          <5>1. Starts(new, a, b)
            BY <4>1, EvalStarts, Zenon
          <5> QED
            BY <5>1 DEF Starts
        <4> QED
          BY <4>2 DEF b
      <3>4. Agrees(new, t)
        BY <2>2, <2>5, <3>2, <3>3 DEF Agrees, RxErrorName
      <3> QED
        BY <3>3, <3>4 DEF Tracks, new, t
    <2>6. CASE r.k = "ok"
      <3>1. new = Eval(Append(o.values, r.v), o.error)
        BY <1>2, <2>6 DEF RxCalled
      <3>2. Append(<<>>, r.v) = <<r.v>>
        OBVIOUS
      <3>3. t.items = <<r.v>> /\ t.end = Done
        BY <2>3, <2>6 DEF Replied, Emits, Stream
      <3> HIDE DEF new, t, r
      <3>4. new = Eval(<<r.v>>, RxNone)
        BY <2>1, <3>1, <3>2
      <3>5. IsEval(new) /\ new.values = <<r.v>> /\ new.error = RxNone /\ new.left = FALSE /\ new.vm = FALSE
        <4>1. Starts(new, <<r.v>>, RxNone)
          BY <3>4, EvalStarts, Zenon
        <4> QED
          BY <4>1 DEF Starts
      <3>6. Agrees(new, t)
        BY <3>3, <3>5, SeqFacts DEF Agrees
      <3> QED
        BY <3>5, <3>6 DEF Tracks, new, t
    <2> QED
      BY <2>2, <2>4, <2>5, <2>6
  <1> QED
    BY <1>1, <1>2

(* The loops of rx_materialize and of the reference, side by side. *)
LEMMA MaterializeTracks ==
    ASSUME NEW o, RxFormed(o), RxCallsReply, QuietTerminate(o), ErrorsComeFirst(o)
    PROVE  Tracks(RxMaterialize(o), RefStreams(o)[Len(o.ops)])
  <1> DEFINE n == Len(o.ops)
             g == RxEvaluated(o)
             h == RefStreams(o)
  <1>1. o.ops \in Seq(RxOperators)
    BY DEF RxFormed
  <1>2. n \in Nat /\ n \in 0 .. n /\ 0 \in 0 .. n /\ DOMAIN o.ops = 1 .. n
    BY <1>1
  <1>3. EvalLoop(g, n, o) /\ RefLoop(h, n, o)
    BY <1>2, EvalUnfolds, RefUnfolds
  <1> HIDE DEF g, h
  <1>4. g[0] = RxCalled(o) /\ h[0] = RefStart(o)
    BY <1>2, <1>3 DEF EvalLoop, RefLoop
  <1>5. ASSUME NEW i \in 1 .. n
        PROVE  /\ g[i] = RxStep(o.ops[i], g[i - 1]) /\ h[i] = RefStep(o.ops[i], h[i - 1])
               /\ o.ops[i] \in RxOperators
    <2>1. i \in 0 .. n /\ i # 0
      OBVIOUS
    <2>2. o.ops[i] \in RxOperators
      BY <1>1
    <2> HIDE DEF n
    <2> QED
      BY <1>3, <2>1, <2>2 DEF EvalLoop, RefLoop
  <1>6. ASSUME NEW i \in 1 .. n
        PROVE  /\ QuietOp(o.ops[i])
               /\ Handler(o.ops[i]) /\ IsErr(h[i - 1].end) => h[i - 1].items = <<>>
    BY <1>2 DEF QuietTerminate, ErrorsComeFirst, QuietOp, Handler, h
  <1> DEFINE T == {i \in 0 .. n : Tracks(g[i], h[i])}
  <1>7. 0 \in T
    BY <1>2, <1>4, StartTracks
  <1>8. ASSUME NEW i \in 1 .. n, i - 1 \in T PROVE i \in T
    <2>1. Tracks(g[i - 1], h[i - 1])
      BY <1>8
    <2>2. Tracks(RxStep(o.ops[i], g[i - 1]), RefStep(o.ops[i], h[i - 1]))
      BY <1>5, <1>6, <2>1, StepTracks
    <2>3. Tracks(g[i], h[i])
      BY <1>5, <2>2
    <2>4. i \in 0 .. n
      OBVIOUS
    <2> QED
      BY <2>3, <2>4
  <1>9. n \in T
    <2> HIDE DEF T, n
    <2>1. \A k \in 0 .. n : k \in T
      BY <1>2, <1>7, <1>8, IntervalInduction, Zenon
    <2> QED
      BY <1>2, <2>1
  <1> QED
    BY <1>9 DEF RxMaterialize, g, h

LEMMA FormedMatches ==
    ASSUME RxCallsReply, RxFormed(rxObs) PROVE RxMatchesStream
  <1> DEFINE m == RxMaterialize(rxObs)
             s == RefStreams(rxObs)[Len(rxObs.ops)]
  <1> SUFFICES ASSUME QuietTerminate(rxObs), ErrorsComeFirst(rxObs), ~m.vm, m.error = RxNone
               PROVE  s.end = Done /\ m.values = s.items
    BY DEF RxMatchesStream
  <1>1. Tracks(m, s)
    BY MaterializeTracks
  <1> HIDE DEF m, s
  <1> QED
    BY <1>1 DEF Tracks, Agrees

LEMMA FormedStays ==
    ASSUME RxFormed(rxObs), [RxNext]_rxVars PROVE RxFormed(rxObs)'
  <1>1. ASSUME NEW oper \in RxOperators, RxApply(oper) PROVE RxFormed(rxObs')
    <2>1. rxObs' = [rxObs EXCEPT !.ops = Append(@, oper)]
      BY <1>1 DEF RxApply, RxWithOperator
    <2>2. rxObs.ops \in Seq(RxOperators)
      BY DEF RxFormed
    <2>3. Append(rxObs.ops, oper) \in Seq(RxOperators)
      BY <2>2
    <2> DEFINE p == Append(rxObs.ops, oper)
    <2>4. rxObs' = [rxObs EXCEPT !.ops = p]
      BY <2>1
    <2> HIDE DEF p
    <2>5. /\ rxObs' \in [values : {rxObs.values}, error : {rxObs.error},
                         callable : {rxObs.callable}, ops : Seq(RxOperators)]
          /\ rxObs'.values = rxObs.values /\ rxObs'.error = rxObs.error
          /\ rxObs'.callable = rxObs.callable
      BY <2>3, <2>4 DEF RxFormed, p
    <2> QED
      BY <2>5 DEF RxFormed
  <1>2. CASE RxEnds
    <2>1. rxObs' = RxFrom(<<>>)
      BY <1>2 DEF RxEnds
    <2> QED
      BY <2>1, SeqFacts DEF RxFormed, RxFrom, RxAlloc, RxNone, Done, VmEnd
  <1>3. CASE UNCHANGED rxVars
    BY <1>3 DEF rxVars
  <1> QED
    BY <1>1, <1>2, <1>3 DEF RxNext

LEMMA FormedInit ==
    ASSUME RxInit PROVE RxFormed(rxObs)
  <1>1. ASSUME NEW v, rxObs = RxJustValue(v) PROVE RxFormed(rxObs)
    BY <1>1, SeqFacts DEF RxFormed, RxAlloc, RxNone, Done, VmEnd, RxJustValue
  <1>2. CASE rxObs = RxErrorValue("e1")
    BY <1>2, SeqFacts DEF RxFormed, RxAlloc, RxNone, Done, VmEnd, RxErrorValue
  <1>3. CASE rxObs = RxFrom(<<>>)
    BY <1>3, SeqFacts DEF RxFormed, RxAlloc, RxNone, Done, VmEnd, RxFrom
  <1>4. ASSUME NEW c \in RxCallback, rxObs = RxFromCallable(c) PROVE RxFormed(rxObs)
    BY <1>4, SeqFacts DEF RxFormed, RxAlloc, RxNone, Done, VmEnd, RxFromCallable
  <1>5. ASSUME NEW vs \in RxItem \X RxItem, rxObs = RxFrom(vs) PROVE RxFormed(rxObs)
    <2>1. vs \in Seq(RxItem)
      <3>1. PICK v \in RxItem, w \in RxItem : vs = <<v, w>>
        OBVIOUS
      <3>2. <<v, w>> \in Seq(RxItem)
        OBVIOUS
      <3> QED
        BY <3>1, <3>2
    <2>2. IsSeq(vs)
      BY <2>1 DEF IsSeq
    <2> QED
      BY <1>5, <2>2, SeqFacts DEF RxFormed, RxAlloc, RxNone, Done, VmEnd, RxFrom
  <1>6. \/ \E v \in RxItem : rxObs = RxJustValue(v)
        \/ rxObs = RxErrorValue("e1")
        \/ rxObs = RxFrom(<<>>)
        \/ \E c \in RxCallback : rxObs = RxFromCallable(c)
        \/ \E vs \in RxItem \X RxItem : rxObs = RxFrom(vs)
    <2>1. rxObs \in RxSources
      BY DEF RxInit
    <2> QED
      BY <2>1, Zenon DEF RxSources, RxPlain
  <1> QED
    BY <1>1, <1>2, <1>3, <1>4, <1>5, <1>6

(***************************************************************************)
(* Whatever the callbacks do, an Observable built by any sequence of        *)
(* operators and materialised without an error has the items of the stream  *)
(* it denotes, as RxMatchesStream says (rx.rs, rx_materialize).             *)
(***************************************************************************)
THEOREM ObservablesAreStreams ==
    ASSUME RxCallsReply PROVE RxSpec => []RxMatchesStream
<1>1. RxInit => RxFormed(rxObs)
  BY FormedInit
<1>2. RxFormed(rxObs) /\ [RxNext]_rxVars => RxFormed(rxObs)'
  BY FormedStays
<1>3. RxFormed(rxObs) => RxMatchesStream
  BY FormedMatches
<1> QED
  BY <1>1, <1>2, <1>3, PTL DEF RxSpec

==============================================================================
