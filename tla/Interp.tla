------------------------------- MODULE Interp -------------------------------
(***************************************************************************)
(* The interpreter of dexvm (vm/interpret.rs): interpret::run and its      *)
(* guest frame stack, the dispatch loop with its instruction budget, the   *)
(* unwinding of exceptions through the frames, class initialisation on     *)
(* first static use, and the natives that re-enter the interpreter.        *)
(*                                                                         *)
(* Registers and heap are abstracted away: a conditional goes either way,  *)
(* an instruction that can raise an exception does so or not.              *)
(***************************************************************************)
EXTENDS Integers, Sequences, FiniteSets

CONSTANTS
    Exc,          \* exception objects
    Guest,        \* methods with bytecode
    NativeBacked, \* methods backed by a host function
    Declared,     \* methods declared native in the dex, without JNI bridge
    Abstract,     \* methods without a code item
    Class,        \* classes whose initialisation the guest code triggers
    ClinitOf,     \* the <clinit> of a class, or None
    None,         \* Option::None
    Programs,     \* the guest programs to run: Guest -> instructions and tries
    DepthLimit,   \* Vm.depth_limit
    Budget,       \* initial Vm.budget
    MaxCalls,     \* bound: guest calls one native function makes
    MaxStack      \* bound: the Rust stack at which natives stop nesting

Method == Guest \cup NativeBacked \cup Declared \cup Abstract

(***************************************************************************)
(* Guest code.  to is the target of a jump, m the callee, e the exception  *)
(* of a throw or trap, c the class a static access initialises.            *)
(***************************************************************************)
Op == {"plain", "goto", "if", "throw", "trap", "fail", "moveException",
       "return", "invoke", "invokeStatic", "sget"}
Insn == [op : Op, to : Nat, m : Method \cup {None}, e : Exc \cup {None},
         c : Class \cup {None}]
Handler == [known : BOOLEAN, types : SUBSET Exc, addr : Nat \ {0}]
TryItem == [start : Nat, end : Nat, handlers : Seq(Handler), all : Nat]
Body == [insns : Seq(Insn), tries : Seq(TryItem)]

ASSUME InterpAssumption ==
    /\ DepthLimit \in Nat \ {0} /\ Budget \in Nat
    /\ MaxCalls \in Nat /\ MaxStack \in Nat
    /\ None \notin Exc \cup Method \cup Class
    /\ Guest \cap (NativeBacked \cup Declared \cup Abstract) = {}
    /\ ClinitOf \in [Class -> Guest \cup {None}]
    /\ \A p \in Programs : p \in [Guest -> Body]
    /\ \A p \in Programs, m \in Guest : \A i \in 1..Len(p[m].insns) :
         LET n == p[m].insns[i]
         IN  /\ n.op \in {"throw", "trap"} => n.e \in Exc
             /\ n.op \in {"invoke", "invokeStatic"} => n.m \in Method
             /\ n.op \in {"invokeStatic", "sget"} => n.c \in Class

VARIABLES
    prog,     \* the program, fixed at the start
    frames,   \* Vm.frames: the suspended callers of the running frame
    stack,    \* the Rust stack: activations of run, natives, initialisers
    mode,     \* what the top of the Rust stack is doing
    result,   \* the Result on its way to the top of the Rust stack
    depth,    \* Vm.recursion_depth
    budget,   \* Vm.budget
    clinit,   \* Class.clinit_state
    thrown,   \* the exception run_loop is unwinding
    carried,  \* unwind's local variable of that name
    origin,   \* history: the frames when the unwinding began
    site      \* history: the instruction the innermost of them was executing

vars == <<prog, frames, stack, mode, result, depth, budget, clinit, thrown,
          carried, origin, site>>
excVars == <<thrown, carried, origin, site>>

Frame == [m : Guest, pc : Nat, err : Nat, pending : Exc \cup {None}]
NewFrame(m) == [m |-> m, pc |-> 1, err |-> 1, pending |-> None]

Result == [kind : {"none", "ok", "uncaught", "fatal"}, e : Exc \cup {None}]
Pending == [kind |-> "none", e |-> None]
Ok == [kind |-> "ok", e |-> None]
Fatal == [kind |-> "fatal", e |-> None]
Uncaught(e) == [kind |-> "uncaught", e |-> e]

(***************************************************************************)
(* Entries of the Rust stack: interpret::run with the frames it took and   *)
(* run_loop's local frame f; a native function and the calls it made; and  *)
(* ensure_class_initialized waiting for the <clinit> of class c.           *)
(***************************************************************************)
RunEntry(m) ==
    [at |-> "run", saved |-> frames, f |-> NewFrame(m), c |-> None, calls |-> 0]
NativeEntry ==
    [at |-> "native", saved |-> <<>>, f |-> None, c |-> None, calls |-> 0]
ClinitEntry(c) ==
    [at |-> "clinit", saved |-> <<>>, f |-> None, c |-> c, calls |-> 0]

Last(s) == s[Len(s)]
Front(s) == SubSeq(s, 1, Len(s) - 1)
Top == Last(stack)
WithFrame(s, f) == [s EXCEPT ![Len(s)].f = f]

Init ==
    /\ prog \in Programs
    /\ frames = <<>> /\ stack = <<>>
    /\ mode = "idle" /\ result = Pending
    /\ depth = 0 /\ budget = Budget
    /\ clinit = [c \in Class |-> 0]
    /\ thrown = None /\ carried = None /\ origin = <<>> /\ site = 0

-----------------------------------------------------------------------------
(* interpret::run *)

(* Returning a result to the top of the Rust stack s. *)
ReturnTo(s, r) ==
    /\ stack' = s
    /\ mode' = "return"
    /\ result' = r

(* Mutant: the limit is compared after the entry was counted. *)
EnterRunOffByOne(s, m) ==
    IF depth > DepthLimit
    THEN ReturnTo(s, Fatal) /\ UNCHANGED <<frames, depth>>
    ELSE /\ depth' = depth + 1
         /\ IF m \in Guest
            THEN /\ stack' = Append(s, RunEntry(m)) /\ frames' = <<>>
                 /\ mode' = "step" /\ result' = Pending
            ELSE ReturnTo(s, Fatal) /\ UNCHANGED frames

(* Mutant: an entry is not counted. *)
EnterRunUncounted(s, m) ==
    /\ UNCHANGED depth
    /\ IF m \in Guest
       THEN /\ stack' = Append(s, RunEntry(m)) /\ frames' = <<>>
            /\ mode' = "step" /\ result' = Pending
       ELSE ReturnTo(s, Fatal) /\ UNCHANGED frames

(* run up to the dispatch loop: the limit on nested entries, then the four *)
(* kinds of method.  Only the bytecode path undoes the increment.          *)
EnterRun(s, m) ==
    IF depth >= DepthLimit
    THEN ReturnTo(s, Fatal) /\ UNCHANGED <<frames, depth>>
    ELSE \/ /\ m \in Declared
            /\ depth' = depth + 1
            /\ ReturnTo(s, Fatal)
            /\ UNCHANGED frames
         \/ /\ m \in NativeBacked
            /\ depth' = depth + 1
            /\ stack' = Append(s, NativeEntry)
            /\ mode' = "native" /\ result' = Pending
            /\ UNCHANGED frames
         \/ /\ m \in Abstract
            /\ ReturnTo(s, Fatal)
            /\ UNCHANGED <<frames, depth>>
         \/ /\ m \in Guest
            /\ depth' = depth + 1
            /\ stack' = Append(s, RunEntry(m))
            /\ frames' = <<>>
            /\ mode' = "step" /\ result' = Pending

(* Mutant: the caller's frames are put back only when the run succeeds. *)
FinishRunKeepsFrames(s, r) ==
    /\ frames' = IF r = Ok THEN Last(s).saved ELSE frames
    /\ depth' = depth - 1
    /\ ReturnTo(Front(s), r)

(* run after the dispatch loop: s is the Rust stack, its last entry the    *)
(* activation that ends with r, by whichever path.                         *)
FinishRun(s, r) ==
    /\ frames' = Last(s).saved
    /\ depth' = depth - 1
    /\ ReturnTo(Front(s), r)

(* Context::call and Context::invoke. *)
HostCall(m) ==
    /\ mode = "idle"
    /\ EnterRun(<<>>, m)
    /\ UNCHANGED <<prog, budget, clinit, excVars>>

HostReturn ==
    /\ mode = "return" /\ stack = <<>>
    /\ mode' = "idle" /\ result' = Pending
    /\ UNCHANGED <<prog, frames, stack, depth, budget, clinit, excVars>>

-----------------------------------------------------------------------------
(* The dispatch loop *)

Current == [Top.f EXCEPT !.err = Top.f.pc]
InRange == Top.f.pc \in 1..Len(prog[Top.f.m].insns)
Fetch == prog[Top.f.m].insns[Top.f.pc]

Goto(pc) ==
    /\ stack' = WithFrame(stack, [Current EXCEPT !.pc = pc])
    /\ UNCHANGED <<frames, mode, result, depth, clinit, excVars>>

(* run_loop on a thrown exception: the frame joins the stack with the      *)
(* exception pending, and unwind starts.                                   *)
Throw(f, e, at) ==
    /\ frames' = Append(frames, [f EXCEPT !.pending = e])
    /\ origin' = frames' /\ site' = at
    /\ thrown' = e /\ carried' = None
    /\ mode' = "unwind" /\ result' = Pending
    /\ UNCHANGED <<depth, clinit>>

(* Flow::Call from frame f, which resumes after the invoke: a native runs  *)
(* on the Rust stack, bytecode gets a frame of its own.                    *)
Call(s, f, m) ==
    \/ /\ m \in Declared \cup Abstract
       /\ FinishRun(s, Fatal)
    \/ /\ m \in NativeBacked
       /\ stack' = Append(WithFrame(s, [f EXCEPT !.pc = @ + 1]), NativeEntry)
       /\ mode' = "native" /\ result' = Pending
       /\ UNCHANGED <<frames, depth>>
    \/ /\ m \in Guest
       /\ frames' = Append(frames, [f EXCEPT !.pc = @ + 1])
       /\ stack' = WithFrame(s, NewFrame(m))
       /\ mode' = "step" /\ result' = Pending
       /\ UNCHANGED depth

StepPlain == Fetch.op = "plain" /\ Goto(Top.f.pc + 1)

StepGoto == Fetch.op = "goto" /\ Goto(Fetch.to)

StepIf ==
    /\ Fetch.op = "if"
    /\ \E pc \in {Fetch.to, Top.f.pc + 1} : Goto(pc)

StepThrow ==
    /\ Fetch.op = "throw"
    /\ Throw(Current, Fetch.e, Top.f.pc)
    /\ UNCHANGED stack

(* Field and array accesses, casts, divisions, allocations: they complete *)
(* or throw.                                                               *)
StepTrap ==
    /\ Fetch.op = "trap"
    /\ \/ Goto(Top.f.pc + 1)
       \/ Throw(Current, Fetch.e, Top.f.pc) /\ UNCHANGED stack

(* step() returned Err: unresolved references, unsupported instructions,   *)
(* or a pc past the end of the method.  No guest handler is consulted.     *)
StepFail ==
    /\ ~InRange \/ Fetch.op = "fail"
    /\ FinishRun(stack, Fatal)
    /\ UNCHANGED <<clinit, excVars>>

StepMoveException ==
    /\ Fetch.op = "moveException"
    /\ stack' = WithFrame(stack, [Current EXCEPT !.pc = @ + 1, !.pending = None])
    /\ UNCHANGED <<frames, mode, result, depth, clinit, excVars>>

StepReturn ==
    /\ Fetch.op = "return"
    /\ IF frames = <<>>
       THEN FinishRun(stack, Ok)
       ELSE /\ stack' = WithFrame(stack, Last(frames))
            /\ frames' = Front(frames)
            /\ UNCHANGED <<mode, result, depth>>
    /\ UNCHANGED <<clinit, excVars>>

StepInvoke ==
    /\ Fetch.op = "invoke"
    /\ Call(stack, Current, Fetch.m)
    /\ UNCHANGED <<clinit, excVars>>

(* The first half of ensure_class_initialized. *)
NeedsInit(c) == clinit[c] = 0 /\ ClinitOf[c] # None

InitClass(c) ==
    /\ clinit' = [clinit EXCEPT ![c] = 1]
    /\ EnterRun(Append(WithFrame(stack, Current), ClinitEntry(c)), ClinitOf[c])
    /\ UNCHANGED excVars

MarkInit(c) == [clinit EXCEPT ![c] = IF @ = 0 THEN 2 ELSE @]

StepInvokeStatic ==
    /\ Fetch.op = "invokeStatic"
    /\ IF Fetch.m \in Guest /\ NeedsInit(Fetch.c)
       THEN InitClass(Fetch.c)
       ELSE /\ Call(stack, Current, Fetch.m)
            /\ clinit' = IF Fetch.m \in Guest THEN MarkInit(Fetch.c) ELSE clinit
            /\ UNCHANGED excVars

StepSGet ==
    /\ Fetch.op = "sget"
    /\ IF NeedsInit(Fetch.c)
       THEN InitClass(Fetch.c)
       ELSE /\ stack' = WithFrame(stack, [Current EXCEPT !.pc = @ + 1])
            /\ clinit' = MarkInit(Fetch.c)
            /\ UNCHANGED <<frames, mode, result, depth, excVars>>

(* Mutant: jumps are free. *)
SpendOnStraightCode ==
    budget' = IF InRange /\ Fetch.op = "goto" THEN budget ELSE budget - 1

(* Every pass of the loop costs one unit of the budget. *)
Spend == budget' = budget - 1

Step ==
    /\ mode = "step"
    /\ budget > 0
    /\ Spend
    /\ \/ StepFail
       \/ /\ InRange
          /\ \/ StepPlain \/ StepGoto \/ StepIf \/ StepThrow \/ StepTrap
             \/ StepMoveException \/ StepReturn \/ StepInvoke
             \/ StepInvokeStatic \/ StepSGet
    /\ UNCHANGED prog

OutOfBudget ==
    /\ mode = "step"
    /\ budget <= 0
    /\ FinishRun(stack, Fatal)
    /\ UNCHANGED <<prog, budget, clinit, excVars>>

-----------------------------------------------------------------------------
(* unwind *)

NoCatch == 0
Unresolved == -1

(* Mutant: the resume address, not the faulting one, is looked up. *)
CoversResumePc(t, f) == t.start <= f.pc /\ f.pc < t.end

Covers(t, f) == t.start <= f.err /\ f.err < t.end

First(S) == CHOOSE i \in S : \A j \in S : i <= j

(* The handler of one try item for e: handlers in order, an unresolvable  *)
(* catch type ends the search with an error, then catch_all.               *)
HandlerOf(t, e) ==
    LET hits == {i \in 1..Len(t.handlers) :
                   ~t.handlers[i].known \/ e \in t.handlers[i].types}
    IN  IF hits = {} THEN t.all
        ELSE LET h == t.handlers[First(hits)]
             IN  IF h.known THEN h.addr ELSE Unresolved

(* The first covering try item that has a handler decides. *)
CatchAddr(f, e) ==
    LET ts == prog[f.m].tries
        hits == {i \in 1..Len(ts) :
                   Covers(ts[i], f) /\ HandlerOf(ts[i], e) # NoCatch}
    IN  IF hits = {} THEN NoCatch ELSE HandlerOf(ts[First(hits)], e)

(* The exception looked up in the top frame: its own pending one first. *)
Looked == IF Last(frames).pending # None THEN Last(frames).pending ELSE carried

EndUnwind ==
    thrown' = None /\ carried' = None /\ origin' = <<>> /\ site' = 0

UnwindCatch ==
    /\ mode = "unwind" /\ frames # <<>>
    /\ CatchAddr(Last(frames), Looked) \notin {NoCatch, Unresolved}
    /\ stack' = WithFrame(stack,
                  [Last(frames) EXCEPT !.pc = CatchAddr(Last(frames), Looked),
                                       !.pending = Looked])
    /\ frames' = Front(frames)
    /\ mode' = "step"
    /\ EndUnwind
    /\ UNCHANGED <<prog, result, depth, budget, clinit>>

(* The frame has no handler: it is dropped and the exception carried on.   *)
(* Its own pending exception was taken; the carried one is overwritten.    *)
UnwindPop ==
    /\ mode = "unwind" /\ frames # <<>>
    /\ CatchAddr(Last(frames), Looked) = NoCatch
    /\ carried' = Looked
    /\ frames' = Front(frames)
    /\ UNCHANGED <<prog, stack, mode, result, depth, budget, clinit, thrown,
                   origin, site>>

(* ensure_class_by_type failed on a catch type. *)
UnwindFail ==
    /\ mode = "unwind" /\ frames # <<>>
    /\ CatchAddr(Last(frames), Looked) = Unresolved
    /\ FinishRun(stack, Fatal)
    /\ EndUnwind
    /\ UNCHANGED <<prog, budget, clinit>>

(* The exception escapes this activation: the original one is reported. *)
UnwindOut ==
    /\ mode = "unwind" /\ frames = <<>>
    /\ FinishRun(stack, Uncaught(thrown))
    /\ EndUnwind
    /\ UNCHANGED <<prog, budget, clinit>>

-----------------------------------------------------------------------------
(* Native functions and results *)

(* call_target: a native is called directly, bytecode through run. *)
NativeCall(m) ==
    /\ mode = "native"
    /\ Top.calls < MaxCalls /\ Len(stack) < MaxStack
    /\ LET s == [stack EXCEPT ![Len(stack)].calls = @ + 1]
       IN  IF m \in NativeBacked
           THEN /\ stack' = Append(s, NativeEntry)
                /\ UNCHANGED <<frames, mode, result, depth>>
           ELSE m \in Guest /\ EnterRun(s, m)
    /\ UNCHANGED <<prog, budget, clinit, excVars>>

(* The native is done: a value, an exception of its own or a fatal error. *)
NativeReturn ==
    /\ mode = "native"
    /\ \E r \in {Ok, Fatal} \cup {Uncaught(e) : e \in Exc} :
         ReturnTo(Front(stack), r)
    /\ UNCHANGED <<prog, frames, depth, budget, clinit, excVars>>

(* A nested call comes back to a native.  nat_fatal passes every error on; *)
(* some natives (rx_materialize) keep an exception and go on.              *)
ToNative ==
    /\ mode = "return" /\ stack # <<>> /\ Top.at = "native"
    /\ \/ /\ result.kind # "fatal"
          /\ mode' = "native" /\ result' = Pending
          /\ UNCHANGED stack
       \/ /\ result.kind # "ok"
          /\ ReturnTo(Front(stack), result)
    /\ UNCHANGED <<prog, frames, depth, budget, clinit, excVars>>

(* A native called by an invoke instruction comes back to the loop. *)
ToLoop ==
    /\ mode = "return" /\ stack # <<>> /\ Top.at = "run"
    /\ CASE result.kind = "ok" ->
              /\ mode' = "step" /\ result' = Pending
              /\ UNCHANGED <<frames, stack, depth, excVars>>
         [] result.kind = "uncaught" ->
              Throw(Top.f, result.e, Top.f.pc - 1) /\ UNCHANGED stack
         [] OTHER -> FinishRun(stack, Fatal) /\ UNCHANGED excVars
    /\ UNCHANGED <<prog, budget, clinit>>

(* Mutant: a failed initialiser leaves its class in progress. *)
AfterClinitKept(c) ==
    [clinit EXCEPT ![c] = IF result.kind = "ok" THEN 2 ELSE 1]

(* The second half of ensure_class_initialized. *)
AfterClinit(c) == [clinit EXCEPT ![c] = IF result.kind = "ok" THEN 2 ELSE 0]

(* On success the instruction that triggered the initialisation goes on;   *)
(* on failure its step is an Err, which no guest handler of that           *)
(* activation sees.                                                        *)
ToClinit ==
    /\ mode = "return" /\ stack # <<>> /\ Top.at = "clinit"
    /\ clinit' = AfterClinit(Top.c)
    /\ LET s == Front(stack)
           f == Last(s).f
           n == prog[f.m].insns[f.pc]
       IN  IF result.kind # "ok" THEN FinishRun(s, result)
           ELSE IF n.op = "invokeStatic" THEN Call(s, f, n.m)
           ELSE /\ stack' = WithFrame(s, [f EXCEPT !.pc = @ + 1])
                /\ mode' = "step" /\ result' = Pending
                /\ UNCHANGED <<frames, depth>>
    /\ UNCHANGED <<prog, budget, excVars>>

-----------------------------------------------------------------------------
Internal ==
    \/ HostReturn \/ Step \/ OutOfBudget
    \/ UnwindCatch \/ UnwindPop \/ UnwindFail \/ UnwindOut
    \/ \E m \in Method : NativeCall(m)
    \/ NativeReturn \/ ToNative \/ ToLoop \/ ToClinit

Next == (\E m \in Method : HostCall(m)) \/ Internal

Spec == Init /\ [][Next]_vars
FairSpec == Spec /\ WF_vars(Internal)
-----------------------------------------------------------------------------
(* Properties *)

Entry == [at : {"run", "native", "clinit"}, saved : Seq(Frame),
          f : Frame \cup {None}, c : Class \cup {None}, calls : 0..MaxCalls]

(* Every variable has the shape its Rust counterpart has; the counters the *)
(* code keeps in unsigned integers never go below zero.                    *)
TypeOK ==
    /\ prog \in Programs
    /\ frames \in Seq(Frame) /\ origin \in Seq(Frame)
    /\ stack \in Seq(Entry)
    /\ mode \in {"idle", "step", "unwind", "native", "return"}
    /\ result \in Result
    /\ depth \in Nat /\ budget \in Nat
    /\ clinit \in [Class -> 0..2]
    /\ thrown \in Exc \cup {None} /\ carried \in Exc \cup {None}
    /\ site \in Nat

EntriesOf(s, kind) == {i \in 1..Len(s) : s[i].at = kind}
Entries(kind) == EntriesOf(stack, kind)

(* Between host calls the frame stack is empty, which is what makes        *)
(* Context::call collect garbage, and no class is left half initialised:   *)
(* errors of every kind, from any nesting, restore both.                   *)
IdleIsClean ==
    mode = "idle" => /\ frames = <<>>
                     /\ \A c \in Class : clinit[c] # 1

(* A class is in state 1 exactly while one run of its <clinit> is on the   *)
(* Rust stack: ensure_class_initialized neither nests an initialiser in    *)
(* itself nor forgets one that failed.                                     *)
InitializingIsActive ==
    \A c \in Class :
        Cardinality({i \in Entries("clinit") : stack[i].c = c})
          = IF clinit[c] = 1 THEN 1 ELSE 0

(* recursion_depth bounds the nesting: the activations of run that hold a  *)
(* Rust stack frame never exceed the counter, nor the counter its limit.   *)
EntriesWithinLimit ==
    /\ Cardinality(Entries("run")) <= depth
    /\ depth <= DepthLimit

(* The compiler kept move-exception at the start of every handler. *)
HandlersTakeException ==
    \A m \in Guest : \A i \in 1..Len(prog[m].tries) :
        LET t == prog[m].tries[i]
            takes(a) == a \in 1..Len(prog[m].insns)
                        /\ prog[m].insns[a].op = "moveException"
        IN  /\ t.all # 0 => takes(t.all)
            /\ \A j \in 1..Len(t.handlers) : takes(t.handlers[j].addr)

(* The handlers of method m that apply to e at instruction a, as positions *)
(* in the order the dex format gives them: by try item, then by handler,   *)
(* the catch-all of an item last.                                          *)
Applicable(m, a, e) ==
    {p \in UNION {{i} \X (1..(Len(prog[m].tries[i].handlers) + 1)) :
                      i \in 1..Len(prog[m].tries)} :
       LET t == prog[m].tries[p[1]]
       IN  /\ a \in t.start..(t.end - 1)
           /\ IF p[2] \in 1..Len(t.handlers)
              THEN ~t.handlers[p[2]].known \/ e \in t.handlers[p[2]].types
              ELSE t.all # 0}

(* The instruction frame i of origin was executing: an invoke, in all but  *)
(* the innermost.                                                          *)
Executing(i) == IF i = Len(origin) THEN site ELSE origin[i].pc - 1

(* The frames of origin that catch the thrown exception, the innermost of  *)
(* them, and the first of a set of handlers.                               *)
HandlersIn(i) == Applicable(origin[i].m, Executing(i), thrown)
Catching == {i \in 1..Len(origin) : HandlersIn(i) # {}}
Innermost(S) == CHOOSE i \in S : \A j \in S : j <= i
Before(p, q) == p[1] < q[1] \/ (p[1] = q[1] /\ p[2] <= q[2])
FirstOf(S) == CHOOSE p \in S : \A q \in S : Before(p, q)

(* The handler at position p runs in frame i. *)
Handled(i, p) ==
    LET t == prog[origin[i].m].tries[p[1]]
        all == p[2] > Len(t.handlers)
    IN  IF ~all /\ ~t.handlers[p[2]].known
        THEN mode' = "return" /\ result' = Fatal
        ELSE /\ mode' = "step"
             /\ frames' = SubSeq(origin, 1, i - 1)
             /\ Last(stack').f =
                  [origin[i] EXCEPT !.pending = thrown,
                     !.pc = IF all THEN t.all ELSE t.handlers[p[2]].addr]

(* What the end of an unwinding must be, from the frames at the throw: the *)
(* innermost frame that catches the thrown exception runs its first        *)
(* applicable handler with that exception and its callers untouched;       *)
(* without one, the activation ends with exactly that exception uncaught.  *)
Unwound ==
    IF Catching = {} THEN mode' = "return" /\ result' = Uncaught(thrown)
    ELSE LET i == Innermost(Catching) IN Handled(i, FirstOf(HandlersIn(i)))

(* unwind delivers the thrown exception to the nearest enclosing handler,  *)
(* in programs whose handlers all begin with move-exception.               *)
UnwindSound ==
    [][mode = "unwind" /\ mode' # "unwind" /\ HandlersTakeException => Unwound]_vars

(* The comment on unwind without that proviso: "Finds the nearest          *)
(* enclosing handler for the top frame's pending_exc and jumps there."     *)
NearestHandler == [][mode = "unwind" /\ mode' # "unwind" => Unwound]_vars

(* The comment on recursion_depth: "each entry = one Rust stack level". *)
DepthIsEntries == mode = "idle" => depth = 0

(* The budget is an infinite-loop guard: whatever the guest program does,  *)
(* every host call comes back, provided the host's natives do.             *)
EveryCallReturns == (mode # "idle") ~> (mode = "idle")
=============================================================================
