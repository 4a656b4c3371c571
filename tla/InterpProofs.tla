---------------------------- MODULE InterpProofs ----------------------------
(***************************************************************************)
(* Proofs about Interp, for every guest program, every depth limit and     *)
(* budget, every set of classes and every behaviour of the natives: the    *)
(* recursion counter bounds the nesting and never underflows, class        *)
(* initialisation is neither nested nor forgotten, a host call leaves      *)
(* nothing behind, and unwinding finds the handler the dex format names.   *)
(***************************************************************************)
EXTENDS Interp, InductionFacts

-----------------------------------------------------------------------------
(* The inductive invariant, as a relation between values *)

HasClinit(s, c) == \E i \in 1..Len(s) : s[i].at = "clinit" /\ s[i].c = c

NoRun(s) == \A i \in 1..Len(s) : s[i].at # "run"

(* A run entry that waits for a nested activation has fetched an           *)
(* instruction; an initialiser runs on behalf of a run entry; a class has  *)
(* one initialiser; the outermost run found no frames.                     *)
GoodStack(s) ==
    /\ s \in Seq(Entry)
    /\ \A i \in 1..Len(s) :
         /\ s[i].at = "run" => s[i].f \in Frame
         /\ s[i].at = "run" /\ i < Len(s) => s[i].f.pc >= 1
         /\ s[i].at = "clinit" => i > 1 /\ s[i - 1].at = "run" /\ s[i].c \in Class
         /\ s[i].at = "run" /\ (\A j \in 1..(i - 1) : s[j].at # "run")
              => s[i].saved = <<>>
    /\ \A i, j \in 1..Len(s) :
         s[i].at = "clinit" /\ s[j].at = "clinit" /\ s[i].c = s[j].c => i = j

(* What the top of the Rust stack is while it does what mode says. *)
ModeOK(s, md) ==
    /\ md \in {"idle", "step", "unwind", "native", "return"}
    /\ md = "idle" => s = <<>>
    /\ md \in {"step", "unwind"} => s # <<>> /\ Last(s).at = "run"
    /\ md = "native" => s # <<>> /\ Last(s).at = "native"
    /\ md = "return" /\ s # <<>> /\ Last(s).at = "run" => Last(s).f.pc >= 1

(* Frames belong to a run. *)
FramesOK(s, fs) == fs \in Seq(Frame) /\ (NoRun(s) => fs = <<>>)

CountOK(s, d) ==
    d \in Nat /\ Cardinality(EntriesOf(s, "run")) <= d /\ d <= DepthLimit

(* State 1 is the initialisers on the stack. *)
ClinitOK(s, cl) ==
    cl \in [Class -> 0..2] /\ \A c \in Class : cl[c] = 1 <=> HasClinit(s, c)

Core(s, md, fs, d, cl) ==
    GoodStack(s) /\ ModeOK(s, md) /\ FramesOK(s, fs) /\ CountOK(s, d) /\ ClinitOK(s, cl)

(* The variables that only have a type. *)
ExcOK ==
    /\ thrown \in Exc \cup {None} /\ carried \in Exc \cup {None}
    /\ origin \in Seq(Frame) /\ site \in Nat
Plain == prog \in Programs /\ result \in Result /\ budget \in Nat /\ ExcOK

InterpInv == Plain /\ Core(stack, mode, frames, depth, clinit)

-----------------------------------------------------------------------------
(* Pushing, popping and replacing the top of the Rust stack *)

LEMMA RunsFinite ==
    ASSUME NEW s \in Seq(Entry)
    PROVE  /\ IsFiniteSet(EntriesOf(s, "run"))
           /\ Cardinality(EntriesOf(s, "run")) \in Nat
  <1>1. IsFiniteSet(1..Len(s))
    BY FS_Interval
  <1>2. EntriesOf(s, "run") \in SUBSET (1..Len(s))
    BY DEF EntriesOf
  <1>3. IsFiniteSet(EntriesOf(s, "run"))
    BY <1>1, <1>2, FS_Subset
  <1> QED
    BY <1>3, FS_CardinalityType

LEMMA PushCount ==
    ASSUME NEW s \in Seq(Entry), NEW x \in Entry
    PROVE  Cardinality(EntriesOf(Append(s, x), "run")) =
             Cardinality(EntriesOf(s, "run")) + (IF x.at = "run" THEN 1 ELSE 0)
  <1> DEFINE n == Len(s) + 1
  <1>1. /\ Len(Append(s, x)) = n /\ Append(s, x)[n] = x /\ n \notin 1..Len(s)
        /\ \A i \in 1..Len(s) : Append(s, x)[i] = s[i]
    OBVIOUS
  <1>2. CASE x.at = "run"
    <2>1. EntriesOf(Append(s, x), "run") = EntriesOf(s, "run") \cup {n}
      BY <1>1, <1>2 DEF EntriesOf
    <2>2. n \notin EntriesOf(s, "run")
      BY <1>1 DEF EntriesOf
    <2> QED
      BY <1>2, <2>1, <2>2, RunsFinite, FS_AddElement
  <1>3. CASE x.at # "run"
    <2>1. EntriesOf(Append(s, x), "run") = EntriesOf(s, "run")
      BY <1>1, <1>3 DEF EntriesOf
    <2> QED
      BY <1>3, <2>1, RunsFinite
  <1> QED
    BY <1>2, <1>3

LEMMA PopFacts ==
    ASSUME NEW S, NEW s \in Seq(S), s # <<>>
    PROVE  /\ Len(s) \in Nat \ {0} /\ Front(s) \in Seq(S) /\ Last(s) \in S
           /\ Len(Front(s)) = Len(s) - 1
           /\ \A i \in 1..(Len(s) - 1) : Front(s)[i] = s[i]
           /\ s = Append(Front(s), Last(s))
  <1>1. Len(s) \in Nat \ {0} /\ Last(s) \in S
    BY DEF Last
  <1>2. Front(s) = [i \in 1..(Len(s) - 1) |-> s[i]]
    BY <1>1 DEF Front
  <1>3. /\ Front(s) \in Seq(S) /\ Len(Front(s)) = Len(s) - 1
        /\ \A i \in 1..(Len(s) - 1) : Front(s)[i] = s[i]
    BY <1>1, <1>2
  <1>4. s = Append(Front(s), Last(s))
    BY <1>1, <1>3 DEF Last
  <1> QED
    BY <1>1, <1>3, <1>4

LEMMA PopCount ==
    ASSUME NEW s \in Seq(Entry), s # <<>>
    PROVE  Cardinality(EntriesOf(s, "run")) =
             Cardinality(EntriesOf(Front(s), "run")) + (IF Last(s).at = "run" THEN 1 ELSE 0)
  <1>1. s = Append(Front(s), Last(s)) /\ Front(s) \in Seq(Entry) /\ Last(s) \in Entry
    BY PopFacts
  <1> QED
    BY <1>1, PushCount

(* Pushing an entry. *)
LEMMA Push ==
    ASSUME NEW s, GoodStack(s), NEW x \in Entry,
           s # <<>> /\ Last(s).at = "run" => Last(s).f.pc >= 1,
           x.at = "run" => x.f \in Frame /\ (NoRun(s) => x.saved = <<>>),
           x.at = "clinit" => /\ s # <<>> /\ Last(s).at = "run"
                              /\ x.c \in Class /\ ~HasClinit(s, x.c)
    PROVE  /\ GoodStack(Append(s, x)) /\ Append(s, x) # <<>> /\ Last(Append(s, x)) = x
           /\ NoRun(Append(s, x)) <=> NoRun(s) /\ x.at # "run"
           /\ \A c : HasClinit(Append(s, x), c) <=>
                      HasClinit(s, c) \/ (x.at = "clinit" /\ x.c = c)
  <1> DEFINE n == Len(s) + 1
             t == Append(s, x)
  <1>1. s \in Seq(Entry) /\ Len(s) \in Nat
    BY DEF GoodStack
  <1>2. /\ t \in Seq(Entry) /\ Len(t) = n /\ t[n] = x /\ n \in Nat /\ t # <<>>
        /\ \A i \in 1..Len(s) : t[i] = s[i]
    BY <1>1
  <1>3. \A i \in 1..n : i \in 1..Len(s) \/ i = n
    BY <1>1
  <1> HIDE DEF t
  <1>4. Last(t) = x
    BY <1>2 DEF Last
  <1>5. NoRun(t) <=> NoRun(s) /\ x.at # "run"
    BY <1>1, <1>2, <1>3 DEF NoRun
  <1>6. ASSUME NEW c PROVE HasClinit(t, c) <=> HasClinit(s, c) \/ (x.at = "clinit" /\ x.c = c)
    BY <1>1, <1>2, <1>3 DEF HasClinit
  <1>7. ASSUME NEW i \in 1..Len(t)
        PROVE  /\ t[i].at = "run" => t[i].f \in Frame
               /\ t[i].at = "run" /\ i < Len(t) => t[i].f.pc >= 1
               /\ t[i].at = "clinit" => i > 1 /\ t[i - 1].at = "run" /\ t[i].c \in Class
               /\ t[i].at = "run" /\ (\A j \in 1..(i - 1) : t[j].at # "run")
                    => t[i].saved = <<>>
    <2>1. CASE i = n
      <3>1. \A j \in 1..(i - 1) : t[j] = s[j]
        BY <1>1, <1>2, <2>1
      <3>2. s # <<>> => Len(s) > 0 /\ t[n - 1] = Last(s)
        BY <1>1, <1>2 DEF Last
      <3>3. (\A j \in 1..(i - 1) : t[j].at # "run") => NoRun(s)
        BY <1>1, <2>1, <3>1 DEF NoRun
      <3> QED
        BY <1>1, <1>2, <2>1, <3>2, <3>3
    <2>2. CASE i # n
      <3>1. i \in 1..Len(s) /\ t[i] = s[i]
        BY <1>2, <1>3, <2>2
      <3>2. \A j \in 1..(i - 1) : t[j] = s[j]
        BY <1>1, <1>2, <3>1
      <3>3. i > 1 => t[i - 1] = s[i - 1]
        BY <1>1, <1>2, <3>1
      <3>4. i = Len(s) => s # <<>> /\ Last(s) = s[i]
        BY <1>1, <3>1 DEF Last
      <3>5. i < Len(s) \/ i = Len(s)
        BY <1>1, <3>1
      <3>6. t[i].at = "run" => t[i].f.pc >= 1
        BY <3>1, <3>4, <3>5 DEF GoodStack
      <3> QED
        BY <3>1, <3>2, <3>3, <3>6 DEF GoodStack
    <2> QED
      BY <2>1, <2>2
  <1>8. ASSUME NEW i \in 1..Len(t), NEW j \in 1..Len(t),
               t[i].at = "clinit", t[j].at = "clinit", t[i].c = t[j].c
        PROVE  i = j
    BY <1>1, <1>2, <1>3, <1>8 DEF GoodStack, HasClinit
  <1>9. GoodStack(t)
    BY <1>2, <1>7, <1>8 DEF GoodStack
  <1> QED
    BY <1>2, <1>4, <1>5, <1>6, <1>9 DEF t

(* Popping the top entry. *)
LEMMA Pop ==
    ASSUME NEW s, GoodStack(s), s # <<>>
    PROVE  /\ GoodStack(Front(s)) /\ Last(s) \in Entry
           /\ Last(s).at = "run" => Last(s).f \in Frame
           /\ Front(s) # <<>> /\ Last(Front(s)).at = "run" => Last(Front(s)).f.pc >= 1
           /\ Last(s).at = "run" /\ NoRun(Front(s)) => Last(s).saved = <<>>
           /\ Last(s).at # "run" /\ NoRun(Front(s)) => NoRun(s)
           /\ Last(s).at # "clinit" => \A c : HasClinit(Front(s), c) <=> HasClinit(s, c)
           /\ Last(s).at = "clinit" =>
                /\ Front(s) # <<>> /\ Last(Front(s)).at = "run" /\ Last(s).c \in Class
                /\ HasClinit(s, Last(s).c)
                /\ \A c : HasClinit(Front(s), c) <=> HasClinit(s, c) /\ c # Last(s).c
  <1> DEFINE n == Len(s)
             t == Front(s)
  <1>1. s \in Seq(Entry)
    BY DEF GoodStack
  <1>2. /\ n \in Nat \ {0} /\ t \in Seq(Entry) /\ Last(s) \in Entry
        /\ Len(t) = n - 1 /\ \A i \in 1..(n - 1) : t[i] = s[i]
    BY <1>1, PopFacts
  <1>3. Last(s) = s[n] /\ n \in 1..n /\ \A i \in 1..n : i \in 1..(n - 1) \/ i = n
    BY <1>2 DEF Last
  <1>4. t # <<>> => n - 1 \in 1..(n - 1) /\ Last(t) = s[n - 1]
    <2>1. t # <<>> => n - 1 \in 1..(n - 1)
      BY <1>2
    <2> HIDE DEF t
    <2> QED
      BY <1>2, <2>1 DEF Last
  <1>5. n > 1 => t # <<>>
    BY <1>2
  <1> HIDE DEF t
  <1>6. GoodStack(t)
    <2>1. ASSUME NEW i \in 1..Len(t)
          PROVE  /\ t[i].at = "run" => t[i].f \in Frame
                 /\ t[i].at = "run" /\ i < Len(t) => t[i].f.pc >= 1
                 /\ t[i].at = "clinit" => i > 1 /\ t[i - 1].at = "run" /\ t[i].c \in Class
                 /\ t[i].at = "run" /\ (\A j \in 1..(i - 1) : t[j].at # "run")
                      => t[i].saved = <<>>
      <3>1. i \in 1..(n - 1) /\ i \in 1..n /\ t[i] = s[i] /\ i < n
        BY <1>2
      <3>2. \A j \in 1..(i - 1) : t[j] = s[j]
        BY <1>2, <3>1
      <3>3. i > 1 => t[i - 1] = s[i - 1]
        BY <1>2, <3>1
      <3> QED
        BY <3>1, <3>2, <3>3 DEF GoodStack
    <2>2. \A i, j \in 1..Len(t) :
             t[i].at = "clinit" /\ t[j].at = "clinit" /\ t[i].c = t[j].c => i = j
      <3>1. \A i \in 1..Len(t) : i \in 1..n /\ t[i] = s[i]
        BY <1>2
      <3> QED
        BY <3>1 DEF GoodStack
    <2> QED
      BY <1>2, <2>1, <2>2 DEF GoodStack
  <1>7. Last(s).at = "run" => Last(s).f \in Frame
    BY <1>3 DEF GoodStack
  <1>8. t # <<>> /\ Last(t).at = "run" => Last(t).f.pc >= 1
    <2>1. \A i \in 1..(n - 1) : i \in 1..n /\ i < n
      BY <1>2
    <2> QED
      BY <1>4, <2>1 DEF GoodStack
  <1>9. Last(s).at = "run" /\ NoRun(t) => Last(s).saved = <<>>
    <2>1. NoRun(t) => \A j \in 1..(n - 1) : s[j].at # "run"
      BY <1>2 DEF NoRun
    <2> QED
      BY <1>3, <2>1 DEF GoodStack
  <1>10. Last(s).at # "run" /\ NoRun(t) => NoRun(s)
    BY <1>2, <1>3 DEF NoRun
  <1>11. Last(s).at # "clinit" => \A c : HasClinit(t, c) <=> HasClinit(s, c)
    BY <1>2, <1>3 DEF HasClinit
  <1>12. ASSUME Last(s).at = "clinit"
         PROVE  /\ t # <<>> /\ Last(t).at = "run" /\ Last(s).c \in Class
                /\ HasClinit(s, Last(s).c)
                /\ \A c : HasClinit(t, c) <=> HasClinit(s, c) /\ c # Last(s).c
    <2>1. n > 1 /\ s[n - 1].at = "run" /\ s[n].c \in Class
      BY <1>3, <1>12 DEF GoodStack
    <2>2. t # <<>> /\ Last(t).at = "run"
      BY <1>4, <1>5, <2>1
    <2>3. HasClinit(s, Last(s).c)
      BY <1>3, <1>12 DEF HasClinit
    <2>4. ASSUME NEW c, HasClinit(t, c)
          PROVE  HasClinit(s, c) /\ c # Last(s).c
      <3>1. PICK i \in 1..Len(t) : t[i].at = "clinit" /\ t[i].c = c
        BY <2>4 DEF HasClinit
      <3>2. i \in 1..n /\ i # n /\ t[i] = s[i]
        BY <1>2
      <3> QED
        BY <1>3, <1>12, <3>1, <3>2 DEF GoodStack, HasClinit
    <2>5. ASSUME NEW c, HasClinit(s, c), c # Last(s).c
          PROVE  HasClinit(t, c)
      BY <1>2, <1>3, <2>5 DEF HasClinit
    <2> QED
      BY <1>3, <2>1, <2>2, <2>3, <2>4, <2>5
  <1> QED
    BY <1>2, <1>6, <1>7, <1>8, <1>9, <1>10, <1>11, <1>12 DEF t

(* Replacing the top entry by one of the same kind. *)
LEMMA Replace ==
    ASSUME NEW s, GoodStack(s), s # <<>>, NEW x \in Entry,
           x.at = Last(s).at, x.saved = Last(s).saved, x.c = Last(s).c,
           x.at = "run" => x.f \in Frame
    PROVE  LET t == [s EXCEPT ![Len(s)] = x]
           IN  /\ GoodStack(t) /\ t # <<>> /\ Last(t) = x
               /\ NoRun(t) <=> NoRun(s)
               /\ \A c : HasClinit(t, c) <=> HasClinit(s, c)
               /\ EntriesOf(t, "run") = EntriesOf(s, "run")
  <1> DEFINE n == Len(s)
             t == [s EXCEPT ![n] = x]
  <1>1. s \in Seq(Entry) /\ n \in Nat \ {0} /\ Last(s) = s[n]
    BY DEF GoodStack, Last
  <1>2. /\ t \in Seq(Entry) /\ Len(t) = n /\ t[n] = x
        /\ \A i \in 1..n : i # n => t[i] = s[i]
    BY <1>1
  <1> HIDE DEF t
  <1>3. t # <<>> /\ Last(t) = x
    BY <1>1, <1>2 DEF Last
  <1>4. \A i \in 1..n : t[i].at = s[i].at /\ t[i].saved = s[i].saved /\ t[i].c = s[i].c
    BY <1>1, <1>2
  <1>5. EntriesOf(t, "run") = EntriesOf(s, "run")
    BY <1>2, <1>4 DEF EntriesOf
  <1>6. (NoRun(t) <=> NoRun(s)) /\ \A c : HasClinit(t, c) <=> HasClinit(s, c)
    BY <1>2, <1>4 DEF NoRun, HasClinit
  <1>7. ASSUME NEW i \in 1..n
        PROVE  /\ t[i].at = "run" => t[i].f \in Frame
               /\ t[i].at = "run" /\ i < n => t[i].f.pc >= 1
               /\ t[i].at = "clinit" => i > 1 /\ t[i - 1].at = "run" /\ t[i].c \in Class
               /\ t[i].at = "run" /\ (\A j \in 1..(i - 1) : t[j].at # "run")
                    => t[i].saved = <<>>
    <2>1. \A j \in 1..(i - 1) : t[j].at = s[j].at
      BY <1>1, <1>4
    <2>2. i > 1 => t[i - 1].at = s[i - 1].at
      BY <1>1, <1>4
    <2>3. i # n => t[i] = s[i]
      BY <1>2
    <2>4. i < n => i # n
      BY <1>1
    <2>5. t[i].at = "run" => t[i].f \in Frame
      BY <1>2, <2>3 DEF GoodStack
    <2> QED
      BY <1>4, <2>1, <2>2, <2>3, <2>4, <2>5 DEF GoodStack
  <1>8. GoodStack(t)
    BY <1>2, <1>4, <1>7 DEF GoodStack
  <1> QED
    BY <1>3, <1>5, <1>6, <1>8 DEF t

LEMMA ReplaceFrame ==
    ASSUME NEW s, GoodStack(s), s # <<>>, Last(s).at = "run", NEW f \in Frame
    PROVE  /\ GoodStack(WithFrame(s, f)) /\ WithFrame(s, f) # <<>>
           /\ Last(WithFrame(s, f)).at = "run" /\ Last(WithFrame(s, f)).f = f
           /\ NoRun(WithFrame(s, f)) <=> NoRun(s)
           /\ \A c : HasClinit(WithFrame(s, f), c) <=> HasClinit(s, c)
           /\ EntriesOf(WithFrame(s, f), "run") = EntriesOf(s, "run")
  <1> DEFINE x == [Last(s) EXCEPT !.f = f]
  <1>1. s \in Seq(Entry) /\ Len(s) \in Nat \ {0} /\ Last(s) \in Entry /\ Last(s) = s[Len(s)]
    BY DEF GoodStack, Last
  <1>2. /\ x \in Entry /\ x.at = Last(s).at /\ x.saved = Last(s).saved
        /\ x.c = Last(s).c /\ x.f = f
    BY <1>1 DEF Entry
  <1>3. WithFrame(s, f) = [s EXCEPT ![Len(s)] = x]
    BY <1>1 DEF WithFrame
  <1> HIDE DEF x
  <1> QED
    BY <1>2, <1>3, Replace, ZenonT(60)

-----------------------------------------------------------------------------
(* The moves all actions are made of *)

(* The stack keeps its kinds and its initialisers: only the top changes.   *)
LEMMA Stay ==
    ASSUME NEW s, NEW t, NEW fs, NEW gs, NEW d, NEW cl, NEW md,
           GoodStack(t), FramesOK(s, fs), CountOK(s, d), ClinitOK(s, cl),
           t # <<>>, Last(t).at = "run", md \in {"step", "unwind"}, gs \in Seq(Frame),
           NoRun(t) <=> NoRun(s),
           \A c : HasClinit(t, c) <=> HasClinit(s, c),
           EntriesOf(t, "run") = EntriesOf(s, "run")
    PROVE  Core(t, md, gs, d, cl)
  <1>1. ~NoRun(t)
    <2>1. t \in Seq(Entry)
      BY DEF GoodStack
    <2>2. Len(t) \in 1..Len(t)
      BY <2>1
    <2> QED
      BY <2>2 DEF NoRun, Last
  <1>2. FramesOK(t, gs)
    BY <1>1 DEF FramesOK
  <1>3. CountOK(t, d) /\ ClinitOK(t, cl)
    BY DEF CountOK, ClinitOK
  <1>4. ModeOK(t, md)
    BY DEF ModeOK
  <1> QED
    BY <1>2, <1>3, <1>4 DEF Core

(* interpret::run up to the loop, from a stack whose top is no run. *)
LEMMA EnterRunCore ==
    ASSUME NEW s, NEW m, NEW cl,
           GoodStack(s), FramesOK(s, frames), CountOK(s, depth), ClinitOK(s, cl),
           s = <<>> \/ Last(s).at # "run", EnterRun(s, m)
    PROVE  Core(stack', mode', frames', depth', cl) /\ result' \in Result
  <1>1. CASE ReturnTo(s, Fatal) /\ UNCHANGED frames /\ depth' = depth
    <2>1. ModeOK(stack', mode') /\ stack' = s
      BY <1>1 DEF ReturnTo, ModeOK
    <2> QED
      BY <1>1, <2>1 DEF Core, ReturnTo, Result, Fatal
  <1>2. CASE ReturnTo(s, Fatal) /\ UNCHANGED frames /\ depth' = depth + 1 /\ depth < DepthLimit
    <2>1. ModeOK(stack', mode') /\ stack' = s
      BY <1>2 DEF ReturnTo, ModeOK
    <2>2. s \in Seq(Entry)
      BY DEF GoodStack
    <2>3. CountOK(s, depth')
      BY <1>2, <2>2, RunsFinite, InterpAssumption DEF CountOK
    <2> QED
      BY <1>2, <2>1, <2>3 DEF Core, ReturnTo, Result, Fatal
  <1>3. CASE /\ depth < DepthLimit /\ depth' = depth + 1
             /\ stack' = Append(s, NativeEntry) /\ mode' = "native" /\ result' = Pending
             /\ UNCHANGED frames
    <2>1. NativeEntry \in Entry /\ NativeEntry.at = "native"
      BY InterpAssumption DEF NativeEntry, Entry
    <2>2. /\ GoodStack(stack') /\ stack' # <<>> /\ Last(stack').at = "native"
          /\ NoRun(stack') <=> NoRun(s)
          /\ \A c : HasClinit(stack', c) <=> HasClinit(s, c)
      BY <1>3, <2>1, Push
    <2>3. s \in Seq(Entry) /\ Cardinality(EntriesOf(s, "run")) \in Nat
      BY RunsFinite DEF GoodStack
    <2>4. Cardinality(EntriesOf(stack', "run")) = Cardinality(EntriesOf(s, "run"))
      BY <1>3, <2>1, <2>3, PushCount
    <2>5. CountOK(stack', depth')
      BY <1>3, <2>3, <2>4, InterpAssumption DEF CountOK
    <2>6. ModeOK(stack', mode') /\ FramesOK(stack', frames') /\ ClinitOK(stack', cl)
      BY <1>3, <2>2 DEF ModeOK, FramesOK, ClinitOK
    <2> QED
      BY <1>3, <2>2, <2>5, <2>6 DEF Core, Result, Pending
  <1>4. CASE /\ m \in Guest /\ depth < DepthLimit /\ depth' = depth + 1
             /\ stack' = Append(s, RunEntry(m)) /\ mode' = "step" /\ result' = Pending
             /\ frames' = <<>>
    <2> DEFINE x == RunEntry(m)
    <2>1. /\ x \in Entry /\ x.at = "run" /\ x.f \in Frame /\ x.saved = frames
          /\ NoRun(s) => frames = <<>>
      BY <1>4, InterpAssumption DEF RunEntry, NewFrame, Entry, Frame, FramesOK
    <2> HIDE DEF x
    <2>2. /\ GoodStack(stack') /\ stack' # <<>> /\ Last(stack') = x
          /\ \A c : HasClinit(stack', c) <=> HasClinit(s, c)
      BY <1>4, <2>1, Push DEF x
    <2>3. s \in Seq(Entry) /\ Cardinality(EntriesOf(s, "run")) \in Nat
      BY RunsFinite DEF GoodStack
    <2>4. Cardinality(EntriesOf(stack', "run")) = Cardinality(EntriesOf(s, "run")) + 1
      BY <1>4, <2>1, <2>3, PushCount DEF x
    <2>5. CountOK(stack', depth')
      BY <1>4, <2>3, <2>4, InterpAssumption DEF CountOK
    <2>6. ModeOK(stack', mode') /\ FramesOK(stack', frames') /\ ClinitOK(stack', cl)
      BY <1>4, <2>1, <2>2 DEF ModeOK, FramesOK, ClinitOK
    <2> QED
      BY <1>4, <2>2, <2>5, <2>6 DEF Core, Result, Pending
  <1>5. depth \in Nat /\ DepthLimit \in Nat
    BY InterpAssumption DEF CountOK
  <1> QED
    BY <1>1, <1>2, <1>3, <1>4, <1>5 DEF EnterRun

(* interpret::run after the loop, by whichever path. *)
LEMMA FinishRunCore ==
    ASSUME NEW s, NEW r \in Result, NEW cl,
           GoodStack(s), CountOK(s, depth), ClinitOK(s, cl),
           s # <<>>, Last(s).at = "run", FinishRun(s, r)
    PROVE  Core(stack', mode', frames', depth', cl) /\ result' \in Result
  <1>1. /\ stack' = Front(s) /\ mode' = "return" /\ result' = r
        /\ frames' = Last(s).saved /\ depth' = depth - 1
    BY DEF FinishRun, ReturnTo
  <1>2. /\ GoodStack(Front(s)) /\ Last(s) \in Entry
        /\ Front(s) # <<>> /\ Last(Front(s)).at = "run" => Last(Front(s)).f.pc >= 1
        /\ NoRun(Front(s)) => Last(s).saved = <<>>
        /\ \A c : HasClinit(Front(s), c) <=> HasClinit(s, c)
    BY Pop
  <1>3. s \in Seq(Entry) /\ Front(s) \in Seq(Entry)
    BY <1>2 DEF GoodStack
  <1>4. /\ Cardinality(EntriesOf(s, "run")) = Cardinality(EntriesOf(Front(s), "run")) + 1
        /\ Cardinality(EntriesOf(Front(s), "run")) \in Nat
    BY <1>3, PopCount, RunsFinite
  <1>5. CountOK(Front(s), depth - 1)
    BY <1>4, InterpAssumption DEF CountOK
  <1>6. FramesOK(Front(s), Last(s).saved)
    BY <1>2 DEF FramesOK, Entry
  <1>7. ModeOK(Front(s), "return") /\ ClinitOK(Front(s), cl)
    BY <1>2 DEF ModeOK, ClinitOK
  <1> QED
    BY <1>1, <1>2, <1>5, <1>6, <1>7 DEF Core

(* Flow::Call. *)
LEMMA CallCore ==
    ASSUME NEW s, NEW f \in Frame, NEW m, NEW cl,
           GoodStack(s), FramesOK(s, frames), CountOK(s, depth), ClinitOK(s, cl),
           s # <<>>, Last(s).at = "run", Call(s, f, m)
    PROVE  Core(stack', mode', frames', depth', cl) /\ result' \in Result
  <1> DEFINE g == [f EXCEPT !.pc = @ + 1]
  <1>1. g \in Frame /\ g.pc >= 1 /\ frames \in Seq(Frame)
    BY DEF Frame, FramesOK
  <1>2. CASE FinishRun(s, Fatal)
    <2>1. Fatal \in Result
      BY DEF Fatal, Result
    <2> QED
      BY <1>2, <2>1, FinishRunCore
  <1>3. CASE /\ stack' = Append(WithFrame(s, g), NativeEntry)
             /\ mode' = "native" /\ result' = Pending
             /\ UNCHANGED <<frames, depth>>
    <2> DEFINE t == WithFrame(s, g)
    <2>1. NativeEntry \in Entry /\ NativeEntry.at = "native"
      BY InterpAssumption DEF NativeEntry, Entry
    <2>2. /\ GoodStack(t) /\ t # <<>> /\ Last(t).at = "run" /\ Last(t).f = g
          /\ NoRun(t) <=> NoRun(s)
          /\ \A c : HasClinit(t, c) <=> HasClinit(s, c)
          /\ EntriesOf(t, "run") = EntriesOf(s, "run")
      <3> HIDE DEF g
      <3> QED
        BY <1>1, ReplaceFrame
    <2> HIDE DEF t, g
    <2>3. /\ GoodStack(stack') /\ stack' # <<>> /\ Last(stack').at = "native"
          /\ NoRun(stack') <=> NoRun(s)
          /\ \A c : HasClinit(stack', c) <=> HasClinit(s, c)
      BY <1>1, <1>3, <2>1, <2>2, Push DEF t
    <2>4. Cardinality(EntriesOf(stack', "run")) = Cardinality(EntriesOf(s, "run"))
      <3>1. t \in Seq(Entry) /\ Cardinality(EntriesOf(t, "run")) \in Nat
        BY <2>2, RunsFinite DEF GoodStack
      <3> QED
        BY <1>3, <2>1, <2>2, <3>1, PushCount DEF t
    <2>5. CountOK(stack', depth')
      BY <1>3, <2>4 DEF CountOK
    <2>6. ModeOK(stack', mode') /\ FramesOK(stack', frames') /\ ClinitOK(stack', cl)
      BY <1>3, <2>3 DEF ModeOK, FramesOK, ClinitOK
    <2> QED
      BY <1>3, <2>3, <2>5, <2>6 DEF Core, Result, Pending
  <1>4. CASE /\ m \in Guest /\ frames' = Append(frames, g)
             /\ stack' = WithFrame(s, NewFrame(m))
             /\ mode' = "step" /\ result' = Pending /\ UNCHANGED depth
    <2>1. NewFrame(m) \in Frame /\ frames' \in Seq(Frame)
      BY <1>1, <1>4 DEF NewFrame, Frame
    <2>2. Core(stack', "step", frames', depth, cl)
      BY <1>4, <2>1, ReplaceFrame, Stay
    <2> QED
      BY <1>4, <2>2 DEF Result, Pending
  <1> QED
    BY <1>2, <1>3, <1>4 DEF Call

-----------------------------------------------------------------------------
(* Guest code *)

LEMMA ResultTypes ==
    Pending \in Result /\ Ok \in Result /\ Fatal \in Result
    /\ \A e \in Exc \cup {None} : Uncaught(e) \in Result
  BY DEF Pending, Ok, Fatal, Uncaught, Result

(* The running frame. *)
LEMMA TopRun ==
    ASSUME InterpInv, mode \in {"step", "unwind"}
    PROVE  /\ GoodStack(stack) /\ stack # <<>> /\ Last(stack).at = "run" /\ Top.f \in Frame
           /\ Top.f.pc \in Nat /\ Current \in Frame /\ Current.pc = Top.f.pc
           /\ prog \in [Guest -> Body] /\ Top.f.m \in Guest
  <1>1. GoodStack(stack) /\ stack # <<>> /\ Last(stack).at = "run"
    BY DEF InterpInv, Core, ModeOK
  <1>2. Top.f \in Frame
    BY <1>1, Pop DEF Top
  <1>3. prog \in [Guest -> Body]
    BY InterpAssumption DEF InterpInv, Plain
  <1> QED
    BY <1>1, <1>2, <1>3 DEF Current, Frame

(* The instruction at the pc. *)
LEMMA FetchType ==
    ASSUME InterpInv, mode = "step", InRange
    PROVE  /\ Fetch \in Insn /\ Top.f.pc >= 1
           /\ Fetch.op \in {"throw", "trap"} => Fetch.e \in Exc
           /\ Fetch.op \in {"invokeStatic", "sget"} => Fetch.c \in Class
  <1>1. prog \in Programs /\ prog \in [Guest -> Body] /\ Top.f.m \in Guest /\ Top.f.pc \in Nat
    BY TopRun DEF InterpInv, Plain
  <1>2. prog[Top.f.m].insns \in Seq(Insn)
    BY <1>1 DEF Body
  <1>3. Top.f.pc \in 1..Len(prog[Top.f.m].insns)
    BY DEF InRange
  <1>4. Fetch \in Insn /\ Top.f.pc >= 1
    BY <1>1, <1>2, <1>3 DEF Fetch
  <1>5. LET n == prog[Top.f.m].insns[Top.f.pc]
        IN  /\ n.op \in {"throw", "trap"} => n.e \in Exc
            /\ n.op \in {"invokeStatic", "sget"} => n.c \in Class
    BY <1>1, <1>3, InterpAssumption
  <1> QED
    BY <1>4, <1>5 DEF Fetch

(* Handlers are addresses. *)
LEMMA FirstInSet ==
    ASSUME NEW S \in SUBSET Nat, S # {}
    PROVE  First(S) \in S
  BY NatMin DEF First

LEMMA HandlerType ==
    ASSUME NEW t \in TryItem, NEW e
    PROVE  HandlerOf(t, e) \in Nat \cup {Unresolved}
  <1> DEFINE hits == {i \in 1..Len(t.handlers) :
                        ~t.handlers[i].known \/ e \in t.handlers[i].types}
  <1>1. t.handlers \in Seq(Handler) /\ t.all \in Nat
    BY DEF TryItem
  <1>2. hits \in SUBSET Nat
    BY <1>1
  <1>3. CASE hits = {}
    BY <1>1, <1>3 DEF HandlerOf
  <1>4. CASE hits # {}
    <2>1. First(hits) \in hits
      BY <1>2, <1>4, FirstInSet
    <2>2. First(hits) \in 1..Len(t.handlers)
      BY <2>1
    <2>3. t.handlers[First(hits)] \in Handler
      <3> HIDE DEF hits
      <3> QED
        BY <1>1, <2>2
    <2> QED
      BY <1>4, <2>3 DEF HandlerOf, Handler
  <1> QED
    BY <1>3, <1>4

LEMMA CatchType ==
    ASSUME prog \in [Guest -> Body], NEW f \in Frame, NEW e
    PROVE  CatchAddr(f, e) \in Nat \cup {Unresolved}
  <1> DEFINE ts == prog[f.m].tries
             hits == {i \in 1..Len(ts) :
                        Covers(ts[i], f) /\ HandlerOf(ts[i], e) # NoCatch}
  <1>1. ts \in Seq(TryItem)
    BY DEF Frame, Body
  <1>2. hits \in SUBSET Nat
    BY <1>1
  <1>3. CASE hits = {}
    BY <1>3 DEF CatchAddr, NoCatch
  <1>4. CASE hits # {}
    <2>1. First(hits) \in hits
      BY <1>2, <1>4, FirstInSet
    <2>2. First(hits) \in 1..Len(ts)
      BY <2>1
    <2>3. HandlerOf(ts[First(hits)], e) \in Nat \cup {Unresolved}
      <3> HIDE DEF hits, ts
      <3> QED
        BY <1>1, <2>2, HandlerType
    <2> QED
      BY <1>4, <2>3 DEF CatchAddr
  <1> QED
    BY <1>3, <1>4

-----------------------------------------------------------------------------
(* The actions *)

(* What an action must establish. *)
Kept == result' \in Result /\ ExcOK' /\ Core(stack', mode', frames', depth', clinit')

LEMMA GotoKept ==
    ASSUME InterpInv, mode = "step", NEW pc \in Nat, Goto(pc)
    PROVE  Kept
  <1>1. [Current EXCEPT !.pc = pc] \in Frame
    BY TopRun DEF Frame
  <1>2. Core(stack', "step", frames, depth, clinit)
    <2> DEFINE g == [Current EXCEPT !.pc = pc]
    <2>1. stack' = WithFrame(stack, g)
      BY DEF Goto
    <2>2. GoodStack(stack) /\ FramesOK(stack, frames) /\ CountOK(stack, depth)
          /\ ClinitOK(stack, clinit) /\ frames \in Seq(Frame)
      BY DEF InterpInv, Core, FramesOK
    <2> HIDE DEF g
    <2> QED
      BY <1>1, <2>1, <2>2, TopRun, ReplaceFrame, Stay DEF g
  <1> QED
    BY <1>2 DEF Goto, Kept, InterpInv, Plain, ExcOK, excVars

LEMMA ThrowKept ==
    ASSUME InterpInv, stack # <<>>, Last(stack).at = "run",
           NEW f \in Frame, NEW e \in Exc \cup {None}, NEW at \in Nat,
           Throw(f, e, at), UNCHANGED stack
    PROVE  Kept
  <1>1. [f EXCEPT !.pending = e] \in Frame
    BY DEF Frame
  <1>2. frames' \in Seq(Frame)
    BY <1>1 DEF Throw, InterpInv, Core, FramesOK
  <1>3. Core(stack', "unwind", frames', depth, clinit)
    <2>1. GoodStack(stack) /\ FramesOK(stack, frames) /\ CountOK(stack, depth)
          /\ ClinitOK(stack, clinit)
      BY DEF InterpInv, Core
    <2> QED
      BY <1>2, <2>1, Stay
  <1> QED
    BY <1>2, <1>3, ResultTypes DEF Throw, Kept, ExcOK

LEMMA InitClassKept ==
    ASSUME InterpInv, mode = "step", InRange, NEW c \in Class, NeedsInit(c), InitClass(c)
    PROVE  Kept
  <1> DEFINE t == WithFrame(stack, Current)
             x == ClinitEntry(c)
             s == Append(t, x)
             cl == [clinit EXCEPT ![c] = 1]
  <1>1. /\ GoodStack(stack) /\ FramesOK(stack, frames) /\ CountOK(stack, depth)
        /\ ClinitOK(stack, clinit)
    BY DEF InterpInv, Core
  <1>2. Current \in Frame /\ Current.pc >= 1
    BY TopRun, FetchType
  <1>3. /\ GoodStack(t) /\ t # <<>> /\ Last(t).at = "run" /\ Last(t).f = Current
        /\ NoRun(t) <=> NoRun(stack)
        /\ \A k : HasClinit(t, k) <=> HasClinit(stack, k)
        /\ EntriesOf(t, "run") = EntriesOf(stack, "run")
    BY <1>2, TopRun, ReplaceFrame
  <1>4. x \in Entry /\ x.at = "clinit" /\ x.c = c
    BY InterpAssumption DEF ClinitEntry, Entry
  <1>5. ~HasClinit(t, c)
    BY <1>1, <1>3 DEF ClinitOK, NeedsInit
  <1> HIDE DEF t, x
  <1>6. /\ GoodStack(s) /\ s # <<>> /\ Last(s) = x /\ (NoRun(s) <=> NoRun(t))
        /\ \A k : HasClinit(s, k) <=> HasClinit(t, k) \/ c = k
    BY <1>2, <1>3, <1>4, <1>5, Push
  <1>7. Cardinality(EntriesOf(s, "run")) = Cardinality(EntriesOf(stack, "run"))
    <2>1. t \in Seq(Entry) /\ Cardinality(EntriesOf(t, "run")) \in Nat
      BY <1>3, RunsFinite DEF GoodStack
    <2> QED
      BY <1>3, <1>4, <2>1, PushCount
  <1>8. cl \in [Class -> 0..2] /\ cl[c] = 1 /\ \A k \in Class : k # c => cl[k] = clinit[k]
    BY <1>1 DEF ClinitOK
  <1>9. ClinitOK(s, cl)
    <2> HIDE DEF s, cl
    <2> QED
      BY <1>1, <1>3, <1>6, <1>8 DEF ClinitOK
  <1>10. FramesOK(s, frames) /\ CountOK(s, depth)
    BY <1>1, <1>3, <1>6, <1>7 DEF FramesOK, CountOK
  <1>11. EnterRun(s, ClinitOf[c]) /\ clinit' = cl /\ UNCHANGED excVars
    BY DEF InitClass, t, x
  <1> HIDE DEF s, cl
  <1>12. Core(stack', mode', frames', depth', cl) /\ result' \in Result
    BY <1>4, <1>6, <1>9, <1>10, <1>11, EnterRunCore
  <1> QED
    BY <1>11, <1>12 DEF Kept, InterpInv, Plain, ExcOK, excVars

(* A class that needs no initialiser is not on the stack. *)
LEMMA MarkInitOK ==
    ASSUME NEW s, NEW c \in Class, ClinitOK(s, clinit)
    PROVE  ClinitOK(s, MarkInit(c))
  <1>1. /\ MarkInit(c) \in [Class -> 0..2]
        /\ \A k \in Class : MarkInit(c)[k] = 1 <=> clinit[k] = 1
    BY DEF ClinitOK, MarkInit
  <1> QED
    BY <1>1 DEF ClinitOK

LEMMA StepKept ==
    ASSUME InterpInv, Step
    PROVE  Kept /\ prog' \in Programs /\ budget' \in Nat
  <1>1. /\ GoodStack(stack) /\ FramesOK(stack, frames) /\ CountOK(stack, depth)
        /\ ClinitOK(stack, clinit) /\ mode = "step" /\ ExcOK
    BY DEF InterpInv, Core, Step, Plain
  <1>2. prog' \in Programs /\ budget' \in Nat
    BY DEF InterpInv, Plain, Step, Spend
  <1>3. /\ stack # <<>> /\ Last(stack).at = "run" /\ Top.f \in Frame /\ Top.f.pc \in Nat
        /\ Current \in Frame
    BY <1>1, TopRun
  <1>4. CASE StepFail
    <2>1. FinishRun(stack, Fatal) /\ UNCHANGED <<clinit, excVars>>
      BY <1>4 DEF StepFail
    <2>2. Core(stack', mode', frames', depth', clinit) /\ result' \in Result
      BY <1>1, <1>3, <2>1, FinishRunCore, ResultTypes
    <2> QED
      BY <1>1, <1>2, <2>1, <2>2 DEF Kept, ExcOK, excVars
  <1>5. CASE InRange /\ (StepPlain \/ StepGoto \/ StepIf)
    <2>1. Fetch.to \in Nat
      BY <1>1, <1>5, FetchType DEF Insn
    <2>2. \E pc \in Nat : Goto(pc)
      BY <1>3, <1>5, <2>1 DEF StepPlain, StepGoto, StepIf
    <2> QED
      BY <1>1, <1>2, <2>2, GotoKept
  <1>6. CASE InRange /\ (StepThrow \/ StepTrap)
    <2>1. Fetch.op \in {"throw", "trap"}
      BY <1>6 DEF StepThrow, StepTrap
    <2>2. Fetch.e \in Exc \cup {None}
      BY <1>1, <1>6, <2>1, FetchType
    <2>3. CASE Throw(Current, Fetch.e, Top.f.pc) /\ UNCHANGED stack
      BY <1>2, <1>3, <2>2, <2>3, ThrowKept
    <2>4. CASE Goto(Top.f.pc + 1)
      <3>1. Top.f.pc + 1 \in Nat
        BY <1>3
      <3> QED
        BY <1>1, <1>2, <2>4, <3>1, GotoKept
    <2> QED
      BY <1>6, <2>3, <2>4 DEF StepThrow, StepTrap
  <1>7. CASE InRange /\ StepMoveException
    <2> DEFINE g == [Current EXCEPT !.pc = @ + 1, !.pending = None]
    <2>1. g \in Frame
      <3>1. [Current EXCEPT !.pc = @ + 1] \in Frame
        BY <1>3 DEF Frame
      <3>2. g = [[Current EXCEPT !.pc = @ + 1] EXCEPT !.pending = None]
        OBVIOUS
      <3> QED
        BY <3>1, <3>2 DEF Frame
    <2>2. stack' = WithFrame(stack, g) /\ UNCHANGED <<frames, mode, result, depth, clinit, excVars>>
      BY <1>7 DEF StepMoveException
    <2> HIDE DEF g
    <2>3. Core(stack', "step", frames, depth, clinit)
      BY <1>1, <1>3, <2>1, <2>2, ReplaceFrame, Stay DEF FramesOK
    <2> QED
      BY <1>1, <1>2, <2>2, <2>3 DEF Kept, ExcOK, excVars, InterpInv, Plain
  <1>8. CASE InRange /\ StepReturn
    <2>1. UNCHANGED <<clinit, excVars>>
      BY <1>8 DEF StepReturn
    <2>2. CASE FinishRun(stack, Ok)
      <3>1. Core(stack', mode', frames', depth', clinit) /\ result' \in Result
        BY <1>1, <1>3, <2>2, FinishRunCore, ResultTypes
      <3> QED
        BY <1>1, <1>2, <2>1, <3>1 DEF Kept, ExcOK, excVars
    <2>3. CASE /\ frames # <<>> /\ stack' = WithFrame(stack, Last(frames))
               /\ frames' = Front(frames) /\ UNCHANGED <<mode, result, depth>>
      <3>1. Last(frames) \in Frame /\ Front(frames) \in Seq(Frame)
        BY <1>1, <2>3, PopFacts DEF FramesOK
      <3>2. Core(stack', "step", frames', depth, clinit)
        BY <1>1, <1>3, <2>3, <3>1, ReplaceFrame, Stay
      <3> QED
        BY <1>1, <1>2, <2>1, <2>3, <3>2 DEF Kept, ExcOK, excVars, InterpInv, Plain
    <2> QED
      BY <1>8, <2>2, <2>3 DEF StepReturn
  <1>9. CASE InRange /\ StepInvoke
    <2>1. Call(stack, Current, Fetch.m) /\ UNCHANGED <<clinit, excVars>>
      BY <1>9 DEF StepInvoke
    <2>2. Core(stack', mode', frames', depth', clinit) /\ result' \in Result
      BY <1>1, <1>3, <2>1, CallCore
    <2> QED
      BY <1>1, <1>2, <2>1, <2>2 DEF Kept, ExcOK, excVars
  <1>10. CASE InRange /\ StepInvokeStatic
    <2>1. Fetch.c \in Class
      BY <1>1, <1>10, FetchType DEF StepInvokeStatic
    <2>2. CASE NeedsInit(Fetch.c) /\ InitClass(Fetch.c)
      BY <1>1, <1>2, <1>10, <2>1, <2>2, InitClassKept
    <2>3. CASE /\ Call(stack, Current, Fetch.m) /\ UNCHANGED excVars
               /\ clinit' = MarkInit(Fetch.c) \/ clinit' = clinit
      <3>1. ClinitOK(stack, clinit')
        BY <1>1, <2>1, <2>3, MarkInitOK
      <3>2. Core(stack', mode', frames', depth', clinit') /\ result' \in Result
        BY <1>1, <1>3, <2>3, <3>1, CallCore
      <3> QED
        BY <1>1, <1>2, <2>3, <3>2 DEF Kept, ExcOK, excVars
    <2> QED
      BY <1>10, <2>2, <2>3 DEF StepInvokeStatic
  <1>11. CASE InRange /\ StepSGet
    <2>1. Fetch.c \in Class
      BY <1>1, <1>11, FetchType DEF StepSGet
    <2>2. CASE NeedsInit(Fetch.c) /\ InitClass(Fetch.c)
      BY <1>1, <1>2, <1>11, <2>1, <2>2, InitClassKept
    <2> DEFINE g == [Current EXCEPT !.pc = @ + 1]
    <2>3. CASE /\ stack' = WithFrame(stack, g) /\ clinit' = MarkInit(Fetch.c)
               /\ UNCHANGED <<frames, mode, result, depth, excVars>>
      <3>1. g \in Frame
        BY <1>3 DEF Frame
      <3> HIDE DEF g
      <3>2. ClinitOK(stack, clinit')
        BY <1>1, <2>1, <2>3, MarkInitOK
      <3>3. Core(stack', "step", frames, depth, clinit')
        BY <1>1, <1>3, <2>3, <3>1, <3>2, ReplaceFrame, Stay DEF FramesOK
      <3> QED
        BY <1>1, <1>2, <2>3, <3>3 DEF Kept, ExcOK, excVars, InterpInv, Plain
    <2> QED
      BY <1>11, <2>2, <2>3 DEF StepSGet
  <1> QED
    BY <1>4, <1>5, <1>6, <1>7, <1>8, <1>9, <1>10, <1>11 DEF Step

LEMMA UnwindKept ==
    ASSUME InterpInv, UnwindCatch \/ UnwindPop \/ UnwindFail \/ UnwindOut
    PROVE  Kept /\ prog' \in Programs /\ budget' \in Nat
  <1>1. /\ GoodStack(stack) /\ FramesOK(stack, frames) /\ CountOK(stack, depth)
        /\ ClinitOK(stack, clinit) /\ frames \in Seq(Frame) /\ ExcOK /\ result \in Result
        /\ mode = "unwind"
    BY DEF InterpInv, Core, Plain, FramesOK, UnwindCatch, UnwindPop, UnwindFail, UnwindOut
  <1>2. prog' \in Programs /\ budget' \in Nat
    BY DEF InterpInv, Plain, UnwindCatch, UnwindPop, UnwindFail, UnwindOut
  <1>3. stack # <<>> /\ Last(stack).at = "run" /\ prog \in [Guest -> Body]
    BY <1>1, TopRun
  <1>4. frames # <<>> => Last(frames) \in Frame /\ Front(frames) \in Seq(Frame)
    BY <1>1, PopFacts
  <1>5. frames # <<>> => Looked \in Exc \cup {None}
    BY <1>1, <1>4 DEF Looked, Frame, ExcOK
  <1>6. EndUnwind => ExcOK'
    BY DEF EndUnwind, ExcOK
  <1>7. CASE UnwindCatch
    <2> DEFINE a == CatchAddr(Last(frames), Looked)
               g == [Last(frames) EXCEPT !.pc = a, !.pending = Looked]
    <2>1. a \in Nat
      BY <1>3, <1>4, <1>7, CatchType DEF UnwindCatch
    <2> HIDE DEF a
    <2>2. g \in Frame
      <3>1. [Last(frames) EXCEPT !.pc = a] \in Frame
        BY <1>4, <1>7, <2>1 DEF Frame, UnwindCatch
      <3>2. g = [[Last(frames) EXCEPT !.pc = a] EXCEPT !.pending = Looked]
        OBVIOUS
      <3> QED
        BY <1>5, <1>7, <3>1, <3>2 DEF Frame, UnwindCatch
    <2>3. /\ stack' = WithFrame(stack, g) /\ frames' = Front(frames) /\ mode' = "step"
          /\ EndUnwind /\ UNCHANGED <<result, depth, clinit>> /\ frames # <<>>
      BY <1>7 DEF UnwindCatch, a
    <2> HIDE DEF g
    <2>4. Core(stack', "step", frames', depth, clinit)
      BY <1>1, <1>3, <1>4, <2>2, <2>3, ReplaceFrame, Stay
    <2> QED
      BY <1>1, <1>2, <1>6, <2>3, <2>4 DEF Kept
  <1>8. CASE UnwindPop
    <2>1. /\ frames' = Front(frames) /\ carried' = Looked /\ frames # <<>>
          /\ UNCHANGED <<stack, mode, result, depth, clinit, thrown, origin, site>>
      BY <1>8 DEF UnwindPop
    <2>2. Core(stack', "unwind", frames', depth, clinit)
      BY <1>1, <1>3, <1>4, <2>1, Stay
    <2>3. ExcOK'
      BY <1>1, <1>5, <2>1 DEF ExcOK
    <2> QED
      BY <1>1, <1>2, <2>1, <2>2, <2>3 DEF Kept
  <1>9. CASE UnwindFail \/ UnwindOut
    <2>1. \E r \in Result : FinishRun(stack, r)
      BY <1>1, <1>9, ResultTypes DEF UnwindFail, UnwindOut, ExcOK
    <2>2. EndUnwind /\ UNCHANGED clinit
      BY <1>9 DEF UnwindFail, UnwindOut
    <2>3. Core(stack', mode', frames', depth', clinit) /\ result' \in Result
      BY <1>1, <1>3, <2>1, FinishRunCore
    <2> QED
      BY <1>2, <1>6, <2>2, <2>3 DEF Kept
  <1> QED
    BY <1>7, <1>8, <1>9

(* A result goes to the entry below the top, which is no run. *)
LEMMA PopKept ==
    ASSUME InterpInv, stack # <<>>, Last(stack).at = "native", NEW r \in Result,
           ReturnTo(Front(stack), r), UNCHANGED <<frames, depth, clinit, excVars>>
    PROVE  Kept
  <1>1. /\ GoodStack(stack) /\ FramesOK(stack, frames) /\ CountOK(stack, depth)
        /\ ClinitOK(stack, clinit) /\ ExcOK /\ stack \in Seq(Entry)
    BY DEF InterpInv, Core, Plain, GoodStack
  <1>2. stack' = Front(stack) /\ mode' = "return" /\ result' = r
    BY DEF ReturnTo
  <1>3. /\ GoodStack(stack')
        /\ stack' # <<>> /\ Last(stack').at = "run" => Last(stack').f.pc >= 1
        /\ NoRun(stack') => NoRun(stack)
        /\ \A c : HasClinit(stack', c) <=> HasClinit(stack, c)
    BY <1>1, <1>2, Pop
  <1>4. Cardinality(EntriesOf(stack', "run")) = Cardinality(EntriesOf(stack, "run"))
    <2>1. stack' \in Seq(Entry)
      BY <1>3 DEF GoodStack
    <2> QED
      BY <1>1, <1>2, <2>1, PopCount, RunsFinite
  <1>5. FramesOK(stack', frames') /\ CountOK(stack', depth') /\ ClinitOK(stack', clinit')
    BY <1>1, <1>3, <1>4 DEF FramesOK, CountOK, ClinitOK
  <1>6. ModeOK(stack', mode')
    BY <1>2, <1>3 DEF ModeOK
  <1> QED
    BY <1>1, <1>2, <1>3, <1>5, <1>6 DEF Kept, Core, ExcOK, excVars

LEMMA NativeKept ==
    ASSUME InterpInv, (\E m \in Method : NativeCall(m)) \/ NativeReturn
    PROVE  Kept /\ prog' \in Programs /\ budget' \in Nat
  <1>1. /\ GoodStack(stack) /\ FramesOK(stack, frames) /\ CountOK(stack, depth)
        /\ ClinitOK(stack, clinit) /\ ExcOK /\ result \in Result /\ mode = "native"
    BY DEF InterpInv, Core, Plain, NativeCall, NativeReturn
  <1>2. prog' \in Programs /\ budget' \in Nat /\ clinit' = clinit /\ ExcOK'
    BY <1>1 DEF InterpInv, Plain, NativeCall, NativeReturn, ExcOK, excVars
  <1>3. stack # <<>> /\ Last(stack).at = "native" /\ stack \in Seq(Entry)
    BY <1>1 DEF InterpInv, Core, ModeOK, GoodStack
  <1>4. ASSUME NEW m \in Method, NativeCall(m)
        PROVE  Kept
    <2> DEFINE x == [Last(stack) EXCEPT !.calls = @ + 1]
               s == [stack EXCEPT ![Len(stack)] = x]
    <2>1. Last(stack) \in Entry /\ Last(stack).calls < MaxCalls /\ Last(stack) = stack[Len(stack)]
      BY <1>3, <1>4, PopFacts DEF NativeCall, Top, Last
    <2>2. /\ x \in Entry /\ x.at = "native" /\ x.saved = Last(stack).saved
          /\ x.c = Last(stack).c
      <3>1. Last(stack).calls + 1 \in 0..MaxCalls
        BY <2>1, InterpAssumption DEF Entry
      <3> QED
        BY <1>3, <2>1, <3>1 DEF Entry
    <2>3. s = [stack EXCEPT ![Len(stack)].calls = @ + 1]
      BY <1>3, <2>1
    <2> HIDE DEF x
    <2>4. /\ GoodStack(s) /\ s # <<>> /\ Last(s) = x
          /\ NoRun(s) <=> NoRun(stack)
          /\ \A c : HasClinit(s, c) <=> HasClinit(stack, c)
          /\ EntriesOf(s, "run") = EntriesOf(stack, "run")
      BY <1>1, <1>3, <2>2, Replace
    <2>5. FramesOK(s, frames) /\ CountOK(s, depth) /\ ClinitOK(s, clinit)
      <3> HIDE DEF s
      <3> QED
        BY <1>1, <2>4 DEF FramesOK, CountOK, ClinitOK
    <2>6. \/ stack' = Append(s, NativeEntry) /\ UNCHANGED <<frames, mode, result, depth>>
          \/ EnterRun(s, m)
      BY <1>4, <2>3 DEF NativeCall
    <2> HIDE DEF s
    <2>7. CASE stack' = Append(s, NativeEntry) /\ UNCHANGED <<frames, mode, result, depth>>
      <3>1. NativeEntry \in Entry /\ NativeEntry.at = "native"
        BY InterpAssumption DEF NativeEntry, Entry
      <3>2. /\ GoodStack(stack') /\ stack' # <<>> /\ Last(stack').at = "native"
            /\ NoRun(stack') <=> NoRun(s)
            /\ \A c : HasClinit(stack', c) <=> HasClinit(s, c)
        BY <2>2, <2>4, <2>7, <3>1, Push
      <3>3. Cardinality(EntriesOf(stack', "run")) = Cardinality(EntriesOf(s, "run"))
        <4>1. s \in Seq(Entry) /\ Cardinality(EntriesOf(s, "run")) \in Nat
          BY <2>4, RunsFinite DEF GoodStack
        <4> QED
          BY <2>7, <3>1, <4>1, PushCount
      <3>4. FramesOK(stack', frames') /\ CountOK(stack', depth') /\ ClinitOK(stack', clinit')
        BY <1>2, <2>5, <2>7, <3>2, <3>3 DEF FramesOK, CountOK, ClinitOK
      <3>5. ModeOK(stack', mode')
        BY <1>1, <2>7, <3>2 DEF ModeOK
      <3> QED
        BY <1>1, <1>2, <2>7, <3>2, <3>4, <3>5 DEF Kept, Core
    <2>8. CASE EnterRun(s, m)
      <3>1. Core(stack', mode', frames', depth', clinit) /\ result' \in Result
        BY <2>2, <2>4, <2>5, <2>8, EnterRunCore
      <3> QED
        BY <1>2, <3>1 DEF Kept
    <2> QED
      BY <2>6, <2>7, <2>8
  <1>5. CASE NativeReturn
    <2>1. PICK r \in {Ok, Fatal} \cup {Uncaught(e) : e \in Exc} : ReturnTo(Front(stack), r)
      BY <1>5 DEF NativeReturn
    <2>2. r \in Result
      BY <2>1, ResultTypes
    <2> QED
      BY <1>2, <1>3, <1>5, <2>1, <2>2, PopKept DEF NativeReturn
  <1> QED
    BY <1>2, <1>4, <1>5

LEMMA ToClinitKept ==
    ASSUME InterpInv, ToClinit
    PROVE  Kept /\ prog' \in Programs /\ budget' \in Nat
  <1> DEFINE s == Front(stack)
             f == Last(s).f
             c == Last(stack).c
             g == [f EXCEPT !.pc = @ + 1]
  <1>1. /\ GoodStack(stack) /\ FramesOK(stack, frames) /\ CountOK(stack, depth)
        /\ ClinitOK(stack, clinit) /\ ExcOK /\ result \in Result
        /\ stack # <<>> /\ Last(stack).at = "clinit" /\ stack \in Seq(Entry)
    BY DEF InterpInv, Core, Plain, ToClinit, Top, GoodStack
  <1>2. prog' \in Programs /\ budget' \in Nat /\ ExcOK' /\ clinit' = AfterClinit(c)
    BY <1>1 DEF InterpInv, Plain, ToClinit, ExcOK, excVars, Top
  <1>3. /\ GoodStack(s) /\ s # <<>> /\ Last(s).at = "run" /\ c \in Class
        /\ NoRun(s) => NoRun(stack)
        /\ \A k : HasClinit(s, k) <=> HasClinit(stack, k) /\ k # c
    BY <1>1, Pop
  <1>4. f \in Frame
    BY <1>3, Pop
  <1>5. Cardinality(EntriesOf(s, "run")) = Cardinality(EntriesOf(stack, "run"))
    <2>1. s \in Seq(Entry)
      BY <1>3 DEF GoodStack
    <2> QED
      BY <1>1, <2>1, PopCount, RunsFinite
  <1>6. FramesOK(s, frames) /\ CountOK(s, depth)
    BY <1>1, <1>3, <1>5 DEF FramesOK, CountOK
  <1>7. ClinitOK(s, clinit')
    <2>1. /\ clinit' \in [Class -> 0..2] /\ clinit'[c] # 1
          /\ \A k \in Class : k # c => clinit'[k] = clinit[k]
      BY <1>1, <1>2, <1>3 DEF ClinitOK, AfterClinit
    <2> QED
      BY <1>1, <1>3, <2>1 DEF ClinitOK
  <1>8. \/ FinishRun(s, result)
        \/ \E m : Call(s, f, m)
        \/ /\ stack' = WithFrame(s, g)
           /\ mode' = "step" /\ result' = Pending
           /\ UNCHANGED <<frames, depth>>
    BY DEF ToClinit
  <1> HIDE DEF s, f, c
  <1>9. CASE FinishRun(s, result)
    BY <1>1, <1>2, <1>3, <1>6, <1>7, <1>9, FinishRunCore DEF Kept
  <1>10. CASE \E m : Call(s, f, m)
    BY <1>2, <1>3, <1>4, <1>6, <1>7, <1>10, CallCore DEF Kept
  <1>11. CASE /\ stack' = WithFrame(s, g)
              /\ mode' = "step" /\ result' = Pending
              /\ UNCHANGED <<frames, depth>>
    <2>1. g \in Frame
      BY <1>4 DEF Frame
    <2> HIDE DEF g
    <2>2. Core(stack', "step", frames, depth, clinit')
      BY <1>3, <1>6, <1>7, <1>11, <2>1, ReplaceFrame, Stay DEF FramesOK
    <2> QED
      BY <1>2, <1>11, <2>2, ResultTypes DEF Kept
  <1> QED
    BY <1>8, <1>9, <1>10, <1>11

LEMMA ReturnKept ==
    ASSUME InterpInv, HostReturn \/ ToNative \/ ToLoop \/ OutOfBudget
    PROVE  Kept /\ prog' \in Programs /\ budget' \in Nat
  <1>1. /\ GoodStack(stack) /\ FramesOK(stack, frames) /\ CountOK(stack, depth)
        /\ ModeOK(stack, mode) /\ ClinitOK(stack, clinit) /\ ExcOK /\ result \in Result
    BY DEF InterpInv, Core, Plain
  <1>2. prog' \in Programs /\ budget' \in Nat /\ clinit' = clinit
    BY DEF InterpInv, Plain, HostReturn, ToNative, ToLoop, OutOfBudget
  <1>3. CASE HostReturn
    BY <1>1, <1>2, <1>3, ResultTypes DEF HostReturn, Kept, Core, ModeOK, ExcOK, excVars
  <1>4. CASE ToNative
    <2>1. stack # <<>> /\ Last(stack).at = "native" /\ UNCHANGED <<frames, depth, excVars>>
      BY <1>4 DEF ToNative, Top
    <2>2. CASE mode' = "native" /\ result' = Pending /\ UNCHANGED stack
      BY <1>1, <1>2, <2>1, <2>2, ResultTypes DEF Kept, Core, ModeOK, ExcOK, excVars
    <2>3. CASE ReturnTo(Front(stack), result)
      BY <1>1, <1>2, <2>1, <2>3, PopKept
    <2> QED
      BY <1>4, <2>2, <2>3 DEF ToNative
  <1>5. CASE ToLoop
    <2>1. stack # <<>> /\ Last(stack).at = "run" /\ mode = "return"
      BY <1>5 DEF ToLoop, Top
    <2>2. Top.f \in Frame /\ Top.f.pc - 1 \in Nat
      <3>1. Last(stack).f \in Frame
        BY <1>1, <2>1, Pop
      <3>2. Last(stack).f.pc >= 1
        BY <1>1, <2>1 DEF ModeOK
      <3> QED
        BY <3>1, <3>2 DEF Top, Frame
    <2>3. CASE mode' = "step" /\ result' = Pending /\ UNCHANGED <<frames, stack, depth, excVars>>
      BY <1>1, <1>2, <2>1, <2>3, ResultTypes DEF Kept, Core, ModeOK, ExcOK, excVars
    <2>4. CASE Throw(Top.f, result.e, Top.f.pc - 1) /\ UNCHANGED stack
      <3>1. result.e \in Exc \cup {None}
        BY <1>1 DEF Result
      <3> QED
        BY <1>2, <2>1, <2>2, <2>4, <3>1, ThrowKept
    <2>5. CASE FinishRun(stack, Fatal) /\ UNCHANGED excVars
      <3>1. Core(stack', mode', frames', depth', clinit) /\ result' \in Result
        BY <1>1, <2>1, <2>5, FinishRunCore, ResultTypes
      <3> QED
        BY <1>1, <1>2, <2>5, <3>1 DEF Kept, ExcOK, excVars
    <2>6. CASE result.kind = "ok"
      BY <1>5, <2>3, <2>6 DEF ToLoop
    <2>7. CASE result.kind = "uncaught"
      BY <1>5, <2>4, <2>7 DEF ToLoop
    <2>8. CASE result.kind \notin {"ok", "uncaught"}
      BY <1>5, <2>5, <2>8 DEF ToLoop
    <2> QED
      BY <2>6, <2>7, <2>8
  <1>6. CASE OutOfBudget
    <2>1. FinishRun(stack, Fatal) /\ UNCHANGED excVars /\ mode = "step"
      BY <1>6 DEF OutOfBudget
    <2>2. Core(stack', mode', frames', depth', clinit) /\ result' \in Result
      BY <1>1, <2>1, FinishRunCore, ResultTypes DEF ModeOK
    <2> QED
      BY <1>1, <1>2, <2>1, <2>2 DEF Kept, ExcOK, excVars
  <1> QED
    BY <1>3, <1>4, <1>5, <1>6

-----------------------------------------------------------------------------
LEMMA InitInv == Init => InterpInv
  <1> SUFFICES ASSUME Init PROVE InterpInv
    OBVIOUS
  <1>1. Plain
    BY ResultTypes, InterpAssumption DEF Init, Plain, ExcOK
  <1>2. stack = <<>> /\ stack \in Seq(Entry) /\ Len(stack) = 0
    BY DEF Init
  <1>3. GoodStack(stack) /\ \A c : ~HasClinit(stack, c)
    BY <1>2 DEF GoodStack, HasClinit
  <1>4. EntriesOf(stack, "run") = {}
    BY <1>2 DEF EntriesOf
  <1>5. CountOK(stack, depth)
    <2>1. depth = 0 /\ Cardinality(EntriesOf(stack, "run")) = 0
      BY <1>4, FS_EmptySet DEF Init
    <2> QED
      BY <2>1, InterpAssumption DEF CountOK
  <1>6. ModeOK(stack, mode) /\ FramesOK(stack, frames) /\ ClinitOK(stack, clinit)
    BY <1>3 DEF Init, ModeOK, FramesOK, ClinitOK
  <1> QED
    BY <1>1, <1>3, <1>5, <1>6 DEF InterpInv, Core

LEMMA NextInv == InterpInv /\ [Next]_vars => InterpInv'
  <1> SUFFICES ASSUME InterpInv, [Next]_vars PROVE InterpInv'
    OBVIOUS
  <1>1. ASSUME Kept, prog' \in Programs, budget' \in Nat PROVE InterpInv'
    BY <1>1 DEF Kept, InterpInv, Plain
  <1>2. ASSUME NEW m \in Method, HostCall(m) PROVE InterpInv'
    <2>1. stack = <<>> /\ EnterRun(stack, m) /\ UNCHANGED <<prog, budget, clinit, excVars>>
      BY <1>2 DEF HostCall, InterpInv, Core, ModeOK
    <2>2. Core(stack', mode', frames', depth', clinit) /\ result' \in Result
      BY <2>1, EnterRunCore DEF InterpInv, Core
    <2> QED
      BY <1>1, <2>1, <2>2 DEF Kept, InterpInv, Plain, ExcOK, excVars
  <1>3. CASE Step
    BY <1>1, <1>3, StepKept
  <1>4. CASE UnwindCatch \/ UnwindPop \/ UnwindFail \/ UnwindOut
    BY <1>1, <1>4, UnwindKept
  <1>5. CASE (\E m \in Method : NativeCall(m)) \/ NativeReturn
    BY <1>1, <1>5, NativeKept
  <1>6. CASE ToClinit
    BY <1>1, <1>6, ToClinitKept
  <1>7. CASE HostReturn \/ ToNative \/ ToLoop \/ OutOfBudget
    BY <1>1, <1>7, ReturnKept
  <1>8. CASE UNCHANGED vars
    BY <1>8 DEF vars, InterpInv, Plain, ExcOK
  <1> QED
    BY <1>2, <1>3, <1>4, <1>5, <1>6, <1>7, <1>8 DEF Next, Internal

LEMMA InvHolds == Spec => []InterpInv
  BY InitInv, NextInv, PTL DEF Spec

-----------------------------------------------------------------------------
(* Theorems *)

(* Every variable keeps its type for every program.  In particular         *)
(* recursion_depth and the budget, unsigned in the code, never underflow:  *)
(* every activation that run decrements for was counted.                   *)
THEOREM TypeCorrect == Spec => []TypeOK
  <1>1. InterpInv => TypeOK
    BY DEF InterpInv, Plain, ExcOK, Core, GoodStack, ModeOK, FramesOK, CountOK,
           ClinitOK, TypeOK
  <1> QED
    BY <1>1, InvHolds, PTL

(* Once a host call is over, however it ended, no frame of the guest is    *)
(* left for the collector to trace and no class is half initialised.       *)
THEOREM HostCallsLeaveNothing == Spec => []IdleIsClean
  <1>1. InterpInv => IdleIsClean
    <2> SUFFICES ASSUME InterpInv, mode = "idle"
                 PROVE  frames = <<>> /\ \A c \in Class : clinit[c] # 1
      BY DEF IdleIsClean
    <2>1. stack = <<>> /\ Len(stack) = 0
      BY DEF InterpInv, Core, ModeOK
    <2>2. NoRun(stack) /\ \A c : ~HasClinit(stack, c)
      BY <2>1 DEF NoRun, HasClinit
    <2> QED
      BY <2>2 DEF InterpInv, Core, FramesOK, ClinitOK
  <1> QED
    BY <1>1, InvHolds, PTL

(* ensure_class_initialized never nests the initialiser of a class in      *)
(* itself, whatever the initialisers do, and whichever way one ends, its   *)
(* class is no longer in state 1.                                          *)
THEOREM InitializersAreActive == Spec => []InitializingIsActive
  <1>1. ASSUME InterpInv, NEW c \in Class
        PROVE  Cardinality({i \in Entries("clinit") : stack[i].c = c})
                 = IF clinit[c] = 1 THEN 1 ELSE 0
    <2> DEFINE S == {i \in Entries("clinit") : stack[i].c = c}
    <2>1. GoodStack(stack) /\ ClinitOK(stack, clinit)
      BY <1>1 DEF InterpInv, Core
    <2>2. CASE clinit[c] = 1
      <3>1. PICK i \in 1..Len(stack) : stack[i].at = "clinit" /\ stack[i].c = c
        BY <2>1, <2>2 DEF ClinitOK, HasClinit
      <3>2. S = {i}
        BY <2>1, <3>1 DEF GoodStack, Entries, EntriesOf
      <3> HIDE DEF S
      <3> QED
        BY <2>2, <3>2, FS_Singleton DEF S
    <2>3. CASE clinit[c] # 1
      <3>1. S = {}
        BY <2>1, <2>3 DEF ClinitOK, HasClinit, Entries, EntriesOf
      <3> HIDE DEF S
      <3> QED
        BY <2>3, <3>1, FS_EmptySet DEF S
    <2> QED
      BY <2>2, <2>3
  <1>2. InterpInv => InitializingIsActive
    BY <1>1 DEF InitializingIsActive
  <1> QED
    BY <1>2, InvHolds, PTL

(* The Rust stack holds at most depth_limit activations of run, for every  *)
(* program, although the counter also keeps entries that natives never     *)
(* give back.                                                              *)
THEOREM DepthBoundsEntries == Spec => []EntriesWithinLimit
  <1>1. InterpInv => EntriesWithinLimit
    BY DEF InterpInv, Core, CountOK, EntriesWithinLimit, Entries
  <1> QED
    BY <1>1, InvHolds, PTL

-----------------------------------------------------------------------------
(* Unwinding.  UnwindSound compares the end of an unwinding with the frames *)
(* at its start.  The code looks at each frame's own pending exception and  *)
(* at err, so the proof needs to know of every frame in the machine what    *)
(* these two fields are worth.  Everything here is about programs whose     *)
(* handlers begin with move-exception.                                      *)

(* A frame suspended in a call, and one suspended in its instruction by a   *)
(* class initialiser: neither has an exception pending.                     *)
Waiting(f) == f.pc = f.err + 1 /\ f.pending = None
Initiating(f) == f.err = f.pc /\ f.pending = None
AllWait(fs) == \A i \in 1..Len(fs) : Waiting(fs[i])

(* The running frame is about to take the exception that is pending in it. *)
Running(f, p) ==
    f.pending # None => /\ f.pc \in 1..Len(p[f.m].insns)
                        /\ p[f.m].insns[f.pc].op = "moveException"

(* The frame of a run below an entry of the given kind. *)
Below(f, kind) ==
    /\ kind # "run"
    /\ kind = "native" => Waiting(f)
    /\ kind = "clinit" => Initiating(f)

Inner(s) ==
    \A i \in 1..Len(s) :
      /\ AllWait(s[i].saved)
      /\ s[i].at = "run" /\ i < Len(s) => Below(s[i].f, s[i + 1].at)

TopOK(s, md, p) ==
    s # <<>> /\ Last(s).at = "run" =>
      /\ md = "step" => Running(Last(s).f, p)
      /\ md = "return" => Waiting(Last(s).f)

Named(r) == r.kind = "uncaught" => r.e # None

Lines(s, md, fs, r, p) ==
    /\ Inner(s) /\ TopOK(s, md, p) /\ Named(r)
    /\ md # "unwind" => AllWait(fs)

(* During an unwinding the frames are what is left of origin, whose last    *)
(* one holds the exception, and the dropped ones did not catch it.          *)
Unwinding(fs, org, th, ca, at) ==
    /\ th # None
    /\ org # <<>> /\ Len(fs) <= Len(org)
    /\ \A i \in 1..Len(fs) : fs[i] = org[i]
    /\ org[Len(org)].pending = th /\ org[Len(org)].err = at
    /\ \A i \in 1..(Len(org) - 1) : Waiting(org[i])
    /\ Len(fs) < Len(org) => ca = th

Passed ==
    \A i \in (Len(frames) + 1)..Len(origin) : CatchAddr(origin[i], thrown) = NoCatch

LineInv ==
    HandlersTakeException =>
      /\ Lines(stack, mode, frames, result, prog)
      /\ mode = "unwind" => Unwinding(frames, origin, thrown, carried, site) /\ Passed

LEMMA PushInner ==
    ASSUME NEW s \in Seq(Entry), Inner(s), NEW x \in Entry, AllWait(x.saved),
           s # <<>> /\ Last(s).at = "run" => Below(Last(s).f, x.at)
    PROVE  Inner(Append(s, x)) /\ Append(s, x) # <<>> /\ Last(Append(s, x)) = x
  <1> DEFINE n == Len(s) + 1
             t == Append(s, x)
  <1>1. /\ Len(s) \in Nat /\ Len(t) = n /\ t[n] = x /\ t # <<>>
        /\ \A i \in 1..Len(s) : t[i] = s[i]
    OBVIOUS
  <1>2. s # <<>> => Last(s) = s[Len(s)]
    BY DEF Last
  <1> HIDE DEF t
  <1>3. ASSUME NEW i \in 1..Len(t)
        PROVE  /\ AllWait(t[i].saved)
               /\ t[i].at = "run" /\ i < Len(t) => Below(t[i].f, t[i + 1].at)
    <2>1. CASE i = n
      BY <1>1, <2>1
    <2>2. CASE i = Len(s)
      <3>1. s # <<>> /\ i \in 1..Len(s) /\ t[i] = Last(s) /\ t[i + 1] = x /\ t[i] = s[i]
        BY <1>1, <1>2, <2>2
      <3> QED
        BY <3>1 DEF Inner
    <2>3. CASE i # n /\ i # Len(s)
      <3>1. i \in 1..Len(s) /\ i + 1 \in 1..Len(s) /\ i < Len(s)
        BY <1>1, <2>3
      <3>2. t[i] = s[i] /\ t[i + 1] = s[i + 1]
        BY <1>1, <3>1
      <3> QED
        BY <3>1, <3>2 DEF Inner
    <2> QED
      BY <2>1, <2>2, <2>3
  <1>4. Last(t) = x
    BY <1>1 DEF Last
  <1> QED
    BY <1>1, <1>3, <1>4 DEF Inner, t

LEMMA PopInner ==
    ASSUME NEW s \in Seq(Entry), Inner(s), s # <<>>
    PROVE  /\ Inner(Front(s)) /\ AllWait(Last(s).saved)
           /\ Front(s) # <<>> /\ Last(Front(s)).at = "run"
                => Below(Last(Front(s)).f, Last(s).at)
  <1> DEFINE n == Len(s)
             t == Front(s)
  <1>1. /\ n \in Nat \ {0} /\ t \in Seq(Entry) /\ Len(t) = n - 1
        /\ \A i \in 1..(n - 1) : t[i] = s[i]
    BY PopFacts
  <1>2. Last(s) = s[n] /\ n \in 1..n
    BY <1>1 DEF Last
  <1>3. t # <<>> => n - 1 \in 1..(n - 1) /\ Last(t) = s[n - 1]
    <2>1. t # <<>> => n - 1 \in 1..(n - 1)
      BY <1>1
    <2> HIDE DEF t
    <2> QED
      BY <1>1, <2>1 DEF Last
  <1> HIDE DEF t
  <1>4. ASSUME NEW i \in 1..Len(t)
        PROVE  /\ AllWait(t[i].saved)
               /\ t[i].at = "run" /\ i < Len(t) => Below(t[i].f, t[i + 1].at)
    <2>1. i \in 1..n /\ i < n /\ t[i] = s[i]
      BY <1>1
    <2>2. i < Len(t) => i + 1 \in 1..(n - 1) /\ t[i + 1] = s[i + 1]
      BY <1>1
    <2> QED
      BY <2>1, <2>2 DEF Inner
  <1>5. t # <<>> /\ Last(t).at = "run" => Below(Last(t).f, Last(s).at)
    <2>1. ASSUME t # <<>> PROVE n - 1 \in 1..n /\ n - 1 < n /\ (n - 1) + 1 = n
      BY <1>1, <1>3, <2>1
    <2> QED
      BY <1>2, <1>3, <2>1 DEF Inner
  <1> QED
    BY <1>2, <1>4, <1>5 DEF Inner, t

LEMMA ReplaceInner ==
    ASSUME NEW s \in Seq(Entry), Inner(s), s # <<>>, NEW x \in Entry,
           x.at = Last(s).at, x.saved = Last(s).saved
    PROVE  LET t == [s EXCEPT ![Len(s)] = x]
           IN  Inner(t) /\ t \in Seq(Entry) /\ t # <<>> /\ Last(t) = x
  <1> DEFINE n == Len(s)
             t == [s EXCEPT ![n] = x]
  <1>1. n \in Nat \ {0} /\ Last(s) = s[n]
    BY DEF Last
  <1>2. /\ t \in Seq(Entry) /\ Len(t) = n /\ t[n] = x
        /\ \A i \in 1..n : i # n => t[i] = s[i]
    BY <1>1
  <1> HIDE DEF t
  <1>3. t # <<>> /\ Last(t) = x
    BY <1>1, <1>2 DEF Last
  <1>4. \A i \in 1..n : t[i].at = s[i].at /\ t[i].saved = s[i].saved
    BY <1>1, <1>2
  <1>5. ASSUME NEW i \in 1..n
        PROVE  /\ AllWait(t[i].saved)
               /\ t[i].at = "run" /\ i < n => Below(t[i].f, t[i + 1].at)
    <2>1. i < n => i # n /\ i + 1 \in 1..n
      BY <1>1
    <2> QED
      BY <1>2, <1>4, <2>1 DEF Inner
  <1> QED
    BY <1>2, <1>3, <1>5 DEF Inner, t

LEMMA FrameInner ==
    ASSUME NEW s \in Seq(Entry), Inner(s), s # <<>>, Last(s).at = "run", NEW f \in Frame
    PROVE  /\ Inner(WithFrame(s, f)) /\ WithFrame(s, f) \in Seq(Entry)
           /\ WithFrame(s, f) # <<>>
           /\ Last(WithFrame(s, f)).at = "run" /\ Last(WithFrame(s, f)).f = f
  <1> DEFINE x == [Last(s) EXCEPT !.f = f]
  <1>1. Len(s) \in Nat \ {0} /\ Last(s) \in Entry /\ Last(s) = s[Len(s)]
    BY DEF Last
  <1>2. x \in Entry /\ x.at = Last(s).at /\ x.saved = Last(s).saved /\ x.f = f
    BY <1>1 DEF Entry
  <1>3. WithFrame(s, f) = [s EXCEPT ![Len(s)] = x]
    BY <1>1 DEF WithFrame
  <1> HIDE DEF x
  <1> QED
    BY <1>2, <1>3, ReplaceInner

(* interpret::run up to the loop, and after it; Flow::Call. *)
LEMMA EnterRunLines ==
    ASSUME NEW s \in Seq(Entry), NEW m, NEW p, Inner(s), frames \in Seq(Frame), AllWait(frames),
           s = <<>> \/ Last(s).at # "run", EnterRun(s, m)
    PROVE  Lines(stack', mode', frames', result', p) /\ mode' # "unwind"
  <1>1. CASE ReturnTo(s, Fatal) /\ UNCHANGED frames
    <2>1. TopOK(s, "return", p) /\ Named(Fatal)
      BY DEF TopOK, Named, Fatal
    <2> QED
      BY <1>1, <2>1 DEF ReturnTo, Lines
  <1>2. Named(Pending)
    BY DEF Named, Pending
  <1>3. CASE /\ stack' = Append(s, NativeEntry) /\ mode' = "native" /\ result' = Pending
             /\ UNCHANGED frames
    <2>1. NativeEntry \in Entry /\ NativeEntry.at = "native" /\ AllWait(NativeEntry.saved)
      BY InterpAssumption DEF NativeEntry, Entry, AllWait
    <2>2. Inner(stack') /\ Last(stack').at = "native"
      BY <1>3, <2>1, PushInner
    <2> QED
      BY <1>2, <1>3, <2>2 DEF Lines, TopOK
  <1>4. CASE /\ m \in Guest /\ stack' = Append(s, RunEntry(m)) /\ mode' = "step"
             /\ result' = Pending /\ frames' = <<>>
    <2> DEFINE x == RunEntry(m)
    <2>1. x \in Entry /\ x.saved = frames /\ x.f.pending = None
      BY <1>4, InterpAssumption DEF RunEntry, NewFrame, Entry, Frame
    <2> HIDE DEF x
    <2>2. Inner(stack') /\ Last(stack') = x
      BY <1>4, <2>1, PushInner DEF x
    <2>3. AllWait(frames')
      BY <1>4 DEF AllWait
    <2> QED
      BY <1>2, <1>4, <2>1, <2>2, <2>3 DEF Lines, TopOK, Running
  <1> QED
    BY <1>1, <1>3, <1>4 DEF EnterRun

LEMMA FinishRunLines ==
    ASSUME NEW s \in Seq(Entry), NEW r, NEW p, Inner(s), s # <<>>, Last(s).at = "run",
           Named(r), FinishRun(s, r)
    PROVE  Lines(stack', mode', frames', result', p) /\ mode' # "unwind"
  <1>1. stack' = Front(s) /\ mode' = "return" /\ result' = r /\ frames' = Last(s).saved
    BY DEF FinishRun, ReturnTo
  <1>2. /\ Inner(Front(s)) /\ AllWait(Last(s).saved)
        /\ ~(Front(s) # <<>> /\ Last(Front(s)).at = "run")
    BY PopInner DEF Below
  <1> QED
    BY <1>1, <1>2 DEF Lines, TopOK

(* A frame moved to the next instruction. *)
LEMMA NextPc ==
    ASSUME NEW f \in Frame
    PROVE  LET g == [f EXCEPT !.pc = @ + 1]
           IN  g \in Frame /\ g.pc = f.pc + 1 /\ g.err = f.err /\ g.pending = f.pending
  <1> DEFINE g == [f EXCEPT !.pc = f.pc + 1]
  <1>1. f.pc \in Nat /\ f.pc + 1 \in Nat
    BY DEF Frame
  <1>2. g.pc = f.pc + 1
    BY DEF Frame
  <1>3. g.err = f.err /\ g.pending = f.pending
    BY DEF Frame
  <1>4. g \in Frame
    BY <1>1 DEF Frame
  <1> QED
    BY <1>2, <1>3, <1>4

LEMMA CallLines ==
    ASSUME NEW s \in Seq(Entry), NEW f \in Frame, NEW m, NEW p, Inner(s), s # <<>>,
           Last(s).at = "run", frames \in Seq(Frame), AllWait(frames), Initiating(f),
           Call(s, f, m)
    PROVE  Lines(stack', mode', frames', result', p) /\ mode' # "unwind"
  <1> DEFINE g == [f EXCEPT !.pc = @ + 1]
  <1>1. g \in Frame /\ Waiting(g)
    <2>1. g \in Frame /\ g.pc = f.pc + 1 /\ g.err = f.err /\ g.pending = f.pending
      BY NextPc
    <2> QED
      BY <2>1 DEF Initiating, Waiting
  <1>2. CASE FinishRun(s, Fatal)
    <2>1. Named(Fatal)
      BY DEF Named, Fatal
    <2> QED
      BY <1>2, <2>1, FinishRunLines
  <1>3. Named(Pending)
    BY DEF Named, Pending
  <1> HIDE DEF g
  <1>4. CASE /\ stack' = Append(WithFrame(s, g), NativeEntry)
             /\ mode' = "native" /\ result' = Pending /\ UNCHANGED frames
    <2> DEFINE t == WithFrame(s, g)
    <2>1. NativeEntry \in Entry /\ NativeEntry.at = "native" /\ AllWait(NativeEntry.saved)
      BY InterpAssumption DEF NativeEntry, Entry, AllWait
    <2>2. Inner(t) /\ t \in Seq(Entry) /\ Last(t).f = g
      BY <1>1, FrameInner
    <2>3. Below(g, "native")
      BY <1>1 DEF Below
    <2> HIDE DEF t
    <2>4. Inner(stack') /\ Last(stack').at = "native"
      BY <1>4, <2>1, <2>2, <2>3, PushInner DEF t
    <2> QED
      BY <1>3, <1>4, <2>4 DEF Lines, TopOK
  <1>5. CASE /\ m \in Guest /\ frames' = Append(frames, g)
             /\ stack' = WithFrame(s, NewFrame(m)) /\ mode' = "step" /\ result' = Pending
    <2>1. NewFrame(m) \in Frame /\ NewFrame(m).pending = None
      BY <1>5 DEF NewFrame, Frame
    <2>2. Inner(stack') /\ Last(stack').f = NewFrame(m)
      BY <1>5, <2>1, FrameInner
    <2>3. AllWait(frames')
      BY <1>1, <1>5 DEF AllWait
    <2> QED
      BY <1>3, <1>5, <2>1, <2>2, <2>3 DEF Lines, TopOK, Running
  <1> QED
    BY <1>2, <1>4, <1>5 DEF Call, g

(* The top frame goes on with no exception pending, or with one to take. *)
LEMMA GoOnLines ==
    ASSUME NEW s \in Seq(Entry), NEW f \in Frame, NEW fs, NEW p, NEW r, Inner(s), s # <<>>,
           Last(s).at = "run", Running(f, p), AllWait(fs), Named(r)
    PROVE  Lines(WithFrame(s, f), "step", fs, r, p)
  <1>1. Inner(WithFrame(s, f)) /\ Last(WithFrame(s, f)).f = f
    BY FrameInner
  <1> QED
    BY <1>1 DEF Lines, TopOK

(* A throw starts an unwinding. *)
LEMMA ThrowLines ==
    ASSUME NEW f \in Frame, NEW e, NEW at, NEW p, Inner(stack), frames \in Seq(Frame),
           AllWait(frames), e # None, e \in Exc, f.err = at, Throw(f, e, at), UNCHANGED stack
    PROVE  /\ Lines(stack', mode', frames', result', p)
           /\ Unwinding(frames', origin', thrown', carried', site') /\ Passed'
  <1> DEFINE g == [f EXCEPT !.pending = e]
             n == Len(frames) + 1
  <1>1. g \in Frame /\ g.pending = e /\ g.err = at
    BY DEF Frame
  <1>2. /\ frames' = Append(frames, g) /\ origin' = frames' /\ site' = at /\ thrown' = e
        /\ mode' = "unwind" /\ result' = Pending
    BY DEF Throw
  <1> HIDE DEF g
  <1>3. /\ Len(frames) \in Nat /\ frames' \in Seq(Frame) /\ Len(frames') = n /\ frames'[n] = g
        /\ frames' # <<>> /\ \A i \in 1..(n - 1) : frames'[i] = frames[i]
    BY <1>1, <1>2
  <1>4. Lines(stack', mode', frames', result', p)
    BY <1>2 DEF Lines, TopOK, Named, Pending
  <1>5. Unwinding(frames', origin', thrown', carried', site')
    <2>1. \A i \in 1..(n - 1) : Waiting(frames'[i])
      BY <1>3 DEF AllWait
    <2> QED
      BY <1>1, <1>2, <1>3, <2>1 DEF Unwinding
  <1>6. Passed'
    <2>1. (Len(frames') + 1)..Len(origin') = {}
      BY <1>2, <1>3
    <2> QED
      BY <2>1 DEF Passed
  <1> QED
    BY <1>4, <1>5, <1>6

(* The order the dex format gives the handlers is the order in which       *)
(* unwind meets them.  AppliesAt and CatchAt look at position j of a try   *)
(* item, its catch-all being the last.                                     *)
AppliesAt(t, j, e) ==
    IF j \in 1..Len(t.handlers)
    THEN ~t.handlers[j].known \/ e \in t.handlers[j].types
    ELSE t.all # 0
CatchAt(t, j) ==
    IF j > Len(t.handlers) THEN t.all
    ELSE IF t.handlers[j].known THEN t.handlers[j].addr ELSE Unresolved
Positions(t) == 1..(Len(t.handlers) + 1)
FirstApplies(t, j, e) ==
    /\ AppliesAt(t, j, e)
    /\ \A k \in Positions(t) : AppliesAt(t, k, e) => j <= k

LEMMA FirstIsLeast ==
    ASSUME NEW S \in SUBSET Nat, S # {}
    PROVE  First(S) \in S /\ \A j \in S : First(S) <= j
  BY NatMin DEF First

LEMMA ItemCatch ==
    ASSUME NEW t \in TryItem, NEW e
    PROVE  /\ HandlerOf(t, e) = NoCatch => \A j \in Positions(t) : ~AppliesAt(t, j, e)
           /\ HandlerOf(t, e) # NoCatch =>
                \E j \in Positions(t) : FirstApplies(t, j, e) /\ HandlerOf(t, e) = CatchAt(t, j)
  <1> DEFINE n == Len(t.handlers)
             hits == {i \in 1..n : ~t.handlers[i].known \/ e \in t.handlers[i].types}
  <1>1. t.handlers \in Seq(Handler) /\ t.all \in Nat /\ n \in Nat
    BY DEF TryItem
  <1>2. hits \in SUBSET Nat /\ hits \in SUBSET (1..n)
    BY <1>1
  <1>3. \A j \in 1..n : AppliesAt(t, j, e) <=> j \in hits
    BY DEF AppliesAt
  <1>4. n + 1 \in Positions(t) /\ (AppliesAt(t, n + 1, e) <=> t.all # 0) /\ CatchAt(t, n + 1) = t.all
    BY <1>1 DEF Positions, AppliesAt, CatchAt
  <1>5. \A j \in Positions(t) : j \in 1..n \/ j = n + 1
    BY <1>1 DEF Positions
  <1>6. CASE hits = {}
    <2>1. HandlerOf(t, e) = t.all
      BY <1>6 DEF HandlerOf
    <2>2. \A j \in Positions(t) : AppliesAt(t, j, e) => j = n + 1
      BY <1>3, <1>5, <1>6
    <2>3. CASE t.all = 0
      BY <1>4, <2>1, <2>2, <2>3 DEF NoCatch
    <2>4. CASE t.all # 0
      <3>1. FirstApplies(t, n + 1, e)
        BY <1>1, <1>4, <2>2, <2>4 DEF FirstApplies
      <3> QED
        BY <1>4, <2>1, <2>4, <3>1 DEF NoCatch
    <2> QED
      BY <2>3, <2>4
  <1>7. CASE hits # {}
    <2> DEFINE k == First(hits)
    <2>1. HandlerOf(t, e) = IF t.handlers[k].known THEN t.handlers[k].addr ELSE Unresolved
      BY <1>7 DEF HandlerOf
    <2> HIDE DEF hits
    <2>2. k \in hits /\ \A j \in hits : k <= j
      BY <1>2, <1>7, FirstIsLeast
    <2>3. k \in 1..n
      BY <1>2, <2>2
    <2> HIDE DEF k
    <2>4. t.handlers[k].addr \in Nat \ {0}
      <3>1. t.handlers[k] \in Handler
        BY <1>1, <2>3
      <3> QED
        BY <3>1 DEF Handler
    <2>5. HandlerOf(t, e) # NoCatch
      BY <2>1, <2>4 DEF NoCatch, Unresolved
    <2>6. HandlerOf(t, e) = CatchAt(t, k)
      BY <1>1, <2>1, <2>3 DEF CatchAt
    <2>7. FirstApplies(t, k, e) /\ k \in Positions(t)
      BY <1>1, <1>3, <1>5, <2>2, <2>3 DEF FirstApplies, Positions
    <2> QED
      BY <2>5, <2>6, <2>7
  <1> QED
    BY <1>6, <1>7

LEMMA ApplicableIs ==
    ASSUME NEW m, NEW a, NEW e
    PROVE  /\ \A p \in Applicable(m, a, e) : p = <<p[1], p[2]>>
           /\ \A i, j : <<i, j>> \in Applicable(m, a, e) <=>
                /\ i \in 1..Len(prog[m].tries) /\ j \in Positions(prog[m].tries[i])
                /\ a \in prog[m].tries[i].start..(prog[m].tries[i].end - 1)
                /\ AppliesAt(prog[m].tries[i], j, e)
  <1> DEFINE U == UNION {{i} \X Positions(prog[m].tries[i]) : i \in 1..Len(prog[m].tries)}
  <1>1. Applicable(m, a, e) =
          {p \in U : /\ a \in prog[m].tries[p[1]].start..(prog[m].tries[p[1]].end - 1)
                     /\ AppliesAt(prog[m].tries[p[1]], p[2], e)}
    BY DEF Applicable, Positions, AppliesAt
  <1>2. \A i, j : <<i, j>> \in U <=>
           i \in 1..Len(prog[m].tries) /\ j \in Positions(prog[m].tries[i])
    OBVIOUS
  <1>3. \A p \in U : p = <<p[1], p[2]>>
    OBVIOUS
  <1> HIDE DEF U
  <1> QED
    BY <1>1, <1>2, <1>3

LEMMA FrameCatch ==
    ASSUME prog \in [Guest -> Body], NEW f \in Frame, NEW e
    PROVE  LET A == Applicable(f.m, f.err, e)
               p == FirstOf(A)
           IN  /\ A = {} <=> CatchAddr(f, e) = NoCatch
               /\ A # {} => /\ p \in A
                            /\ CatchAddr(f, e) = CatchAt(prog[f.m].tries[p[1]], p[2])
  <1> DEFINE ts == prog[f.m].tries
             hits == {i \in 1..Len(ts) : Covers(ts[i], f) /\ HandlerOf(ts[i], e) # NoCatch}
             A == Applicable(f.m, f.err, e)
  <1>1. ts \in Seq(TryItem) /\ Len(ts) \in Nat /\ f.err \in Nat
    BY DEF Frame, Body
  <1>2. hits \in SUBSET Nat /\ hits \in SUBSET (1..Len(ts))
    BY <1>1
  <1>3. \A p \in A : p = <<p[1], p[2]>>
    BY ApplicableIs
  <1>4. \A i, j : <<i, j>> \in A <=>
                /\ i \in 1..Len(ts) /\ j \in Positions(ts[i])
                /\ f.err \in ts[i].start..(ts[i].end - 1) /\ AppliesAt(ts[i], j, e)
    BY ApplicableIs
  <1>5. CatchAddr(f, e) = IF hits = {} THEN NoCatch ELSE HandlerOf(ts[First(hits)], e)
    BY DEF CatchAddr
  <1>6. \A i \in 1..Len(ts) : i \in hits <=> Covers(ts[i], f) /\ HandlerOf(ts[i], e) # NoCatch
    OBVIOUS
  <1> HIDE DEF A, hits, ts
  <1>7. \A i \in 1..Len(ts) : ts[i] \in TryItem
    BY <1>1
  <1>8. \A i \in 1..Len(ts) : Covers(ts[i], f) <=> f.err \in ts[i].start..(ts[i].end - 1)
    <2>1. ASSUME NEW t \in TryItem PROVE Covers(t, f) <=> f.err \in t.start..(t.end - 1)
      <3>1. t.start \in Nat /\ t.end \in Nat
        BY DEF TryItem
      <3> QED
        BY <1>1, <3>1 DEF Covers
    <2> QED
      BY <1>7, <2>1
  <1>9. \A i, j : <<i, j>> \in A => i \in hits
    BY <1>4, <1>6, <1>7, <1>8, ItemCatch
  <1>10. CASE hits = {}
    <2>1. A = {}
      BY <1>3, <1>9, <1>10
    <2> QED
      BY <1>5, <1>10, <2>1 DEF A
  <1>11. CASE hits # {}
    <2> DEFINE k == First(hits)
    <2>1. k \in hits /\ \A i \in hits : k <= i
      BY <1>2, <1>11, FirstIsLeast
    <2> HIDE DEF k
    <2>2. k \in 1..Len(ts) /\ ts[k] \in TryItem /\ HandlerOf(ts[k], e) # NoCatch
          /\ f.err \in ts[k].start..(ts[k].end - 1)
      BY <1>2, <1>6, <1>7, <1>8, <2>1
    <2>3. PICK j \in Positions(ts[k]) :
            FirstApplies(ts[k], j, e) /\ HandlerOf(ts[k], e) = CatchAt(ts[k], j)
      BY <2>2, ItemCatch
    <2>4. <<k, j>> \in A
      BY <1>4, <2>2, <2>3 DEF FirstApplies
    <2>5. ASSUME NEW q \in A PROVE Before(<<k, j>>, q)
      <3> DEFINE x == q[1]
                 y == q[2]
      <3>1. q = <<x, y>>
        BY <1>3
      <3>2. <<x, y>> \in A
        BY <3>1
      <3> HIDE DEF x, y
      <3>3. x \in hits /\ x \in 1..Len(ts) /\ y \in Positions(ts[x]) /\ AppliesAt(ts[x], y, e)
        BY <1>4, <1>9, <3>2
      <3>4. k <= x
        BY <2>1, <3>3
      <3>5. x = k => j <= y
        BY <2>3, <3>3 DEF FirstApplies
      <3>6. k < x \/ x = k
        BY <1>2, <2>1, <3>3, <3>4
      <3>7. Before(<<k, j>>, <<x, y>>)
        BY <3>5, <3>6 DEF Before
      <3> QED
        BY <3>1, <3>7
    <2>6. ASSUME NEW q \in A, \A r \in A : Before(q, r) PROVE q = <<k, j>>
      <3> DEFINE x == q[1]
                 y == q[2]
      <3>1. q = <<x, y>>
        BY <1>3
      <3> HIDE DEF x, y
      <3>2. Before(<<k, j>>, <<x, y>>) /\ Before(<<x, y>>, <<k, j>>)
        BY <2>4, <2>5, <2>6, <3>1
      <3>3. <<x, y>> \in A
        BY <3>1
      <3>4. x \in 1..Len(ts) /\ y \in Positions(ts[x])
        BY <1>4, <3>3
      <3>5. k \in Nat /\ j \in Nat /\ x \in Nat /\ y \in Nat
        BY <1>1, <2>2, <2>3, <3>4 DEF Positions
      <3>6. x = k /\ y = j
        BY <3>2, <3>5 DEF Before
      <3> QED
        BY <3>1, <3>6
    <2>7. FirstOf(A) = <<k, j>>
      BY <2>4, <2>5, <2>6 DEF FirstOf
    <2>8. CatchAddr(f, e) = CatchAt(ts[k], j) /\ CatchAddr(f, e) # NoCatch
      BY <1>5, <1>11, <2>2, <2>3 DEF k
    <2>9. FirstOf(A)[1] = k /\ FirstOf(A)[2] = j
      BY <2>7
    <2>10. A # {} /\ FirstOf(A) \in A
      BY <2>4, <2>7
    <2> QED
      BY <2>8, <2>9, <2>10 DEF A, ts
  <1> QED
    BY <1>10, <1>11

LEMMA CatchTakes ==
    ASSUME HandlersTakeException, prog \in [Guest -> Body], NEW f \in Frame, NEW e,
           CatchAddr(f, e) \notin {NoCatch, Unresolved}
    PROVE  /\ CatchAddr(f, e) \in 1..Len(prog[f.m].insns)
           /\ prog[f.m].insns[CatchAddr(f, e)].op = "moveException"
  <1> DEFINE A == Applicable(f.m, f.err, e)
             i == FirstOf(A)[1]
             j == FirstOf(A)[2]
             t == prog[f.m].tries[i]
  <1>1. FirstOf(A) \in A /\ CatchAddr(f, e) = CatchAt(t, j)
    BY FrameCatch
  <1>2. <<i, j>> \in A
    BY <1>1, ApplicableIs
  <1>3. i \in 1..Len(prog[f.m].tries) /\ j \in Positions(t) /\ AppliesAt(t, j, e)
    BY <1>2, ApplicableIs
  <1>4. f.m \in Guest
    BY DEF Frame
  <1>5. /\ t.all # 0 => t.all \in 1..Len(prog[f.m].insns)
                        /\ prog[f.m].insns[t.all].op = "moveException"
        /\ \A k \in 1..Len(t.handlers) :
             t.handlers[k].addr \in 1..Len(prog[f.m].insns)
             /\ prog[f.m].insns[t.handlers[k].addr].op = "moveException"
    BY <1>3, <1>4 DEF HandlersTakeException
  <1>6. prog[f.m].tries \in Seq(TryItem)
    BY <1>4 DEF Body
  <1> HIDE DEF A, i, j
  <1>7. Len(t.handlers) \in Nat
    <2>1. t \in TryItem
      BY <1>3, <1>6
    <2> QED
      BY <2>1 DEF TryItem
  <1> HIDE DEF t
  <1>8. CASE j > Len(t.handlers)
    <2>1. j \notin 1..Len(t.handlers)
      BY <1>7, <1>8
    <2> QED
      BY <1>1, <1>3, <1>5, <1>8, <2>1 DEF CatchAt, AppliesAt
  <1>9. CASE ~(j > Len(t.handlers))
    <2>1. j \in 1..Len(t.handlers)
      BY <1>3, <1>7, <1>9 DEF Positions
    <2>2. CatchAddr(f, e) = t.handlers[j].addr
      BY <1>1, <1>9 DEF CatchAt
    <2> QED
      BY <1>5, <2>1, <2>2
  <1> QED
    BY <1>8, <1>9

(* What an action must establish. *)
InLine ==
    /\ Lines(stack', mode', frames', result', prog)
    /\ mode' = "unwind" => Unwinding(frames', origin', thrown', carried', site') /\ Passed'

LEMMA StepLines ==
    ASSUME InterpInv, Lines(stack, mode, frames, result, prog), Step
    PROVE  InLine
  <1>1. /\ stack \in Seq(Entry) /\ stack # <<>> /\ Last(stack).at = "run" /\ mode = "step"
        /\ frames \in Seq(Frame) /\ Top.f \in Frame /\ Current \in Frame
        /\ Top = Last(stack) /\ prog \in [Guest -> Body]
    <2>1. mode = "step"
      BY DEF Step
    <2> QED
      BY <2>1, TopRun DEF InterpInv, Core, FramesOK, GoodStack, Top
  <1>2. Inner(stack) /\ AllWait(frames) /\ Named(result) /\ Running(Top.f, prog)
    BY <1>1 DEF Lines, TopOK
  <1>3. ASSUME InRange, Fetch.op # "moveException" PROVE Initiating(Current)
    <2>1. Top.f.pending = None
      BY <1>2, <1>3 DEF Running, Fetch
    <2>2. Current.pc = Top.f.pc /\ Current.err = Top.f.pc /\ Current.pending = Top.f.pending
      BY <1>1 DEF Current, Frame
    <2> QED
      BY <2>1, <2>2 DEF Initiating
  <1>4. Named(Fatal) /\ Named(Ok)
    BY DEF Named, Fatal, Ok
  <1>5. ASSUME NEW r, Named(r), FinishRun(stack, r) PROVE InLine
    BY <1>1, <1>2, <1>5, FinishRunLines DEF InLine
  <1>6. ASSUME NEW g \in Frame, g.pending = None, stack' = WithFrame(stack, g),
               UNCHANGED <<frames, mode, result>>
        PROVE  InLine
    <2>1. Running(g, prog)
      BY <1>6 DEF Running
    <2> QED
      BY <1>1, <1>2, <1>6, <2>1, GoOnLines DEF InLine
  <1>7. ASSUME NEW pc \in Nat, Goto(pc), InRange, Fetch.op # "moveException" PROVE InLine
    <2> DEFINE g == [Current EXCEPT !.pc = pc]
    <2>1. g \in Frame /\ g.pending = Current.pending
      BY <1>1 DEF Frame
    <2>2. stack' = WithFrame(stack, g) /\ UNCHANGED <<frames, mode, result>>
      BY <1>7 DEF Goto
    <2>3. Current.pending = None
      BY <1>3, <1>7 DEF Initiating
    <2> HIDE DEF g
    <2> QED
      BY <1>6, <2>1, <2>2, <2>3
  <1>8. ASSUME NEW m, Call(stack, Current, m), InRange, Fetch.op # "moveException" PROVE InLine
    BY <1>1, <1>2, <1>3, <1>8, CallLines DEF InLine
  <1>9. ASSUME NEW c \in Class, InitClass(c), InRange, Fetch.op # "moveException" PROVE InLine
    <2> DEFINE t == WithFrame(stack, Current)
               x == ClinitEntry(c)
               s == Append(t, x)
    <2>1. Inner(t) /\ t \in Seq(Entry) /\ t # <<>> /\ Last(t).f = Current
      BY <1>1, <1>2, FrameInner
    <2>2. x \in Entry /\ x.at = "clinit" /\ AllWait(x.saved)
      BY <1>9, InterpAssumption DEF ClinitEntry, Entry, AllWait
    <2>3. Below(Current, "clinit")
      BY <1>3, <1>9 DEF Below
    <2>4. EnterRun(s, ClinitOf[c])
      BY <1>9 DEF InitClass
    <2> HIDE DEF t, x
    <2>5. Inner(s) /\ Last(s) = x /\ s \in Seq(Entry)
      BY <2>1, <2>2, <2>3, PushInner
    <2> HIDE DEF s
    <2>6. Lines(stack', mode', frames', result', prog) /\ mode' # "unwind"
      BY <1>1, <1>2, <2>2, <2>4, <2>5, EnterRunLines
    <2> QED
      BY <2>6 DEF InLine
  <1>10. CASE StepFail
    BY <1>4, <1>5, <1>10 DEF StepFail
  <1>11. CASE InRange /\ (StepPlain \/ StepGoto \/ StepIf)
    <2>1. Fetch.to \in Nat /\ Top.f.pc + 1 \in Nat
      BY <1>1, <1>11, FetchType, TopRun DEF Insn
    <2>2. Fetch.op # "moveException"
      BY <1>11 DEF StepPlain, StepGoto, StepIf
    <2>3. \E pc \in Nat : Goto(pc)
      BY <1>11, <2>1 DEF StepPlain, StepGoto, StepIf
    <2> QED
      BY <1>7, <1>11, <2>2, <2>3
  <1>12. CASE InRange /\ (StepThrow \/ StepTrap)
    <2>1. Fetch.op \in {"throw", "trap"} /\ Top.f.pc + 1 \in Nat
      BY <1>1, <1>12, TopRun DEF StepThrow, StepTrap
    <2>2. Fetch.e \in Exc /\ Fetch.e # None
      BY <1>1, <1>12, <2>1, FetchType, InterpAssumption
    <2>3. CASE Throw(Current, Fetch.e, Top.f.pc) /\ UNCHANGED stack
      <3>1. Current.err = Top.f.pc
        BY <1>1 DEF Current, Frame
      <3> QED
        BY <1>1, <1>2, <2>2, <2>3, <3>1, ThrowLines DEF InLine
    <2>4. CASE Goto(Top.f.pc + 1)
      BY <1>7, <1>12, <2>1, <2>4
    <2> QED
      BY <1>12, <2>3, <2>4 DEF StepThrow, StepTrap
  <1>13. CASE InRange /\ StepMoveException
    <2> DEFINE g == [Current EXCEPT !.pc = @ + 1, !.pending = None]
    <2>1. g \in Frame /\ g.pending = None
      <3>1. [Current EXCEPT !.pc = @ + 1] \in Frame
        BY <1>1, NextPc
      <3>2. g = [[Current EXCEPT !.pc = @ + 1] EXCEPT !.pending = None]
        OBVIOUS
      <3> QED
        BY <3>1, <3>2 DEF Frame
    <2>2. stack' = WithFrame(stack, g) /\ UNCHANGED <<frames, mode, result>>
      BY <1>13 DEF StepMoveException
    <2> HIDE DEF g
    <2> QED
      BY <1>6, <2>1, <2>2
  <1>14. CASE InRange /\ StepReturn
    <2>1. CASE FinishRun(stack, Ok)
      BY <1>4, <1>5, <2>1
    <2>2. CASE /\ frames # <<>> /\ stack' = WithFrame(stack, Last(frames))
               /\ frames' = Front(frames) /\ UNCHANGED <<mode, result, depth>>
      <3>1. /\ Last(frames) \in Frame /\ Len(frames) \in Nat \ {0}
            /\ Len(Front(frames)) = Len(frames) - 1
            /\ \A i \in 1..(Len(frames) - 1) : Front(frames)[i] = frames[i]
        BY <1>1, <2>2, PopFacts
      <3>2. Waiting(Last(frames)) /\ AllWait(Front(frames))
        BY <1>2, <3>1 DEF AllWait, Last
      <3>3. Running(Last(frames), prog)
        BY <3>2 DEF Waiting, Running
      <3> QED
        BY <1>1, <1>2, <2>2, <3>1, <3>2, <3>3, GoOnLines DEF InLine
    <2> QED
      BY <1>14, <2>1, <2>2 DEF StepReturn
  <1>15. CASE InRange /\ StepInvoke
    <2>1. Fetch.op # "moveException" /\ Call(stack, Current, Fetch.m)
      BY <1>15 DEF StepInvoke
    <2> QED
      BY <1>8, <1>15, <2>1
  <1>16. CASE InRange /\ StepInvokeStatic
    <2>1. Fetch.c \in Class /\ Fetch.op # "moveException"
      BY <1>1, <1>16, FetchType DEF StepInvokeStatic
    <2>2. InitClass(Fetch.c) \/ Call(stack, Current, Fetch.m)
      BY <1>16 DEF StepInvokeStatic
    <2> QED
      BY <1>8, <1>9, <1>16, <2>1, <2>2
  <1>17. CASE InRange /\ StepSGet
    <2>1. Fetch.c \in Class /\ Fetch.op # "moveException"
      BY <1>1, <1>17, FetchType DEF StepSGet
    <2> DEFINE g == [Current EXCEPT !.pc = @ + 1]
    <2>2. InitClass(Fetch.c) \/ (stack' = WithFrame(stack, g) /\ UNCHANGED <<frames, mode, result>>)
      BY <1>17 DEF StepSGet
    <2>3. g \in Frame /\ g.pending = Current.pending
      BY <1>1, NextPc
    <2>4. Current.pending = None
      BY <1>3, <1>17, <2>1 DEF Initiating
    <2> HIDE DEF g
    <2> QED
      BY <1>6, <1>9, <1>17, <2>1, <2>2, <2>3, <2>4
  <1> QED
    BY <1>10, <1>11, <1>12, <1>13, <1>14, <1>15, <1>16, <1>17 DEF Step

(* What unwind sees of the frame it looks at. *)
LEMMA UnwindTop ==
    ASSUME InterpInv, mode = "unwind", frames # <<>>,
           Unwinding(frames, origin, thrown, carried, site)
    PROVE  /\ Len(frames) \in 1..Len(origin) /\ Last(frames) = origin[Len(frames)]
           /\ Looked = thrown /\ Last(frames) \in Frame /\ Front(frames) \in Seq(Frame)
           /\ Len(Front(frames)) = Len(frames) - 1 /\ AllWait(Front(frames))
           /\ \A i \in 1..(Len(frames) - 1) : Front(frames)[i] = origin[i]
  <1>1. frames \in Seq(Frame) /\ origin \in Seq(Frame)
    BY DEF InterpInv, Core, FramesOK, Plain, ExcOK
  <1>2. /\ Len(frames) \in Nat \ {0} /\ Last(frames) \in Frame /\ Front(frames) \in Seq(Frame)
        /\ Len(Front(frames)) = Len(frames) - 1
        /\ \A i \in 1..(Len(frames) - 1) : Front(frames)[i] = frames[i]
    BY <1>1, PopFacts
  <1>3. Len(origin) \in Nat /\ Len(frames) \in 1..Len(origin) /\ Len(frames) \in 1..Len(frames)
    BY <1>1, <1>2 DEF Unwinding
  <1>4. Last(frames) = origin[Len(frames)]
    BY <1>3 DEF Unwinding, Last
  <1>5. \A i \in 1..(Len(frames) - 1) : i \in 1..Len(frames) /\ i \in 1..(Len(origin) - 1)
    BY <1>2, <1>3
  <1>6. \A i \in 1..(Len(frames) - 1) : Front(frames)[i] = origin[i] /\ Waiting(origin[i])
    BY <1>2, <1>5 DEF Unwinding
  <1>7. Looked = thrown
    <2>1. CASE Len(frames) = Len(origin)
      BY <1>4, <2>1 DEF Looked, Unwinding
    <2>2. CASE Len(frames) # Len(origin)
      <3>1. Len(frames) \in 1..(Len(origin) - 1) /\ Len(frames) < Len(origin)
        BY <1>3, <2>2
      <3>2. carried = thrown /\ Last(frames).pending = None
        BY <1>4, <3>1 DEF Unwinding, Waiting
      <3> QED
        BY <3>2 DEF Looked
    <2> QED
      BY <2>1, <2>2
  <1>8. AllWait(Front(frames))
    BY <1>2, <1>6 DEF AllWait
  <1> QED
    BY <1>2, <1>3, <1>4, <1>6, <1>7, <1>8

LEMMA UnwindLines ==
    ASSUME InterpInv, HandlersTakeException, Lines(stack, mode, frames, result, prog),
           mode = "unwind", Unwinding(frames, origin, thrown, carried, site), Passed,
           UnwindCatch \/ UnwindPop \/ UnwindFail \/ UnwindOut
    PROVE  InLine
  <1>1. /\ stack \in Seq(Entry) /\ stack # <<>> /\ Last(stack).at = "run"
        /\ prog \in [Guest -> Body] /\ frames \in Seq(Frame) /\ origin \in Seq(Frame)
    BY TopRun DEF InterpInv, Core, FramesOK, GoodStack, Plain, ExcOK
  <1>2. Inner(stack) /\ Named(result)
    BY DEF Lines
  <1>3. CASE UnwindCatch
    <2> DEFINE f == Last(frames)
               a == CatchAddr(f, Looked)
               g == [f EXCEPT !.pc = a, !.pending = Looked]
    <2>1. /\ frames # <<>> /\ a \notin {NoCatch, Unresolved} /\ stack' = WithFrame(stack, g)
          /\ frames' = Front(frames) /\ mode' = "step" /\ result' = result
      BY <1>3 DEF UnwindCatch
    <2>2. f \in Frame /\ AllWait(Front(frames)) /\ Looked = thrown
      BY <2>1, UnwindTop
    <2>3. a \in 1..Len(prog[f.m].insns) /\ prog[f.m].insns[a].op = "moveException"
      BY <1>1, <2>1, <2>2, CatchTakes
    <2>4. a \in Nat
      BY <1>1, <2>1, <2>2, CatchType
    <2>5. Looked \in Exc \cup {None}
      BY <2>2 DEF InterpInv, Plain, ExcOK
    <2> HIDE DEF a, f
    <2>6. g \in Frame /\ g.pc = a /\ g.m = f.m
      <3>1. [f EXCEPT !.pc = a] \in Frame /\ [f EXCEPT !.pc = a].pc = a /\ [f EXCEPT !.pc = a].m = f.m
        BY <2>2, <2>4 DEF Frame
      <3>2. g = [[f EXCEPT !.pc = a] EXCEPT !.pending = Looked]
        OBVIOUS
      <3> HIDE DEF g
      <3> QED
        BY <2>5, <3>1, <3>2 DEF Frame
    <2> HIDE DEF g
    <2>7. Running(g, prog)
      BY <2>3, <2>6 DEF Running
    <2>8. Lines(stack', "step", frames', result', prog)
      BY <1>1, <1>2, <2>1, <2>2, <2>6, <2>7, GoOnLines
    <2> QED
      BY <2>1, <2>8 DEF InLine
  <1>4. CASE UnwindPop
    <2>1. /\ frames # <<>> /\ CatchAddr(Last(frames), Looked) = NoCatch /\ carried' = Looked
          /\ frames' = Front(frames) /\ mode' = "unwind" /\ prog' = prog
          /\ UNCHANGED <<stack, result, thrown, origin, site>>
      BY <1>4 DEF UnwindPop
    <2>2. /\ Len(frames) \in 1..Len(origin) /\ Last(frames) = origin[Len(frames)]
          /\ Looked = thrown /\ Len(frames') = Len(frames) - 1
          /\ \A i \in 1..(Len(frames) - 1) : frames'[i] = origin[i]
      BY <2>1, UnwindTop
    <2>3. Lines(stack', mode', frames', result', prog)
      BY <1>2, <2>1 DEF Lines, TopOK
    <2>4. Unwinding(frames', origin', thrown', carried', site')
      <3>1. Len(frames') <= Len(origin) /\ Len(frames) \in Nat /\ Len(origin) \in Nat
        BY <1>1, <2>2
      <3> QED
        BY <2>1, <2>2, <3>1 DEF Unwinding
    <2>5. Passed'
      <3>1. \A i \in (Len(frames') + 1)..Len(origin) :
              i = Len(frames) \/ i \in (Len(frames) + 1)..Len(origin)
        BY <1>1, <2>2
      <3>2. \A i \in (Len(frames') + 1)..Len(origin) : CatchAddr(origin[i], thrown) = NoCatch
        BY <2>1, <2>2, <3>1 DEF Passed
      <3> QED
        BY <2>1, <3>2, ZenonT(60) DEF Passed, CatchAddr
    <2> QED
      BY <2>3, <2>4, <2>5 DEF InLine
  <1>5. CASE UnwindFail \/ UnwindOut
    <2>1. \E r : Named(r) /\ FinishRun(stack, r)
      BY <1>5 DEF UnwindFail, UnwindOut, Named, Fatal, Uncaught, Unwinding
    <2>2. Lines(stack', mode', frames', result', prog) /\ mode' # "unwind"
      BY <1>1, <1>2, <2>1, FinishRunLines
    <2> QED
      BY <2>2 DEF InLine
  <1> QED
    BY <1>3, <1>4, <1>5

(* A native returns: below it a frame waits, or another native. *)
LEMMA PopLines ==
    ASSUME stack \in Seq(Entry), stack # <<>>, Last(stack).at = "native", Inner(stack),
           AllWait(frames), NEW r, NEW p, Named(r), ReturnTo(Front(stack), r), UNCHANGED frames
    PROVE  Lines(stack', mode', frames', result', p) /\ mode' # "unwind"
  <1>1. /\ Inner(Front(stack))
        /\ Front(stack) # <<>> /\ Last(Front(stack)).at = "run"
             => Below(Last(Front(stack)).f, Last(stack).at)
    BY PopInner
  <1>2. TopOK(Front(stack), "return", p)
    BY <1>1 DEF TopOK, Below
  <1> QED
    BY <1>1, <1>2 DEF ReturnTo, Lines

LEMMA NativeLines ==
    ASSUME InterpInv, Lines(stack, mode, frames, result, prog),
           (\E m \in Method : NativeCall(m)) \/ NativeReturn
    PROVE  InLine
  <1>1. /\ stack \in Seq(Entry) /\ mode = "native" /\ stack # <<>> /\ Last(stack).at = "native"
        /\ frames \in Seq(Frame)
    BY DEF InterpInv, Core, ModeOK, GoodStack, FramesOK, NativeCall, NativeReturn
  <1>2. Inner(stack) /\ AllWait(frames) /\ Named(result)
    BY <1>1 DEF Lines
  <1>3. ASSUME NEW m \in Method, NativeCall(m)
        PROVE  InLine
    <2> DEFINE x == [Last(stack) EXCEPT !.calls = @ + 1]
               s == [stack EXCEPT ![Len(stack)] = x]
    <2>1. Last(stack) \in Entry /\ Last(stack).calls < MaxCalls /\ Last(stack) = stack[Len(stack)]
      BY <1>1, <1>3, PopFacts DEF NativeCall, Top, Last
    <2>2. x \in Entry /\ x.at = "native" /\ x.saved = Last(stack).saved
      <3>1. Last(stack).calls + 1 \in 0..MaxCalls
        BY <2>1, InterpAssumption DEF Entry
      <3> QED
        BY <1>1, <2>1, <3>1 DEF Entry
    <2>3. s = [stack EXCEPT ![Len(stack)].calls = @ + 1]
      BY <1>1, <2>1
    <2> HIDE DEF x
    <2>4. Inner(s) /\ s \in Seq(Entry) /\ s # <<>> /\ Last(s) = x
      BY <1>1, <1>2, <2>2, ReplaceInner
    <2>5. \/ stack' = Append(s, NativeEntry) /\ UNCHANGED <<frames, mode, result, depth>>
          \/ EnterRun(s, m)
      BY <1>3, <2>3 DEF NativeCall
    <2> HIDE DEF s
    <2>6. CASE stack' = Append(s, NativeEntry) /\ UNCHANGED <<frames, mode, result, depth>>
      <3>1. NativeEntry \in Entry /\ NativeEntry.at = "native" /\ AllWait(NativeEntry.saved)
        BY InterpAssumption DEF NativeEntry, Entry, AllWait
      <3>2. Inner(stack') /\ Last(stack').at = "native"
        BY <2>2, <2>4, <2>6, <3>1, PushInner
      <3> QED
        BY <1>1, <1>2, <2>6, <3>2 DEF InLine, Lines, TopOK
    <2>7. CASE EnterRun(s, m)
      BY <1>1, <1>2, <2>2, <2>4, <2>7, EnterRunLines DEF InLine
    <2> QED
      BY <2>5, <2>6, <2>7
  <1>4. CASE NativeReturn
    <2>1. PICK r \in {Ok, Fatal} \cup {Uncaught(e) : e \in Exc} :
            ReturnTo(Front(stack), r) /\ UNCHANGED frames
      BY <1>4 DEF NativeReturn
    <2>2. Named(r)
      BY <2>1, InterpAssumption DEF Named, Ok, Fatal, Uncaught
    <2> QED
      BY <1>1, <1>2, <2>1, <2>2, PopLines DEF InLine
  <1> QED
    BY <1>3, <1>4

LEMMA ReturnLines ==
    ASSUME InterpInv, Lines(stack, mode, frames, result, prog),
           HostReturn \/ ToNative \/ ToLoop \/ ToClinit \/ OutOfBudget
    PROVE  InLine
  <1>1. /\ GoodStack(stack) /\ stack \in Seq(Entry) /\ frames \in Seq(Frame)
        /\ mode \in {"return", "step"} /\ result \in Result
    BY DEF InterpInv, Core, GoodStack, FramesOK, Plain, HostReturn, ToNative, ToLoop,
           ToClinit, OutOfBudget
  <1>2. Inner(stack) /\ AllWait(frames) /\ Named(result) /\ TopOK(stack, mode, prog)
    BY <1>1 DEF Lines
  <1>3. Named(Fatal) /\ Named(Pending)
    BY DEF Named, Fatal, Pending
  <1>4. CASE HostReturn
    BY <1>2, <1>3, <1>4 DEF HostReturn, InLine, Lines, TopOK
  <1>5. CASE ToNative
    <2>1. stack # <<>> /\ Last(stack).at = "native" /\ UNCHANGED frames
      BY <1>5 DEF ToNative, Top
    <2>2. CASE mode' = "native" /\ result' = Pending /\ UNCHANGED stack
      BY <1>2, <1>3, <2>1, <2>2 DEF InLine, Lines, TopOK
    <2>3. CASE ReturnTo(Front(stack), result)
      BY <1>1, <1>2, <2>1, <2>3, PopLines DEF InLine
    <2> QED
      BY <1>5, <2>2, <2>3 DEF ToNative
  <1>6. CASE ToLoop
    <2>1. stack # <<>> /\ Last(stack).at = "run" /\ mode = "return" /\ Top = Last(stack)
      BY <1>6 DEF ToLoop, Top
    <2>2. Waiting(Top.f) /\ Top.f \in Frame
      BY <1>1, <1>2, <2>1, Pop DEF TopOK
    <2>3. CASE mode' = "step" /\ result' = Pending /\ UNCHANGED <<frames, stack, depth, excVars>>
      <3>1. Running(Top.f, prog)
        BY <2>2 DEF Waiting, Running
      <3> QED
        BY <1>2, <1>3, <2>1, <2>3, <3>1 DEF InLine, Lines, TopOK
    <2>4. CASE /\ result.kind = "uncaught"
               /\ Throw(Top.f, result.e, Top.f.pc - 1) /\ UNCHANGED stack
      <3>1. Top.f.err = Top.f.pc - 1
        BY <2>2 DEF Waiting, Frame
      <3>2. result.e # None /\ result.e \in Exc
        BY <1>1, <1>2, <2>4 DEF Named, Result
      <3> QED
        BY <1>1, <1>2, <2>2, <2>4, <3>1, <3>2, ThrowLines DEF InLine
    <2>5. CASE FinishRun(stack, Fatal)
      BY <1>1, <1>2, <1>3, <2>1, <2>5, FinishRunLines DEF InLine
    <2>6. CASE result.kind = "ok"
      BY <1>6, <2>3, <2>6 DEF ToLoop
    <2>7. CASE result.kind = "uncaught"
      BY <1>6, <2>4, <2>7 DEF ToLoop
    <2>8. CASE result.kind \notin {"ok", "uncaught"}
      BY <1>6, <2>5, <2>8 DEF ToLoop
    <2> QED
      BY <2>6, <2>7, <2>8
  <1>7. CASE ToClinit
    <2> DEFINE s == Front(stack)
               f == Last(s).f
               g == [f EXCEPT !.pc = @ + 1]
    <2>1. stack # <<>> /\ Last(stack).at = "clinit"
      BY <1>7 DEF ToClinit, Top
    <2>2. GoodStack(s) /\ s # <<>> /\ Last(s).at = "run"
      BY <1>1, <2>1, Pop
    <2>3. f \in Frame /\ s \in Seq(Entry)
      BY <2>2, Pop DEF GoodStack
    <2>4. Inner(s) /\ Below(f, "clinit")
      BY <1>1, <1>2, <2>1, <2>2, PopInner
    <2>5. Initiating(f)
      BY <2>4 DEF Below
    <2>6. \/ FinishRun(s, result)
          \/ \E m : Call(s, f, m)
          \/ /\ stack' = WithFrame(s, g)
             /\ mode' = "step" /\ result' = Pending
             /\ UNCHANGED <<frames, depth>>
      BY <1>7 DEF ToClinit
    <2> HIDE DEF s, f
    <2>7. CASE FinishRun(s, result)
      BY <1>2, <2>2, <2>3, <2>4, <2>7, FinishRunLines DEF InLine
    <2>8. CASE \E m : Call(s, f, m)
      BY <1>1, <1>2, <2>2, <2>3, <2>4, <2>5, <2>8, CallLines DEF InLine
    <2>9. CASE /\ stack' = WithFrame(s, g)
               /\ mode' = "step" /\ result' = Pending
               /\ UNCHANGED <<frames, depth>>
      <3>1. g \in Frame /\ g.pending = f.pending
        BY <2>3, NextPc
      <3>2. Running(g, prog)
        BY <2>5, <3>1 DEF Initiating, Running
      <3> HIDE DEF g
      <3>3. Lines(stack', "step", frames, Pending, prog)
        BY <1>2, <1>3, <2>2, <2>3, <2>4, <2>9, <3>1, <3>2, GoOnLines
      <3> QED
        BY <2>9, <3>3 DEF InLine
    <2> QED
      BY <2>6, <2>7, <2>8, <2>9
  <1>8. CASE OutOfBudget
    <2>1. FinishRun(stack, Fatal) /\ mode = "step"
      BY <1>8 DEF OutOfBudget
    <2>2. stack # <<>> /\ Last(stack).at = "run"
      BY <2>1, TopRun
    <2> QED
      BY <1>1, <1>2, <1>3, <2>1, <2>2, FinishRunLines DEF InLine
  <1> QED
    BY <1>4, <1>5, <1>6, <1>7, <1>8

LEMMA LineInit == Init => LineInv
  <1> SUFFICES ASSUME Init PROVE LineInv
    OBVIOUS
  <1>1. stack = <<>> /\ frames = <<>> /\ mode = "idle" /\ result = Pending
    BY DEF Init
  <1>2. Inner(stack) /\ AllWait(frames)
    BY <1>1 DEF Inner, AllWait
  <1> QED
    BY <1>1, <1>2 DEF LineInv, Lines, TopOK, Named, Pending

LEMMA LineNext == InterpInv /\ LineInv /\ [Next]_vars => LineInv'
  <1> SUFFICES ASSUME InterpInv, LineInv, [Next]_vars PROVE LineInv'
    OBVIOUS
  <1>1. prog' = prog
    BY DEF Next, Internal, HostCall, HostReturn, Step, OutOfBudget, UnwindCatch, UnwindPop,
           UnwindFail, UnwindOut, NativeCall, NativeReturn, ToNative, ToLoop, ToClinit, vars
  <1>2. HandlersTakeException' <=> HandlersTakeException
    BY <1>1 DEF HandlersTakeException
  <1>3. SUFFICES ASSUME HandlersTakeException
                 PROVE  /\ Lines(stack', mode', frames', result', prog')
                        /\ mode' = "unwind" =>
                             Unwinding(frames', origin', thrown', carried', site') /\ Passed'
    BY <1>2 DEF LineInv
  <1>4. /\ Lines(stack, mode, frames, result, prog)
        /\ mode = "unwind" => Unwinding(frames, origin, thrown, carried, site) /\ Passed
    BY <1>3 DEF LineInv
  <1>5. SUFFICES InLine
    BY <1>1 DEF InLine
  <1>6. ASSUME NEW m \in Method, HostCall(m) PROVE InLine
    <2>1. stack = <<>> /\ EnterRun(stack, m) /\ mode = "idle" /\ frames \in Seq(Frame)
          /\ stack \in Seq(Entry)
      BY <1>6 DEF HostCall, InterpInv, Core, ModeOK, FramesOK
    <2>2. Lines(stack', mode', frames', result', prog) /\ mode' # "unwind"
      BY <1>4, <2>1, EnterRunLines DEF Lines
    <2> QED
      BY <2>2 DEF InLine
  <1>7. CASE Step
    BY <1>4, <1>7, StepLines
  <1>8. CASE UnwindCatch \/ UnwindPop \/ UnwindFail \/ UnwindOut
    <2>1. mode = "unwind"
      BY <1>8 DEF UnwindCatch, UnwindPop, UnwindFail, UnwindOut
    <2> QED
      BY <1>3, <1>4, <1>8, <2>1, UnwindLines
  <1>9. CASE (\E m \in Method : NativeCall(m)) \/ NativeReturn
    BY <1>4, <1>9, NativeLines
  <1>10. CASE HostReturn \/ ToNative \/ ToLoop \/ ToClinit \/ OutOfBudget
    BY <1>4, <1>10, ReturnLines
  <1>11. CASE UNCHANGED vars
    <2>1. UNCHANGED <<prog, frames, stack, mode, result, thrown, carried, origin, site>>
      BY <1>11 DEF vars
    <2>2. Passed' <=> Passed
      BY <2>1 DEF Passed, CatchAddr
    <2> QED
      BY <1>4, <2>1, <2>2 DEF InLine
  <1> QED
    BY <1>6, <1>7, <1>8, <1>9, <1>10, <1>11 DEF Next, Internal

LEMMA LineHolds == Spec => [](InterpInv /\ LineInv)
  BY InvHolds, LineInit, LineNext, PTL DEF Spec

(* The frames that catch, by the dex format and by unwind. *)
LEMMA CatchingIs ==
    ASSUME InterpInv, Unwinding(frames, origin, thrown, carried, site)
    PROVE  \A i \in 1..Len(origin) :
             /\ origin[i] \in Frame
             /\ HandlersIn(i) = Applicable(origin[i].m, origin[i].err, thrown)
             /\ i \in Catching <=> CatchAddr(origin[i], thrown) # NoCatch
  <1>1. origin \in Seq(Frame) /\ Len(origin) \in Nat /\ prog \in [Guest -> Body]
    BY InterpAssumption DEF InterpInv, Plain, ExcOK
  <1> TAKE i \in 1..Len(origin)
  <1>2. origin[i] \in Frame
    BY <1>1
  <1>3. Executing(i) = origin[i].err
    <2>1. CASE i = Len(origin)
      BY <2>1 DEF Executing, Unwinding
    <2>2. CASE i # Len(origin)
      <3>1. i \in 1..(Len(origin) - 1)
        BY <1>1, <2>2
      <3>2. origin[i].pc = origin[i].err + 1
        BY <3>1 DEF Unwinding, Waiting
      <3>3. origin[i].err \in Nat
        BY <1>2 DEF Frame
      <3> QED
        BY <2>2, <3>2, <3>3 DEF Executing
    <2> QED
      BY <2>1, <2>2
  <1>4. HandlersIn(i) = Applicable(origin[i].m, origin[i].err, thrown)
    BY <1>3 DEF HandlersIn
  <1>5. HandlersIn(i) = {} <=> CatchAddr(origin[i], thrown) = NoCatch
    BY <1>1, <1>2, <1>4, FrameCatch
  <1> QED
    BY <1>2, <1>4, <1>5 DEF Catching

LEMMA UnwoundHolds ==
    ASSUME InterpInv, LineInv, HandlersTakeException, [Next]_vars,
           mode = "unwind", mode' # "unwind"
    PROVE  Unwound
  <1>1. /\ Unwinding(frames, origin, thrown, carried, site) /\ Passed
        /\ stack \in Seq(Entry) /\ stack # <<>> /\ Last(stack).at = "run"
        /\ prog \in [Guest -> Body] /\ frames \in Seq(Frame) /\ origin \in Seq(Frame)
        /\ Inner(stack)
    BY TopRun DEF LineInv, Lines, InterpInv, Core, FramesOK, GoodStack, Plain, ExcOK
  <1>2. UnwindCatch \/ UnwindFail \/ UnwindOut
    BY DEF Next, Internal, HostCall, HostReturn, Step, OutOfBudget, UnwindPop, NativeCall,
           NativeReturn, ToNative, ToLoop, ToClinit, vars
  <1>3. CASE UnwindOut
    <2>1. frames = <<>> /\ mode' = "return" /\ result' = Uncaught(thrown)
      BY <1>3 DEF UnwindOut, FinishRun, ReturnTo
    <2>2. \A i \in 1..Len(origin) : CatchAddr(origin[i], thrown) = NoCatch
      <3>1. Len(frames) + 1 = 1
        BY <2>1
      <3> QED
        BY <1>1, <3>1 DEF Passed
    <2>3. Catching = {}
      <3>1. \A i \in Catching : i \in 1..Len(origin)
        BY DEF Catching
      <3> QED
        BY <1>1, <2>2, <3>1, CatchingIs
    <2> QED
      BY <2>1, <2>3 DEF Unwound
  <1>4. CASE UnwindCatch \/ UnwindFail
    <2> DEFINE n == Len(frames)
               f == origin[n]
               a == CatchAddr(f, thrown)
               A == HandlersIn(n)
               p == FirstOf(A)
               t == prog[f.m].tries[p[1]]
    <2>1. frames # <<>>
      BY <1>4 DEF UnwindCatch, UnwindFail
    <2>2. /\ n \in 1..Len(origin) /\ Last(frames) = f /\ Looked = thrown
          /\ Front(frames) \in Seq(Frame) /\ Len(Front(frames)) = n - 1
          /\ \A i \in 1..(n - 1) : Front(frames)[i] = origin[i]
      BY <1>1, <2>1, UnwindTop
    <2>3. f \in Frame /\ A = Applicable(f.m, f.err, thrown) /\ (n \in Catching <=> a # NoCatch)
      BY <1>1, <2>2, CatchingIs
    <2>4. a # NoCatch
      BY <1>4, <2>2 DEF UnwindCatch, UnwindFail, NoCatch, Unresolved
    <2>5. n \in Catching /\ \A i \in Catching : i <= n
      <3>1. ASSUME NEW i \in Catching, ~(i <= n) PROVE FALSE
        <4>1. i \in 1..Len(origin)
          BY DEF Catching
        <4>2. i \in (n + 1)..Len(origin)
          BY <2>2, <3>1, <4>1
        <4> QED
          BY <1>1, <4>1, <4>2, CatchingIs DEF Passed
      <3> QED
        BY <2>3, <2>4, <3>1
    <2>6. Innermost(Catching) = n
      <3>1. ASSUME NEW i \in Catching, \A j \in Catching : j <= i PROVE i = n
        <4>1. i \in 1..Len(origin) /\ i <= n /\ n <= i
          BY <2>5, <3>1 DEF Catching
        <4> QED
          BY <2>2, <4>1
      <3> QED
        BY <2>5, <3>1 DEF Innermost
    <2>7. p \in A /\ a = CatchAt(t, p[2])
      BY <1>1, <2>3, <2>4, FrameCatch
    <2>8. p[1] \in 1..Len(prog[f.m].tries) /\ p[2] \in Positions(t)
      <3>1. <<p[1], p[2]>> \in A
        BY <2>3, <2>7, ApplicableIs
      <3> QED
        BY <2>3, <3>1, ApplicableIs
    <2>9. t.all \in Nat /\ t.handlers \in Seq(Handler)
      <3>1. prog[f.m].tries \in Seq(TryItem)
        BY <1>1, <2>3 DEF Frame, Body
      <3>2. t \in TryItem
        <4> HIDE DEF p
        <4> QED
          BY <2>8, <3>1
      <3> QED
        BY <3>2 DEF TryItem
    <2> SUFFICES Handled(n, p)
      BY <2>5, <2>6 DEF Unwound
    <2> HIDE DEF p, A, t, f, a
    <2>10. CASE UnwindCatch
      <3> DEFINE g == [f EXCEPT !.pc = a, !.pending = thrown]
      <3>1. /\ a \notin {NoCatch, Unresolved} /\ stack' = WithFrame(stack, g)
            /\ frames' = Front(frames) /\ mode' = "step"
        BY <2>2, <2>10 DEF UnwindCatch, a
      <3>2. ~(~(p[2] > Len(t.handlers)) /\ ~t.handlers[p[2]].known)
        BY <2>7, <3>1 DEF CatchAt
      <3>3. a = IF p[2] > Len(t.handlers) THEN t.all ELSE t.handlers[p[2]].addr
        BY <2>7, <3>2 DEF CatchAt
      <3>4. Front(frames) = SubSeq(origin, 1, n - 1)
        <4>1. SubSeq(origin, 1, n - 1) = [i \in 1..(n - 1) |-> origin[i]]
          BY <1>1, <2>2
        <4> QED
          BY <2>2, <4>1
      <3>5. a \in Nat /\ thrown \in Exc \cup {None}
        BY <1>1, <2>3, <3>1, CatchType DEF a, InterpInv, Plain, ExcOK
      <3>6. g \in Frame /\ g = [f EXCEPT !.pending = thrown, !.pc = a]
        <4>1. [f EXCEPT !.pc = a] \in Frame
          BY <2>3, <3>5 DEF Frame
        <4>2. g = [[f EXCEPT !.pc = a] EXCEPT !.pending = thrown]
          OBVIOUS
        <4>3. g \in Frame
          BY <3>5, <4>1, <4>2 DEF Frame
        <4>4. g = [f EXCEPT !.pending = thrown, !.pc = a]
          BY <2>3 DEF Frame
        <4> QED
          BY <4>3, <4>4
      <3> HIDE DEF g
      <3>7. Last(stack').f = g
        BY <1>1, <3>1, <3>6, FrameInner
      <3> QED
        BY <3>1, <3>2, <3>3, <3>4, <3>6, <3>7 DEF Handled, f, t
    <2>11. CASE UnwindFail
      <3>1. a = Unresolved /\ mode' = "return" /\ result' = Fatal
        BY <2>2, <2>11 DEF UnwindFail, FinishRun, ReturnTo, a
      <3>2. ~(p[2] > Len(t.handlers))
        BY <2>7, <2>9, <3>1 DEF CatchAt, Unresolved
      <3>3. p[2] \in 1..Len(t.handlers)
        BY <2>8, <2>9, <3>2 DEF Positions
      <3>4. t.handlers[p[2]].addr \in Nat
        <4>1. t.handlers[p[2]] \in Handler
          BY <2>9, <3>3
        <4> QED
          BY <4>1 DEF Handler
      <3>5. ~t.handlers[p[2]].known
        BY <2>7, <3>1, <3>2, <3>4 DEF CatchAt, Unresolved
      <3> QED
        BY <3>1, <3>2, <3>5 DEF Handled, f, t
    <2> QED
      BY <1>4, <2>10, <2>11
  <1> QED
    BY <1>2, <1>3, <1>4

(* unwind runs the first applicable handler of the innermost frame that     *)
(* catches the thrown exception, with that exception and with the callers   *)
(* untouched, or reports exactly that exception, for every program whose    *)
(* handlers begin with move-exception, from every nesting of natives and    *)
(* initialisers: no exception left pending in a caller is ever mistaken for *)
(* the one thrown, and no return address for a faulting one.                *)
THEOREM UnwindingSound == Spec => UnwindSound
  <1>1. InterpInv /\ LineInv /\ [Next]_vars =>
          [mode = "unwind" /\ mode' # "unwind" /\ HandlersTakeException => Unwound]_vars
    BY UnwoundHolds
  <1> QED
    BY <1>1, LineHolds, PTL DEF Spec, UnwindSound
=============================================================================
