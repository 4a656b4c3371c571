--------------------------- MODULE InductionFacts ---------------------------
(***************************************************************************)
(* Induction over bounded intervals and recursion on them, in a form that  *)
(* quantifies over sets and functions only: the property to be shown of    *)
(* each number is a set of numbers, the step of a recursion a function.    *)
(* The proofs about loops over sequences (the edits of an editor, the      *)
(* pairs of a map, the headers of a message) rest on these.                *)
(***************************************************************************)
EXTENDS Integers, Sequences, FiniteSetTheorems, TLAPS

(* A nonempty set of naturals has a smallest element. *)
LEMMA NatMin ==
    ASSUME NEW T \in SUBSET Nat, T # {}
    PROVE  \E n \in T : \A m \in T : n <= m
  <1>1. PICK n \in T : \A m \in T : ~ (<<m, n>> \in OpToRel(<, Nat))
    BY NatLessThanWellFounded, WFMin, Zenon
  <1>2. \A m \in T : ~(m < n)
    BY <1>1 DEF OpToRel
  <1> QED
    BY <1>2

(* Induction on 0..n: a set with 0 that is closed under successor. *)
LEMMA IntervalInduction ==
    ASSUME NEW n \in Nat, NEW T, 0 \in T,
           \A i \in 1..n : i - 1 \in T => i \in T
    PROVE  \A i \in 0..n : i \in T
  <1> DEFINE B == {i \in 0..n : i \notin T}
  <1> SUFFICES ASSUME B # {} PROVE FALSE
    OBVIOUS
  <1>1. PICK i \in B : \A j \in B : i <= j
    <2>1. B \in SUBSET Nat
      OBVIOUS
    <2> QED
      BY <2>1, NatMin
  <1>2. i \in 1..n /\ i - 1 \in 0..n /\ ~(i <= i - 1)
    BY <1>1
  <1>3. i - 1 \in T
    BY <1>1, <1>2
  <1> QED
    BY <1>1, <1>2, <1>3

(* A nonempty set of numbers up to n has a largest element. *)
LEMMA IntervalMax ==
    ASSUME NEW n \in Nat, NEW S \in SUBSET (0..n), S # {}
    PROVE  \E m \in S : \A i \in S : i <= m
  <1> DEFINE T == {n - i : i \in S}
  <1>1. T \in SUBSET Nat /\ T # {}
    <2>1. \A i \in S : n - i \in Nat
      OBVIOUS
    <2> QED
      BY <2>1
  <1>2. PICK t \in T : \A u \in T : t <= u
    <2> HIDE DEF T
    <2> QED
      BY <1>1, NatMin
  <1>3. PICK m \in S : t = n - m
    BY <1>2
  <1>4. \A i \in S : n - m <= n - i
    BY <1>2, <1>3
  <1> QED
    BY <1>4

(* g starts with b and goes on by step, up to n. *)
Follows(g, n, b, step) ==
    g[0] = b /\ \A i \in 1..n : g[i] = step[<<i, g[i - 1]>>]

(* Recursion on 0..n: a start value and a step that maps the position and  *)
(* the value before it to the value at it determine a function.            *)
LEMMA Recursion ==
    ASSUME NEW n \in Nat, NEW S, NEW b \in S,
           NEW step \in [(1..n) \X S -> S]
    PROVE  \E g \in [0..n -> S] : Follows(g, n, b, step)
  <1> USE DEF Follows
  <1> DEFINE Upto(k) == \E g \in [0..k -> S] :
                          g[0] = b /\ \A i \in 1..k : g[i] = step[<<i, g[i - 1]>>]
             T == {k \in 0..n : Upto(k)}
  <1>1. 0 \in T
    <2> DEFINE h == [i \in 0..0 |-> b]
    <2>1. h \in [0..0 -> S] /\ h[0] = b
      OBVIOUS
    <2>2. \A i \in 1..0 : h[i] = step[<<i, h[i - 1]>>]
      OBVIOUS
    <2>3. Upto(0)
      BY <2>1, <2>2
    <2> QED
      BY <2>3
  <1>2. ASSUME NEW k \in 1..n, k - 1 \in T
        PROVE  k \in T
    <2>1. PICK g \in [0..(k - 1) -> S] :
                 g[0] = b /\ \A i \in 1..(k - 1) : g[i] = step[<<i, g[i - 1]>>]
      BY <1>2
    <2> DEFINE h == [i \in 0..k |-> IF i = k THEN step[<<k, g[k - 1]>>] ELSE g[i]]
    <2>2. step[<<k, g[k - 1]>>] \in S
      OBVIOUS
    <2>3. h \in [0..k -> S]
      BY <2>2
    <2>4. h[0] = b
      BY <2>1
    <2>5. ASSUME NEW i \in 1..k
          PROVE  h[i] = step[<<i, h[i - 1]>>]
      <3>1. h[i - 1] = g[i - 1]
        OBVIOUS
      <3>2. CASE i = k
        <4>1. h[k] = step[<<k, g[k - 1]>>]
          BY <3>2
        <4> HIDE DEF h
        <4> QED
          BY <3>1, <3>2, <4>1
      <3>3. CASE i # k
        <4>1. i \in 1..(k - 1) /\ h[i] = g[i]
          BY <3>3
        <4> QED
          BY <2>1, <3>1, <4>1
      <3> QED
        BY <3>2, <3>3
    <2>6. Upto(k)
      BY <2>3, <2>4, <2>5
    <2> QED
      BY <2>6
  <1>3. n \in T
    <2> HIDE DEF T
    <2> QED
      BY <1>1, <1>2, IntervalInduction
  <1> QED
    BY <1>3

(* Course-of-values recursion on 1..n: body[<<i, g>>] uses g below i only. *)
LooksBelow(body, n, V) ==
    \A i \in 1..n : \A g, h \in [1..n -> V] :
      (\A j \in 1..(i - 1) : g[j] = h[j]) => body[<<i, g>>] = body[<<i, h>>]

LEMMA CourseOfValues ==
    ASSUME NEW n \in Nat, NEW V, NEW v \in V,
           NEW body \in [(1..n) \X [1..n -> V] -> V], LooksBelow(body, n, V)
    PROVE  \E g \in [1..n -> V] : \A i \in 1..n : g[i] = body[<<i, g>>]
  <1> DEFINE S == [1..n -> V]
             b == [i \in 1..n |-> v]
             step == [p \in (1..n) \X S |-> [p[2] EXCEPT ![p[1]] = body[p]]]
  <1>1. b \in S
    OBVIOUS
  <1>2. step \in [(1..n) \X S -> S]
    <2>1. ASSUME NEW p \in (1..n) \X S
          PROVE  [p[2] EXCEPT ![p[1]] = body[p]] \in S
      OBVIOUS
    <2> QED
      BY <2>1
  <1>3. PICK r \in [0..n -> S] : Follows(r, n, b, step)
    <2> HIDE DEF S, b, step
    <2> QED
      BY <1>1, <1>2, Recursion
  <1>4. ASSUME NEW k \in 1..n
        PROVE  /\ k - 1 \in 0..n /\ r[k - 1] \in S /\ r[k] \in S
               /\ r[k] = [r[k - 1] EXCEPT ![k] = body[<<k, r[k - 1]>>]]
    <2>1. k - 1 \in 0..n /\ k \in 0..n
      OBVIOUS
    <2>2. <<k, r[k - 1]>> \in (1..n) \X S
      BY <2>1
    <2>3. r[k] = step[<<k, r[k - 1]>>]
      BY <1>3 DEF Follows
    <2> QED
      BY <2>1, <2>2, <2>3
  <1> DEFINE T == {k \in 0..n : \A i \in 1..k : r[k][i] = body[<<i, r[k]>>]}
  <1>5. 0 \in T
    OBVIOUS
  <1>6. ASSUME NEW k \in 1..n, k - 1 \in T
        PROVE  k \in T
    <2> DEFINE g == r[k - 1]
               h == r[k]
               x == body[<<k, g>>]
    <2>1. g \in S /\ h \in S /\ h = [g EXCEPT ![k] = x] /\ k \in 0..n
      BY <1>4
    <2>2. \A i \in 1..(k - 1) : g[i] = body[<<i, g>>]
      BY <1>6
    <2> HIDE DEF g, h, x
    <2>3. h[k] = x /\ \A j \in 1..(k - 1) : j \in 1..n /\ h[j] = g[j]
      BY <2>1
    <2>4. ASSUME NEW i \in 1..k
          PROVE  h[i] = body[<<i, h>>]
      <3>1. body[<<i, g>>] = body[<<i, h>>]
        <4>1. i \in 1..n /\ \A j \in 1..(i - 1) : j \in 1..(k - 1)
          OBVIOUS
        <4>2. \A j \in 1..(i - 1) : g[j] = h[j]
          BY <2>3, <4>1
        <4> QED
          BY <2>1, <4>1, <4>2, ZenonT(60) DEF LooksBelow
      <3>2. CASE i = k
        BY <2>3, <3>1, <3>2 DEF x
      <3>3. CASE i # k
        <4>1. i \in 1..(k - 1)
          BY <3>3
        <4> QED
          BY <2>2, <2>3, <3>1, <4>1
      <3> QED
        BY <3>2, <3>3
    <2> QED
      BY <2>1, <2>4 DEF h
  <1>7. n \in T
    <2> HIDE DEF T
    <2>1. \A k \in 0..n : k \in T
      BY <1>5, <1>6, IntervalInduction, Zenon
    <2> QED
      BY <2>1
  <1>8. r[n] \in S /\ \A i \in 1..n : r[n][i] = body[<<i, r[n]>>]
    BY <1>7
  <1> QED
    BY <1>8

(* Induction on 1..n from all smaller numbers. *)
LEMMA StrongInduction ==
    ASSUME NEW n \in Nat, NEW T,
           \A i \in 1..n : (\A j \in 1..(i - 1) : j \in T) => i \in T
    PROVE  \A i \in 1..n : i \in T
  <1> DEFINE B == {i \in 1..n : i \notin T}
  <1> SUFFICES ASSUME B # {} PROVE FALSE
    OBVIOUS
  <1>1. PICK i \in B : \A j \in B : i <= j
    <2>1. B \in SUBSET Nat
      OBVIOUS
    <2> HIDE DEF B
    <2> QED
      BY <2>1, NatMin
  <1>2. \A j \in 1..(i - 1) : j \in 1..n /\ ~(i <= j)
    BY <1>1
  <1> QED
    BY <1>1, <1>2
=============================================================================
