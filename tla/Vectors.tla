------------------------------- MODULE Vectors -------------------------------
(***************************************************************************)
(* Loops over vectors that several of the shims share, as recursive         *)
(* functions of the position they have reached.                             *)
(***************************************************************************)
EXTENDS Naturals, Sequences

\* The elements of s that are in T, in their order: Vec::retain, and the
\* loops that push the elements that pass a test.
Keeping(s, T) ==
    LET kept[i \in 0 .. Len(s)] ==
          IF i = 0 THEN <<>>
          ELSE IF s[i] \in T THEN Append(kept[i - 1], s[i]) ELSE kept[i - 1]
    IN  kept[Len(s)]
==============================================================================
