---------------------------- MODULE DurableCell -----------------------------
(***************************************************************************)
(* What persist_shared_preferences promises: a cell that is replaced       *)
(* whole.  A write that reports success survives every later crash; one    *)
(* that fails, or is interrupted, leaves the old or the new content.       *)
(***************************************************************************)
CONSTANTS Content, Absent

Cell == Content \cup {Absent}

VARIABLES
    cell,     \* what a reader finds now
    after,    \* what a reader may find after a crash
    writing,  \* the content of the write under way, or Absent
    outcome   \* what the last write reported, "none" if it did not return

vars == <<cell, after, writing, outcome>>

Init ==
    /\ cell = Absent /\ after = {Absent}
    /\ writing = Absent /\ outcome = "none"

Begin(c) ==
    /\ writing = Absent
    /\ writing' = c /\ outcome' = "none"
    /\ after' = after \cup {c}
    /\ UNCHANGED cell

TakeEffect ==
    /\ writing # Absent
    /\ cell' = writing
    /\ after' \in SUBSET after /\ cell' \in after'
    /\ UNCHANGED <<writing, outcome>>

(* The write reports success. *)
Succeed ==
    /\ writing # Absent /\ cell = writing
    /\ after' = {cell}
    /\ writing' = Absent /\ outcome' = "ok"
    /\ UNCHANGED cell

(* The write reports an error; which content survives may stay open. *)
Fail ==
    /\ writing # Absent
    /\ after' \in SUBSET after /\ cell \in after'
    /\ writing' = Absent /\ outcome' = "error"
    /\ UNCHANGED cell

(* What may survive narrows down by itself as the system flushes. *)
Settle ==
    /\ after' \in SUBSET after /\ cell \in after'
    /\ UNCHANGED <<cell, writing, outcome>>

(* A crash ends the write and settles the content. *)
Crash ==
    /\ cell' \in after
    /\ after' \in SUBSET after /\ cell' \in after'
    /\ writing' = Absent /\ outcome' = "none"

Next ==
    \/ \E c \in Content : Begin(c)
    \/ TakeEffect \/ Succeed \/ Fail \/ Settle \/ Crash

Spec == Init /\ [][Next]_vars
=============================================================================
