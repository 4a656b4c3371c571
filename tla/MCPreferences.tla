--------------------------- MODULE MCPreferences ----------------------------
(***************************************************************************)
(* SharedPreferences for TLC: the values with their editors, and the file  *)
(* that persisting them writes, each checked by itself.  A behaviour picks *)
(* its subject in the initial state and leaves the other's variables       *)
(* alone.  Keys, values and editors are interchangeable.                   *)
(***************************************************************************)
EXTENDS Preferences, PrefsFile, TLC

VARIABLE subject

AllInit ==
    /\ Init /\ FileInit
    /\ \/ subject = "values"
       \/ subject = "file" /\ disk = None

AllNext ==
    /\ UNCHANGED subject
    /\ \/ subject = "values" /\ Next /\ UNCHANGED fileVars
       \/ subject = "file" /\ FileNext /\ UNCHANGED vars

AllSpec == AllInit /\ [][AllNext]_<<subject, vars, fileVars>>

Symmetry == Permutations(Key) \cup Permutations(Value) \cup Permutations(Editor)

=============================================================================
