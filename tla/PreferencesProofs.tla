------------------------- MODULE PreferencesProofs --------------------------
(***************************************************************************)
(* Proofs about Preferences, for every set of files, keys and values and   *)
(* any number of editors and edits: the stores keep their types, and a     *)
(* setting reported as written survives.                                   *)
(***************************************************************************)
EXTENDS Preferences, InductionFacts

-----------------------------------------------------------------------------
(* The loops over an editor's edits *)

(* The loop, value after value. *)
LEMMA ReplayLoop ==
    ASSUME NEW base \in Values, NEW edits \in Seq(Edit), NEW vs
    PROVE  \E g \in [0..Len(edits) -> Values] :
                 /\ g[0] = base
                 /\ \A i \in 1..Len(edits) :
                      g[i] = IF edits[i].put \in vs
                             THEN [g[i - 1] EXCEPT ![edits[i].key] = edits[i].put]
                             ELSE g[i - 1]
                 /\ Replay(base, edits, vs) = g[Len(edits)]
  <1> DEFINE n == Len(edits)
             loop(g) == [i \in 0..n |->
                           IF i = 0 THEN base
                           ELSE IF edits[i].put \in vs
                                THEN [g[i - 1] EXCEPT ![edits[i].key] = edits[i].put]
                                ELSE g[i - 1]]
             G == CHOOSE g : g = loop(g)
             step == [p \in (1..n) \X Values |->
                        IF edits[p[1]].put \in vs
                        THEN [p[2] EXCEPT ![edits[p[1]].key] = edits[p[1]].put]
                        ELSE p[2]]
  <1>1. n \in Nat /\ \A i \in 1..n : edits[i] \in Edit
    OBVIOUS
  <1>3. step \in [(1..n) \X Values -> Values]
    BY <1>1 DEF Values, Edit
  <1>4. Replay(base, edits, vs) = G[n]
    BY DEF Replay
  <1>5. PICK g \in [0..n -> Values] : Follows(g, n, base, step)
    <2>1. n \in Nat
      BY <1>1
    <2> HIDE DEF n, step
    <2> QED
      BY <2>1, <1>3, Recursion
  <1>6. g = loop(g)
    <2>1. ASSUME NEW i \in 0..n
          PROVE  g[i] = loop(g)[i]
      <3>1. CASE i = 0
        BY <1>5, <3>1 DEF Follows
      <3>2. CASE i # 0
        <4>1. i \in 1..n /\ i - 1 \in 0..n
          BY <1>1, <3>2
        <4>2. g[i] = step[<<i, g[i - 1]>>]
          BY <1>5, <4>1 DEF Follows
        <4>3. <<i, g[i - 1]>> \in (1..n) \X Values
          BY <4>1
        <4> QED
          BY <3>2, <4>2, <4>3
      <3> QED
        BY <3>1, <3>2
    <2>2. g = [i \in 0..n |-> g[i]]
      OBVIOUS
    <2> HIDE DEF step
    <2> QED
      BY <2>1, <2>2
  <1>7. G = loop(G)
    BY <1>6
  <1>8. G[0] = base /\ \A i \in 1..n :
                      G[i] = IF edits[i].put \in vs
                             THEN [G[i - 1] EXCEPT ![edits[i].key] = edits[i].put]
                             ELSE G[i - 1]
    <2> HIDE DEF G
    <2>1. G[0] = base
      BY <1>1, <1>7
    <2>2. ASSUME NEW i \in 1..n
          PROVE  G[i] = IF edits[i].put \in vs
                        THEN [G[i - 1] EXCEPT ![edits[i].key] = edits[i].put]
                        ELSE G[i - 1]
      <3>1. i \in 0..n /\ i # 0
        BY <1>1
      <3>2. G[i] = loop(G)[i]
        BY <1>7
      <3> QED
        BY <3>1, <3>2
    <2> QED
      BY <2>1, <2>2
  <1>9. \A i \in 0..n : G[i] \in Values
    <2> DEFINE T == {i \in 0..n : G[i] \in Values}
    <2> HIDE DEF G
    <2>1. 0 \in T
      BY <1>1, <1>8
    <2>2. ASSUME NEW i \in 1..n, i - 1 \in T
          PROVE  i \in T
      <3>1. G[i - 1] \in Values /\ edits[i] \in Edit
        BY <1>1, <2>2
      <3>2. edits[i].put \in vs =>
              [G[i - 1] EXCEPT ![edits[i].key] = edits[i].put] \in Values
        BY <3>1 DEF Values, Edit
      <3>3. G[i] \in Values
        BY <1>8, <3>1, <3>2
      <3> QED
        BY <1>1, <3>3
    <2>3. \A i \in 0..n : i \in T
      <3> HIDE DEF T
      <3> QED
        BY <1>1, <2>1, <2>2, IntervalInduction
    <2> QED
      BY <2>3
  <1>10. G \in [0..n -> Values]
    <2> HIDE DEF G
    <2>1. G = [i \in 0..n |-> G[i]]
      BY <1>7
    <2> QED
      BY <1>9, <2>1
  <1> HIDE DEF G
  <1> QED
    BY <1>4, <1>8, <1>10

(* The edits of key k that put one of vs. *)
Own(edits, k, vs) ==
    {i \in 1..Len(edits) : edits[i].key = k /\ edits[i].put \in vs}

(* What the loop computes: the latest edit of a key that is applied decides *)
(* its value, and a key without one keeps the value it had.                 *)
LEMMA ReplayLast ==
    ASSUME NEW base \in Values, NEW edits \in Seq(Edit), NEW vs
    PROVE  /\ Replay(base, edits, vs) \in Values
           /\ \A k \in Key :
                /\ Own(edits, k, vs) = {} => Replay(base, edits, vs)[k] = base[k]
                /\ \A m \in Own(edits, k, vs) :
                     (\A j \in Own(edits, k, vs) : j <= m)
                     => Replay(base, edits, vs)[k] = edits[m].put
  <1> DEFINE n == Len(edits)
  <1>1. PICK g \in [0..n -> Values] :
                 /\ g[0] = base
                 /\ \A i \in 1..n :
                      g[i] = IF edits[i].put \in vs
                             THEN [g[i - 1] EXCEPT ![edits[i].key] = edits[i].put]
                             ELSE g[i - 1]
                 /\ Replay(base, edits, vs) = g[n]
    BY ReplayLoop
  <1>2. n \in Nat /\ g[n] \in Values
    OBVIOUS
  <1>3. ASSUME NEW k \in Key
        PROVE  /\ Own(edits, k, vs) = {} => g[n][k] = base[k]
               /\ \A m \in Own(edits, k, vs) :
                     (\A j \in Own(edits, k, vs) : j <= m) => g[n][k] = edits[m].put
    <2> DEFINE Upto(i) == {j \in Own(edits, k, vs) : j <= i}
               Good(i) == /\ Upto(i) = {} => g[i][k] = base[k]
                          /\ \A m \in Upto(i) :
                               (\A j \in Upto(i) : j <= m) => g[i][k] = edits[m].put
               T == {i \in 0..n : Good(i)}
    <2>1. 0 \in T
      <3>1. Upto(0) = {}
        BY DEF Own
      <3> QED
        BY <1>1, <1>2, <3>1
    <2>2. ASSUME NEW i \in 1..n, i - 1 \in T
          PROVE  i \in T
      <3>1. g[i - 1] \in Values /\ edits[i] \in Edit /\ Good(i - 1)
        BY <2>2
      <3>2. g[i] = IF edits[i].put \in vs
                   THEN [g[i - 1] EXCEPT ![edits[i].key] = edits[i].put]
                   ELSE g[i - 1]
        BY <1>1
      <3>3. CASE i \in Own(edits, k, vs)
        <4>1. g[i][k] = edits[i].put
          BY <3>1, <3>2, <3>3 DEF Own, Values
        <4>2. i \in Upto(i) /\ \A m \in Upto(i) : i <= m => m = i
          BY <3>3 DEF Own
        <4> QED
          BY <4>1, <4>2
      <3>4. CASE i \notin Own(edits, k, vs)
        <4>1. g[i][k] = g[i - 1][k]
          BY <3>1, <3>2, <3>4 DEF Own, Values
        <4>2. Upto(i) = Upto(i - 1)
          BY <3>4 DEF Own
        <4> QED
          BY <3>1, <4>1, <4>2
      <3> QED
        BY <3>3, <3>4
    <2>3. \A i \in 0..n : i \in T
      <3> HIDE DEF T
      <3> QED
        BY <1>2, <2>1, <2>2, IntervalInduction
    <2>4. Good(n) /\ Upto(n) = Own(edits, k, vs)
      BY <1>2, <2>3 DEF Own
    <2> QED
      BY <2>4
  <1> QED
    BY <1>1, <1>2, <1>3

-----------------------------------------------------------------------------
(* Typing *)

LEMMA OfType ==
    ASSUME NEW p \in Prefs, NEW f
    PROVE  Of(p, f) \in Values
  BY DEF Of, Prefs, Values, NoValues

LEMMA SetType ==
    ASSUME NEW p \in Prefs, NEW f \in File, NEW vs \in Values
    PROVE  /\ Set(p, f, vs) \in Prefs
           /\ Of(Set(p, f, vs), f) = vs
           /\ \A g : g # f => Of(Set(p, f, vs), g) = Of(p, g)
  <1>1. PICK S \in SUBSET File : p \in [S -> Values]
    BY DEF Prefs
  <1>2. DOMAIN p = S /\ S \cup {f} \in SUBSET File
    BY <1>1
  <1>3. Set(p, f, vs) \in [S \cup {f} -> Values]
    BY <1>1, <1>2 DEF Set
  <1>4. Set(p, f, vs) \in Prefs
    BY <1>2, <1>3 DEF Prefs
  <1>5. DOMAIN Set(p, f, vs) = S \cup {f}
    BY <1>3
  <1> QED
    BY <1>2, <1>4, <1>5 DEF Of, Set

LEMMA EmptyType == Empty \in Prefs /\ \A f : Of(Empty, f) = NoValues
  <1>1. Empty \in [{} -> Values] /\ DOMAIN Empty = {}
    BY DEF Empty
  <1> QED
    BY <1>1 DEF Prefs, Of

(* What an editor makes of a file and of the host's settings. *)
LEMMA EditedType ==
    ASSUME TypeOK, NEW ed \in EditorState
    PROVE  Edited(ed) \in Values /\ Notified(ed) \in Values
  <1>1. NoValues \in Values /\ Of(mem, ed.file) \in Values /\ mirror \in Values
    BY OfType DEF TypeOK, NoValues, Values
  <1>2. ed.edits \in Seq(Edit)
    BY DEF EditorState
  <1> QED
    BY <1>1, <1>2, ReplayLast DEF Edited, Notified

LEMMA LoadedMemType ==
    ASSUME TypeOK, ~LoadFails
    PROVE  LoadedMem \in Prefs
  BY DEF TypeOK, LoadFails, LoadedMem, Content

(* The type of what a write of f leaves behind. *)
LEMMA WriteType ==
    ASSUME TypeOK, NEW f \in File, NEW ks, NEW vs \in Values, NEW ok \in BOOLEAN,
           mem' = Set(mem, f, vs), Persist(mem', ok), Recorded(f, ks, vs, ok)
    PROVE  /\ mem' \in Prefs /\ disk' \in Content /\ clean' \in BOOLEAN
           /\ acked' \in [File -> [Key -> Value \cup {None, Unknown}]]
  <1>1. mem' \in Prefs
    BY SetType DEF TypeOK
  <1>2. disk' \in Content
    BY <1>1 DEF TypeOK, Persist, Content
  <1>3. acked' \in [File -> [Key -> Value \cup {None, Unknown}]]
    BY DEF TypeOK, Recorded, Values
  <1> QED
    BY <1>1, <1>2, <1>3 DEF TypeOK, Recorded

LEMMA InitType == Init => TypeOK
  <1> SUFFICES ASSUME Init PROVE TypeOK
    OBVIOUS
  <1>1. disk \in Content /\ mem \in Prefs
    BY EmptyType, SetType DEF Init, Content
  <1>2. editors \in [Editor -> EditorState] /\ \A e \in Editor : Len(editors[e].edits) = 0
    BY DEF Init, NoEditor, NewEditor, EditorState
  <1>3. \A e \in Editor : Len(editors[e].edits) <= MaxEdits
    BY <1>2, PreferencesAssumption
  <1>4. mirror \in Values /\ acked \in [File -> [Key -> Value \cup {None, Unknown}]]
    BY DEF Init, Values, NoValues
  <1> QED
    BY <1>1, <1>2, <1>3, <1>4 DEF Init, TypeOK

LEMMA NextType == TypeOK /\ [Next]_vars => TypeOK'
  <1> SUFFICES ASSUME TypeOK, [Next]_vars PROVE TypeOK'
    OBVIOUS
  <1> USE DEF guestVars, hist
  <1>1. CASE SetPath
    BY <1>1, EmptyType DEF SetPath, TypeOK
  <1>2. CASE Disable
    BY <1>2 DEF Disable, TypeOK
  <1>3. CASE GetSettings
    BY <1>3, LoadedMemType DEF GetSettings, TypeOK
  <1>4. CASE Restart
    <2>1. editors' \in [Editor -> EditorState] /\ \A e \in Editor : Len(editors'[e].edits) = 0
      BY <1>4 DEF Restart, NoEditor, NewEditor, EditorState
    <2>2. \A e \in Editor : Len(editors'[e].edits) <= MaxEdits
      BY <2>1, PreferencesAssumption
    <2>3. mem' \in Prefs
      BY <1>4, EmptyType DEF Restart
    <2> QED
      BY <1>4, <2>1, <2>2, <2>3 DEF Restart, TypeOK
  <1>5. ASSUME NEW f \in File, NEW k \in Key, NEW v \in Value, NEW ok \in BOOLEAN,
               UpdateSetting(f, k, v, ok)
        PROVE  TypeOK'
    <2> DEFINE vs == [Of(mem, f) EXCEPT ![k] = v]
    <2>1. vs \in Values /\ mem' = Set(mem, f, vs)
      BY <1>5, OfType DEF UpdateSetting, TypeOK, Values
    <2>2. Of(mem', f) = vs
      BY <2>1, SetType DEF TypeOK
    <2>3. mirror' \in Values
      BY <1>5 DEF UpdateSetting, TypeOK, Values
    <2>4. Persist(mem', ok) /\ Recorded(f, {k}, vs, ok)
      BY <1>5, <2>2 DEF UpdateSetting
    <2>5. /\ mem' \in Prefs /\ disk' \in Content /\ clean' \in BOOLEAN
          /\ acked' \in [File -> [Key -> Value \cup {None, Unknown}]]
      <3> HIDE DEF vs
      <3> QED
        BY <2>1, <2>4, WriteType
    <2> QED
      BY <1>5, <2>3, <2>5 DEF UpdateSetting, TypeOK
  <1>6. ASSUME NEW f \in File, NEW vs \in Values, Seed(f, vs)
        PROVE  TypeOK'
    BY <1>6, SetType DEF Seed, TypeOK
  <1>7. ASSUME NEW f \in File, GetSharedPreferences(f)
        PROVE  TypeOK'
    <2>1. mem' \in Prefs
      BY <1>7, LoadedMemType, OfType, SetType DEF GetSharedPreferences
    <2> QED
      BY <1>7, <2>1 DEF GetSharedPreferences, TypeOK
  <1>8. ASSUME NEW e \in Editor, NEW f \in File, EditPrefs(e, f)
        PROVE  TypeOK'
    <2>1. NewEditor(f) \in EditorState /\ Len(NewEditor(f).edits) = 0
      BY DEF NewEditor, EditorState
    <2>2. editors' \in [Editor -> EditorState]
      BY <1>8, <2>1 DEF EditPrefs, TypeOK
    <2>3. \A d \in Editor : Len(editors'[d].edits) <= MaxEdits
      BY <1>8, <2>1, PreferencesAssumption DEF EditPrefs, TypeOK
    <2> QED
      BY <1>8, <2>2, <2>3 DEF EditPrefs, TypeOK
  <1>9. ASSUME NEW e \in Editor, NEW edit \in Edit, AddEdit(e, edit)
        PROVE  TypeOK'
    <2>1. editors[e] \in EditorState
      BY DEF TypeOK
    <2>2. /\ Append(editors[e].edits, edit) \in Seq(Edit)
          /\ Len(Append(editors[e].edits, edit)) <= MaxEdits
      BY <1>9, <2>1, PreferencesAssumption DEF AddEdit, EditorState
    <2>3. editors' = [editors EXCEPT ![e] =
                        [editors[e] EXCEPT !.edits = Append(editors[e].edits, edit)]]
      BY <1>9 DEF AddEdit, TypeOK, EditorState
    <2>4. /\ editors' \in [Editor -> EditorState]
          /\ \A d \in Editor : Len(editors'[d].edits) <= MaxEdits
      BY <2>1, <2>2, <2>3 DEF TypeOK, EditorState
    <2> QED
      BY <1>9, <2>4 DEF AddEdit, TypeOK
  <1>10. ASSUME NEW e \in Editor, ClearEdit(e)
         PROVE  TypeOK'
    <2>1. /\ editors' \in [Editor -> EditorState]
          /\ \A d \in Editor : Len(editors'[d].edits) <= MaxEdits
      BY <1>10 DEF ClearEdit, TypeOK, EditorState
    <2> QED
      BY <1>10, <2>1 DEF ClearEdit, TypeOK
  <1>11. ASSUME NEW e \in Editor, NEW ok \in BOOLEAN, Apply(e, ok) \/ Commit(e, ok)
         PROVE  TypeOK'
    <2> DEFINE ed == editors[e]
    <2>1. Write(e, ok) /\ ed \in EditorState
      BY <1>11 DEF Apply, Commit, TypeOK
    <2>2. ed.file \in File /\ Edited(ed) \in Values /\ Notified(ed) \in Values
      BY <2>1, EditedType DEF Write, EditorState
    <2>3. mirror' \in Values
      BY <1>11, <2>2 DEF Apply, Commit, TypeOK
    <2>4. /\ mem' \in Prefs /\ disk' \in Content /\ clean' \in BOOLEAN
          /\ acked' \in [File -> [Key -> Value \cup {None, Unknown}]]
      BY <2>1, <2>2, WriteType DEF Write
    <2> QED
      BY <2>1, <2>3, <2>4 DEF Write, TypeOK
  <1>12. CASE UNCHANGED vars
    BY <1>12 DEF vars, TypeOK
  <1> QED
    BY <1>1, <1>2, <1>3, <1>4, <1>5, <1>6, <1>7, <1>8, <1>9, <1>10, <1>11, <1>12
       DEF Next

(* The stores hold a value or nothing for every file and key, whatever is  *)
(* loaded, edited, written or lost: load_shared_preferences never takes a  *)
(* missing or unreadable file for the values.                              *)
THEOREM TypeCorrect == Spec => []TypeOK
  BY InitType, NextType, PTL DEF Spec

-----------------------------------------------------------------------------
(* What an editor's write does *)

(* Without an edit of its own a key keeps its value, or loses it to clear; *)
(* with one, the latest decides.                                           *)
LEMMA EditedLast ==
    ASSUME TypeOK, NEW ed \in EditorState, NEW k \in Key
    PROVE  Edited(ed)[k] = IF OwnEdits(ed, k) # {} THEN LastOwn(ed, k).put
                           ELSE IF ed.clear THEN None ELSE Of(mem, ed.file)[k]
  <1> DEFINE base == IF ed.clear THEN NoValues ELSE Of(mem, ed.file)
             puts == Value \cup {None}
  <1>1. base \in Values /\ base[k] = IF ed.clear THEN None ELSE Of(mem, ed.file)[k]
    BY OfType DEF TypeOK, NoValues, Values
  <1>2. ed.edits \in Seq(Edit) /\ \A i \in 1..Len(ed.edits) : ed.edits[i] \in Edit
    BY DEF EditorState
  <1>3. Own(ed.edits, k, puts) = OwnEdits(ed, k)
    BY <1>2 DEF Own, OwnEdits, Edit
  <1>4. /\ OwnEdits(ed, k) = {} => Edited(ed)[k] = base[k]
        /\ \A m \in OwnEdits(ed, k) :
              (\A j \in OwnEdits(ed, k) : j <= m) => Edited(ed)[k] = ed.edits[m].put
    <2> HIDE DEF base, puts
    <2>1. Edited(ed) = Replay(base, ed.edits, puts)
      BY DEF Edited, base, puts
    <2> QED
      BY <1>1, <1>2, <1>3, <2>1, ReplayLast
  <1>5. CASE OwnEdits(ed, k) # {}
    <2> DEFINE m == CHOOSE i \in OwnEdits(ed, k) : \A j \in OwnEdits(ed, k) : j <= i
    <2>1. Len(ed.edits) \in Nat /\ OwnEdits(ed, k) \in SUBSET (0..Len(ed.edits))
      BY <1>2 DEF OwnEdits
    <2>2. \E i \in OwnEdits(ed, k) : \A j \in OwnEdits(ed, k) : j <= i
      BY <1>5, <2>1, IntervalMax
    <2>3. m \in OwnEdits(ed, k) /\ \A j \in OwnEdits(ed, k) : j <= m
      BY <2>2
    <2>4. LastOwn(ed, k) = ed.edits[m]
      BY DEF LastOwn
    <2> HIDE DEF m
    <2> QED
      BY <1>4, <1>5, <2>3, <2>4
  <1> QED
    BY <1>1, <1>4, <1>5

(* A write changes nothing but the edited file, and of a key it does not   *)
(* touch nothing at all.                                                   *)
LEMMA UntouchedKept ==
    ASSUME TypeOK, NEW ed \in EditorState, NEW k \in Key, k \notin Touched(ed)
    PROVE  Edited(ed)[k] = Of(mem, ed.file)[k]
  BY EditedLast DEF Touched, OwnEdits

-----------------------------------------------------------------------------
(* Acknowledged settings *)

(* Between configuring the file and loading it, memory has nothing for a   *)
(* key with an acknowledged value: seeding a file withdraws its promises.  *)
UnloadedIsEmpty ==
    clean /\ persistent /\ ~loaded =>
      \A f \in File, k \in Key : acked[f][k] # Unknown => Of(mem, f)[k] = None

PrefsInv == TypeOK /\ AckedSettingsSurvive /\ UnloadedIsEmpty

(* A write of file f, by the host or by an editor, that leaves the keys    *)
(* outside ks alone.                                                       *)
LEMMA WriteKeepsAcked ==
    ASSUME PrefsInv, NEW f \in File, NEW ks, NEW vs \in Values, NEW ok \in BOOLEAN,
           \A k \in Key : k \notin ks => vs[k] = Of(mem, f)[k],
           mem' = Set(mem, f, vs), Persist(mem', ok), Recorded(f, ks, vs, ok),
           UNCHANGED <<loaded, persistent>>
    PROVE  AckedSettingsSurvive' /\ UnloadedIsEmpty'
  <1> USE DEF PrefsInv
  <1> SUFFICES ASSUME clean', NEW g \in File, NEW k \in Key, acked'[g][k] # Unknown
               PROVE  /\ OnDisk(g)'[k] = acked'[g][k]
                      /\ loaded /\ persistent => Of(mem', g)[k] = acked'[g][k]
                      /\ persistent => loaded
    <2>1. clean' => (persistent => loaded)
      BY DEF Recorded
    <2> QED
      BY <2>1 DEF AckedSettingsSurvive, UnloadedIsEmpty
  <1>1. clean /\ (persistent => loaded)
    BY DEF Recorded
  <1>2. Of(mem', f) = vs /\ \A h : h # f => Of(mem', h) = Of(mem, h)
    BY SetType DEF TypeOK
  <1>3. mem' \in Prefs /\ mem' \notin {None, Unreadable}
    BY WriteType, PreferencesAssumption
  <1>4. CASE g = f /\ k \in ks
    <2>1. ok /\ persistent /\ acked'[g][k] = vs[k]
      BY <1>4 DEF Recorded, TypeOK
    <2>2. disk' = mem'
      BY <2>1 DEF Persist
    <2> QED
      BY <1>1, <1>2, <1>3, <1>4, <2>1, <2>2 DEF OnDisk
  <1>5. CASE ~(g = f /\ k \in ks)
    <2>1. acked'[g][k] = acked[g][k]
      BY <1>5 DEF Recorded, TypeOK
    <2>2. Of(mem', g)[k] = Of(mem, g)[k]
      BY <1>2, <1>5
    <2>3. /\ OnDisk(g)[k] = acked[g][k]
          /\ loaded /\ persistent => Of(mem, g)[k] = acked[g][k]
      BY <1>1, <2>1 DEF AckedSettingsSurvive
    <2>4. CASE disk' = mem' /\ persistent
      BY <1>1, <1>3, <2>1, <2>2, <2>3, <2>4 DEF OnDisk
    <2>5. CASE disk' = disk
      BY <1>1, <2>1, <2>2, <2>3, <2>5 DEF OnDisk
    <2> QED
      BY <2>4, <2>5 DEF Persist
  <1> QED
    BY <1>4, <1>5

(* Loading makes memory agree with the file. *)
LEMMA LoadKeepsAcked ==
    ASSUME PrefsInv, ~LoadFails, clean, persistent,
           NEW f \in File, NEW k \in Key, acked[f][k] # Unknown
    PROVE  Of(LoadedMem, f)[k] = acked[f][k]
  <1> USE DEF PrefsInv
  <1>1. OnDisk(f)[k] = acked[f][k] /\ (loaded => Of(mem, f)[k] = acked[f][k])
    BY DEF AckedSettingsSurvive
  <1>2. CASE loaded
    BY <1>1, <1>2 DEF LoadedMem
  <1>3. CASE ~loaded /\ disk = None
    <2>1. Of(mem, f)[k] = None /\ OnDisk(f)[k] = None
      BY <1>3 DEF UnloadedIsEmpty, OnDisk, NoValues
    <2> QED
      BY <1>1, <1>3, <2>1 DEF LoadedMem
  <1>4. CASE ~loaded /\ disk # None
    BY <1>1, <1>4 DEF LoadedMem, OnDisk, LoadFails
  <1> QED
    BY <1>2, <1>3, <1>4

LEMMA NextAcked == PrefsInv /\ [Next]_vars => PrefsInv'
  <1> SUFFICES ASSUME PrefsInv, [Next]_vars
               PROVE  AckedSettingsSurvive' /\ UnloadedIsEmpty'
    BY NextType DEF PrefsInv
  <1> USE DEF guestVars, hist, PrefsInv
  <1>1. CASE SetPath
    <2>1. UnloadedIsEmpty'
      BY <1>1, EmptyType DEF SetPath, UnloadedIsEmpty, NoValues
    <2> QED
      BY <1>1, <2>1 DEF SetPath, AckedSettingsSurvive, OnDisk
  <1>2. CASE Disable
    BY <1>2 DEF Disable, AckedSettingsSurvive, UnloadedIsEmpty, OnDisk
  <1>3. CASE GetSettings
    <2>1. CASE LoadFails
      BY <1>3, <2>1 DEF GetSettings, AckedSettingsSurvive, UnloadedIsEmpty, OnDisk
    <2>2. CASE ~LoadFails
      <3>1. mem' = LoadedMem /\ loaded' /\ UNCHANGED <<disk, persistent, acked, clean>>
        BY <1>3, <2>2 DEF GetSettings
      <3> QED
        BY <2>2, <3>1, LoadKeepsAcked DEF AckedSettingsSurvive, UnloadedIsEmpty, OnDisk
    <2> QED
      BY <2>1, <2>2
  <1>4. CASE Restart
    BY <1>4 DEF Restart, AckedSettingsSurvive, UnloadedIsEmpty, OnDisk
  <1>5. ASSUME NEW f \in File, NEW k \in Key, NEW v \in Value, NEW ok \in BOOLEAN,
               UpdateSetting(f, k, v, ok)
        PROVE  AckedSettingsSurvive' /\ UnloadedIsEmpty'
    <2> DEFINE vs == [Of(mem, f) EXCEPT ![k] = v]
    <2>1. vs \in Values /\ mem' = Set(mem, f, vs)
      BY <1>5, OfType DEF UpdateSetting, TypeOK, Values
    <2>2. Of(mem', f) = vs
      BY <2>1, SetType DEF TypeOK
    <2>3. \A j \in Key : j \notin {k} => vs[j] = Of(mem, f)[j]
      BY <2>1, OfType DEF TypeOK, Values
    <2>4. /\ Persist(mem', ok) /\ Recorded(f, {k}, vs, ok)
          /\ UNCHANGED <<loaded, persistent>>
      BY <1>5, <2>2 DEF UpdateSetting
    <2> HIDE DEF vs
    <2> QED
      BY <2>1, <2>3, <2>4, WriteKeepsAcked
  <1>6. ASSUME NEW f \in File, NEW vs \in Values, Seed(f, vs)
        PROVE  AckedSettingsSurvive' /\ UnloadedIsEmpty'
    <2>1. \A g \in File, k \in Key : acked'[g][k] # Unknown =>
              g # f /\ acked'[g][k] = acked[g][k] /\ Of(mem', g) = Of(mem, g)
      BY <1>6, SetType DEF Seed, TypeOK
    <2> QED
      BY <1>6, <2>1 DEF Seed, AckedSettingsSurvive, UnloadedIsEmpty, OnDisk
  <1>7. ASSUME NEW f \in File, GetSharedPreferences(f)
        PROVE  AckedSettingsSurvive' /\ UnloadedIsEmpty'
    <2>1. /\ ~LoadFails /\ loaded'
          /\ mem' = Set(LoadedMem, f, Of(LoadedMem, f))
          /\ UNCHANGED <<disk, persistent, acked, clean>>
      BY <1>7 DEF GetSharedPreferences
    <2>2. \A g \in File : Of(mem', g) = Of(LoadedMem, g)
      BY <2>1, LoadedMemType, OfType, SetType
    <2> QED
      BY <2>1, <2>2, LoadKeepsAcked DEF AckedSettingsSurvive, UnloadedIsEmpty, OnDisk
  <1>8. ASSUME UNCHANGED <<disk, mem, loaded, persistent, acked, clean>>
        PROVE  AckedSettingsSurvive' /\ UnloadedIsEmpty'
    BY <1>8 DEF AckedSettingsSurvive, UnloadedIsEmpty, OnDisk
  <1>9. ASSUME NEW e \in Editor, NEW ok \in BOOLEAN, Apply(e, ok) \/ Commit(e, ok)
        PROVE  AckedSettingsSurvive' /\ UnloadedIsEmpty'
    <2> DEFINE ed == editors[e]
    <2>1. Write(e, ok) /\ ed \in EditorState
      BY <1>9 DEF Apply, Commit, TypeOK
    <2>2. ed.file \in File /\ Edited(ed) \in Values
      BY <2>1, EditedType DEF Write, EditorState
    <2>3. \A k \in Key : k \notin Touched(ed) => Edited(ed)[k] = Of(mem, ed.file)[k]
      BY <2>1, UntouchedKept
    <2> QED
      BY <2>1, <2>2, <2>3, WriteKeepsAcked DEF Write
  <1> QED
    BY <1>1, <1>2, <1>3, <1>4, <1>5, <1>6, <1>7, <1>8, <1>9
       DEF Next, EditPrefs, AddEdit, ClearEdit, vars

(* What commit() or update_setting reported as written is on disk, and is  *)
(* what a loaded context reads, through failed writes, restarts, reloads   *)
(* and seeding, in every history that loads a configured file before it    *)
(* writes to it.                                                           *)
THEOREM AckedSurvive == Spec => []AckedSettingsSurvive
  <1>1. Init => PrefsInv
    BY InitType DEF Init, PrefsInv, AckedSettingsSurvive, UnloadedIsEmpty
  <1>2. PrefsInv => AckedSettingsSurvive
    BY DEF PrefsInv
  <1> QED
    BY <1>1, <1>2, NextAcked, PTL DEF Spec

-----------------------------------------------------------------------------
(* Editors *)

(* After apply() or commit() the guest reads of every key what its last    *)
(* edit put, whether clear() was called before or after it.                *)
THEOREM LastEditDecides == Spec => LastEditWins
  <1>1. ASSUME TypeOK, NEW e \in Editor, NEW k \in Key
        PROVE  LastEditStep(e, k)
    <2> DEFINE ed == editors[e]
    <2> SUFFICES ASSUME NEW ok \in BOOLEAN, Apply(e, ok) \/ Commit(e, ok)
                 PROVE  Of(mem', ed.file)[k] = Edited(ed)[k]
      BY <1>1, EditedLast DEF LastEditStep, TypeOK
    <2>1. Write(e, ok) /\ ed \in EditorState
      BY <1>1 DEF Apply, Commit, TypeOK
    <2>2. ed.file \in File /\ Edited(ed) \in Values
      BY <1>1, <2>1, EditedType DEF Write, EditorState
    <2> QED
      BY <1>1, <2>1, <2>2, SetType DEF Write, TypeOK
  <1>2. TypeOK => [\A e \in Editor, k \in Key : LastEditStep(e, k)]_vars
    BY <1>1
  <1> QED
    BY <1>2, TypeCorrect, PTL DEF LastEditWins

(* The callbacks of notify_settings_update leave the host with the value   *)
(* the guest reads, for every key that was put last: removes are not       *)
(* reported and do not disturb the order of the puts.                      *)
THEOREM HostMirrorsPuts == Spec => PutsAreMirrored
  <1>1. ASSUME TypeOK, NEW e \in Editor, NEW k \in Key
        PROVE  MirrorStep(e, k)
    <2> DEFINE ed == editors[e]
               m == CHOOSE i \in OwnEdits(ed, k) : \A j \in OwnEdits(ed, k) : j <= i
    <2> SUFFICES ASSUME Apply(e, TRUE) \/ Commit(e, TRUE),
                        OwnEdits(ed, k) # {}, LastOwn(ed, k).put # None
                 PROVE  mirror'[k] = Of(mem', ed.file)[k]
      BY DEF MirrorStep
    <2>1. Write(e, TRUE) /\ ed \in EditorState /\ mirror' = Notified(ed)
      BY <1>1 DEF Apply, Commit, TypeOK
    <2>2. ed.file \in File /\ Edited(ed) \in Values
      BY <1>1, <2>1, EditedType DEF Write, EditorState
    <2>3. Of(mem', ed.file)[k] = Edited(ed)[k]
      BY <1>1, <2>1, <2>2, SetType DEF Write, TypeOK
    <2>4. Edited(ed)[k] = ed.edits[m].put /\ ed.edits[m].put # None
      BY <1>1, <2>1, EditedLast DEF LastOwn
    <2>5. ed.edits \in Seq(Edit) /\ \A i \in 1..Len(ed.edits) : ed.edits[i] \in Edit
      BY <2>1 DEF EditorState
    <2>6. m \in OwnEdits(ed, k) /\ \A j \in OwnEdits(ed, k) : j <= m
      <3>1. Len(ed.edits) \in Nat /\ OwnEdits(ed, k) \in SUBSET (0..Len(ed.edits))
        BY <2>5 DEF OwnEdits
      <3>2. \E i \in OwnEdits(ed, k) : \A j \in OwnEdits(ed, k) : j <= i
        BY <3>1, IntervalMax
      <3> QED
        BY <3>2
    <2> HIDE DEF m
    <2>7. m \in Own(ed.edits, k, Value) /\ \A j \in Own(ed.edits, k, Value) : j <= m
      BY <2>4, <2>5, <2>6 DEF Own, OwnEdits, Edit
    <2>8. Notified(ed)[k] = ed.edits[m].put
      BY <1>1, <2>5, <2>7, ReplayLast DEF Notified, TypeOK
    <2> QED
      BY <2>1, <2>3, <2>4, <2>8
  <1>2. TypeOK => [\A e \in Editor, k \in Key : MirrorStep(e, k)]_vars
    BY <1>1
  <1> QED
    BY <1>2, TypeCorrect, PTL DEF PutsAreMirrored
=============================================================================
