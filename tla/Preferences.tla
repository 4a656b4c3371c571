---------------------------- MODULE Preferences -----------------------------
(***************************************************************************)
(* Android SharedPreferences as dexvm implements them                      *)
(* (vm/native/android/mod.rs, context.rs): the in-memory values the guest  *)
(* reads and edits, the file they are lazily loaded from and persisted to, *)
(* the host's own accesses and the callback that keeps the host informed.  *)
(*                                                                         *)
(* A persist is one step with the outcomes the durable cell of PrefsFile   *)
(* allows: done, failed with the old file, or failed with the new one.     *)
(***************************************************************************)
EXTENDS Integers, Sequences, FiniteSets

CONSTANTS
    File,      \* names of preference files
    Key,
    Value,     \* PreferenceValue
    None,      \* no value
    Editor,    \* SharedPreferences$Editor objects
    Unreadable,\* a preferences file that cannot be read or decoded
    Unknown,   \* history: the host or guest cannot know the durable value
    MaxEdits   \* bound: edits of one editor

Values == [Key -> Value \cup {None}]
NoValues == [k \in Key |-> None]
Prefs == UNION {[S -> Values] : S \in SUBSET File}
Empty == [f \in {} |-> NoValues]
Edit == [key : Key, put : Value \cup {None}]   \* put None is a Remove

(* A missing or undecodable file is none of the contents a file can have. *)
ASSUME PreferencesAssumption ==
    /\ MaxEdits \in Nat
    /\ None \notin Value /\ Unknown \notin Value \cup {None}
    /\ {None, Unreadable} \cap Prefs = {} /\ None # Unreadable

VARIABLES
    disk,       \* the preferences file's content, None when there is none
    mem,        \* Vm.shared_preferences
    loaded,     \* Vm.shared_preferences_loaded
    persistent, \* Vm.shared_preferences_path is set
    handles,    \* names of the SharedPreferences objects the guest holds
    editors,    \* Native::SharedPreferencesEditor payloads
    mirror,     \* the host's settings, as its callback was told them
    acked,      \* history: values a successful write promised to be durable
    clean       \* history: no write met a configured but unloaded file

vars == <<disk, mem, loaded, persistent, handles, editors, mirror, acked,
          clean>>
guestVars == <<handles, editors>>
hist == <<acked, clean>>

Content == Prefs \cup {None, Unreadable}
EditorState == [file : File \cup {None}, edits : Seq(Edit), clear : BOOLEAN]
NewEditor(f) == [file |-> f, edits |-> <<>>, clear |-> FALSE]
NoEditor == NewEditor(None)

Of(p, f) == IF f \in DOMAIN p THEN p[f] ELSE NoValues
OnDisk(f) == IF disk \in {None, Unreadable} THEN NoValues ELSE Of(disk, f)

(* HashMap::entry(f).or_default(), with the values replaced. *)
Set(p, f, vs) == [g \in DOMAIN p \cup {f} |-> IF g = f THEN vs ELSE p[g]]

Init ==
    /\ disk \in {None, Unreadable} \cup {Set(Empty, f, vs) : f \in File, vs \in Values}
    /\ mem = Empty /\ loaded = FALSE /\ persistent = FALSE
    /\ handles = {} /\ editors = [e \in Editor |-> NoEditor]
    /\ mirror = NoValues
    /\ acked = [f \in File |-> [k \in Key |-> Unknown]]
    /\ clean = TRUE

-----------------------------------------------------------------------------
(* Loading and persisting *)

(* Mutant: a missing file is taken for the values. *)
LoadedMemOfAbsent == IF ~loaded /\ persistent THEN disk ELSE mem

(* load_shared_preferences: the memory after a successful load. *)
LoadedMem == IF ~loaded /\ persistent /\ disk # None THEN disk ELSE mem

LoadFails == ~loaded /\ persistent /\ disk = Unreadable

(* Mutant: the file is rewritten with the values it had when loaded. *)
PersistOld(p, ok) ==
    IF persistent THEN UNCHANGED disk ELSE ok = TRUE /\ UNCHANGED disk

(* persist_shared_preferences, when a path is configured; ok is its result. *)
Persist(p, ok) ==
    IF persistent
    THEN disk' = p \/ (~ok /\ UNCHANGED disk)
    ELSE ok = TRUE /\ UNCHANGED disk

(* The history of a write to keys ks of f, with new values vs. *)
Recorded(f, ks, vs, ok) ==
    /\ acked' = [acked EXCEPT ![f] =
                   [k \in Key |-> IF k \notin ks THEN @[k]
                                  ELSE IF ok /\ persistent THEN vs[k] ELSE Unknown]]
    /\ clean' = (clean /\ (loaded \/ ~persistent))

-----------------------------------------------------------------------------
(* The host *)

SetPath ==
    /\ persistent' = TRUE
    /\ mem' = Empty /\ loaded' = FALSE
    /\ UNCHANGED <<disk, guestVars, mirror, acked, clean>>

Disable ==
    /\ persistent' = FALSE /\ loaded' = TRUE
    /\ UNCHANGED <<disk, mem, guestVars, mirror, hist>>

(* A read error is ignored. *)
GetSettings ==
    /\ IF LoadFails THEN UNCHANGED <<mem, loaded>>
       ELSE mem' = LoadedMem /\ loaded' = TRUE
    /\ UNCHANGED <<disk, persistent, guestVars, mirror, hist>>

UpdateSetting(f, k, v, ok) ==
    /\ mem' = Set(mem, f, [Of(mem, f) EXCEPT ![k] = v])
    /\ Persist(mem', ok)
    /\ mirror' = IF ok THEN [mirror EXCEPT ![k] = v] ELSE mirror
    /\ Recorded(f, {k}, Of(mem', f), ok)
    /\ UNCHANGED <<loaded, persistent, guestVars>>

Seed(f, vs) ==
    /\ mem' = Set(mem, f, vs)
    /\ acked' = [acked EXCEPT ![f] = [k \in Key |-> Unknown]]
    /\ UNCHANGED <<disk, loaded, persistent, guestVars, mirror, clean>>

(* The process ends and the host creates a new context. *)
Restart ==
    /\ mem' = Empty /\ loaded' = FALSE /\ persistent' = FALSE
    /\ handles' = {} /\ editors' = [e \in Editor |-> NoEditor]
    /\ UNCHANGED <<disk, mirror, acked, clean>>

-----------------------------------------------------------------------------
(* The guest *)

(* Context.getSharedPreferences; a read error is thrown as IOException. *)
GetSharedPreferences(f) ==
    /\ ~LoadFails
    /\ mem' = Set(LoadedMem, f, Of(LoadedMem, f))
    /\ loaded' = TRUE
    /\ handles' = handles \cup {f}
    /\ UNCHANGED <<disk, persistent, editors, mirror, hist>>

EditPrefs(e, f) ==
    /\ f \in handles
    /\ editors' = [editors EXCEPT ![e] = NewEditor(f)]
    /\ UNCHANGED <<disk, mem, loaded, persistent, handles, mirror, hist>>

(* putBoolean, putString, putInt, putLong, putFloat, putStringSet, remove. *)
AddEdit(e, edit) ==
    /\ editors[e].file # None
    /\ Len(editors[e].edits) < MaxEdits
    /\ editors' = [editors EXCEPT ![e].edits = Append(@, edit)]
    /\ UNCHANGED <<disk, mem, loaded, persistent, handles, mirror, hist>>

ClearEdit(e) ==
    /\ editors[e].file # None
    /\ editors' = [editors EXCEPT ![e].clear = TRUE]
    /\ UNCHANGED <<disk, mem, loaded, persistent, handles, mirror, hist>>

(* The loop over an editor's edits, oldest first: those that put one of vs *)
(* are applied.                                                            *)
Replay(base, edits, vs) ==
    LET result[i \in 0..Len(edits)] ==
          IF i = 0 THEN base
          ELSE IF edits[i].put \in vs
               THEN [result[i - 1] EXCEPT ![edits[i].key] = edits[i].put]
               ELSE result[i - 1]
    IN  result[Len(edits)]

(* Mutant: clear() empties the file after the edits. *)
EditedClearLast(ed) ==
    IF ed.clear THEN NoValues ELSE Replay(Of(mem, ed.file), ed.edits, Value \cup {None})

(* edited_preferences: the file's new values. *)
Edited(ed) ==
    Replay(IF ed.clear THEN NoValues ELSE Of(mem, ed.file), ed.edits, Value \cup {None})

(* Mutant: the edits are reported newest first. *)
NotifiedBackwards(ed) ==
    [k \in Key |->
       LET puts == {i \in 1..Len(ed.edits) :
                      ed.edits[i].key = k /\ ed.edits[i].put # None}
       IN  IF puts = {} THEN mirror[k]
           ELSE ed.edits[CHOOSE i \in puts : \A j \in puts : i <= j].put]

(* notify_settings_update: the callback for each Put, oldest first. *)
Notified(ed) == Replay(mirror, ed.edits, Value)

Touched(ed) ==
    IF ed.clear THEN Key ELSE {ed.edits[i].key : i \in 1..Len(ed.edits)}

(* The editor keeps its edits. *)
Write(e, ok) ==
    /\ editors[e].file # None
    /\ mem' = Set(mem, editors[e].file, Edited(editors[e]))
    /\ Persist(mem', ok)
    /\ Recorded(editors[e].file, Touched(editors[e]), Edited(editors[e]), ok)
    /\ UNCHANGED <<loaded, persistent, guestVars>>

(* apply() ignores the result of persisting. *)
Apply(e, ok) ==
    /\ Write(e, ok)
    /\ mirror' = Notified(editors[e])

(* commit() returns it, and only notifies on success. *)
Commit(e, ok) ==
    /\ Write(e, ok)
    /\ mirror' = IF ok THEN Notified(editors[e]) ELSE mirror

Next ==
    \/ SetPath \/ Disable \/ GetSettings \/ Restart
    \/ \E f \in File, k \in Key, v \in Value, ok \in BOOLEAN : UpdateSetting(f, k, v, ok)
    \/ \E f \in File, vs \in Values : Seed(f, vs)
    \/ \E f \in File : GetSharedPreferences(f)
    \/ \E e \in Editor, f \in File : EditPrefs(e, f)
    \/ \E e \in Editor, edit \in Edit : AddEdit(e, edit)
    \/ \E e \in Editor : ClearEdit(e)
    \/ \E e \in Editor, ok \in BOOLEAN : Apply(e, ok) \/ Commit(e, ok)

Spec == Init /\ [][Next]_vars

-----------------------------------------------------------------------------
(* Properties *)

(* The stores hold values per file and key, the editors bounded edits. *)
TypeOK ==
    /\ disk \in Content /\ mem \in Prefs
    /\ loaded \in BOOLEAN /\ persistent \in BOOLEAN /\ clean \in BOOLEAN
    /\ handles \in SUBSET File
    /\ editors \in [Editor -> EditorState]
    /\ \A e \in Editor : Len(editors[e].edits) <= MaxEdits
    /\ mirror \in Values
    /\ acked \in [File -> [Key -> Value \cup {None, Unknown}]]

(* A value that commit() or update_setting reported as written is the one  *)
(* in the file, and the one a loaded context reads, across failures of     *)
(* other writes, restarts and reloads, until it is written again, provided *)
(* no write was made between configuring the file and loading it.          *)
AckedSettingsSurvive ==
    clean => \A f \in File, k \in Key : acked[f][k] # Unknown =>
               /\ OnDisk(f)[k] = acked[f][k]
               /\ loaded /\ persistent => Of(mem, f)[k] = acked[f][k]

(* The edits of an editor that concern key k, and the latest of them. *)
OwnEdits(ed, k) == {i \in 1..Len(ed.edits) : ed.edits[i].key = k}
LastOwn(ed, k) ==
    ed.edits[CHOOSE i \in OwnEdits(ed, k) : \A j \in OwnEdits(ed, k) : j <= i]

(* What an editor's writes must make of a file: the last edit of a key     *)
(* decides, and without one clear() does, whatever the order of the calls. *)
LastEditStep(e, k) ==
    LET ed == editors[e]
    IN  (\E ok \in BOOLEAN : Apply(e, ok) \/ Commit(e, ok)) =>
          Of(mem', ed.file)[k] =
            IF OwnEdits(ed, k) # {} THEN LastOwn(ed, k).put
            ELSE IF ed.clear THEN None ELSE Of(mem, ed.file)[k]
LastEditWins == [][\A e \in Editor, k \in Key : LastEditStep(e, k)]_vars

(* A key whose last edit was a put has, for the host, the value the guest  *)
(* reads, once apply() or a successful commit() is done.                   *)
MirrorStep(e, k) ==
    LET ed == editors[e]
    IN  (Apply(e, TRUE) \/ Commit(e, TRUE))
        /\ OwnEdits(ed, k) # {} /\ LastOwn(ed, k).put # None
        => mirror'[k] = Of(mem', ed.file)[k]
PutsAreMirrored == [][\A e \in Editor, k \in Key : MirrorStep(e, k)]_vars

(* The comment on update_setting: it "updates one setting". *)
UpdatesOneSetting ==
    [][\A f \in File, k \in Key, v \in Value : UpdateSetting(f, k, v, TRUE) =>
         \A g \in File, j \in Key :
           <<g, j>> # <<f, k>> => OnDisk(g)'[j] = OnDisk(g)[j]]_vars
=============================================================================
