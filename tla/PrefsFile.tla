----------------------------- MODULE PrefsFile ------------------------------
(***************************************************************************)
(* The preferences file of dexvm on disk (vm/native/android/mod.rs):       *)
(* persist_shared_preferences writes a temporary file, syncs it, renames   *)
(* it over the old one and syncs the directory, any step of which may fail *)
(* or be the last before a crash; load_shared_preferences reads the file.  *)
(*                                                                         *)
(* A file's content is one of Encoded (the encoding of a whole set of      *)
(* preferences) or Torn.  The page cache is modelled: a file's data, and   *)
(* the directory entry a rename changes, reach the disk when synced, or by *)
(* themselves at any time.                                                 *)
(***************************************************************************)
CONSTANTS
    Encoded,    \* encoded sets of preferences
    Absent,     \* no such file
    Torn        \* empty or cut short: decode_shared_preferences refuses it

ASSUME PrefsFileAssumption ==
    Absent \notin Encoded /\ Torn \notin Encoded /\ Absent # Torn

Data == Encoded \cup {Absent, Torn}
Inode == [data : Data, synced : BOOLEAN]
NoFile == [data |-> Absent, synced |-> TRUE]

VARIABLES
    file,    \* the inode the path names
    entry,   \* the inode it names on disk, should the machine stop now
    temp,    \* the inode of path.tmp
    want,    \* the content being persisted, Absent when no persist is running
    pc,      \* the next step of persist_shared_preferences
    outcome  \* the last result of persist, "none" until it returns

fileVars == <<file, entry, temp, want, pc, outcome>>

FileInit ==
    /\ file = NoFile /\ entry = NoFile /\ temp = NoFile
    /\ want = Absent /\ pc = "idle" /\ outcome = "none"

(* The process is gone: its persist, if any, never returned. *)
Gone == pc' = "idle" /\ want' = Absent /\ outcome' = "none"

(* persist_shared_preferences returns Ok(()) or Err. *)
Report(result) == pc' = "idle" /\ want' = Absent /\ outcome' = result

-----------------------------------------------------------------------------
(* persist_shared_preferences *)

StartPersist(c) ==
    /\ pc = "idle"
    /\ want' = c /\ pc' = "create" /\ outcome' = "none"
    /\ UNCHANGED <<file, entry, temp>>

(* create_dir_all fails before the routine has a temporary file to clean   *)
(* up; File::create fails after.                                           *)
Create ==
    /\ pc = "create"
    /\ \/ /\ temp' = [data |-> Torn, synced |-> FALSE]
          /\ pc' = "write" /\ UNCHANGED <<want, outcome>>
       \/ pc' = "cleanup" /\ UNCHANGED <<temp, want, outcome>>
       \/ Report("error") /\ UNCHANGED temp
    /\ UNCHANGED <<file, entry>>

(* A failed write_all leaves a prefix behind. *)
WriteTemp ==
    /\ pc = "write"
    /\ \/ temp' = [temp EXCEPT !.data = want] /\ pc' = "sync"
       \/ pc' = "cleanup" /\ UNCHANGED temp
    /\ UNCHANGED <<file, entry, want, outcome>>

(* Mutant: the temporary file is renamed without being synced. *)
SyncSkipped ==
    /\ pc = "sync"
    /\ pc' = "rename"
    /\ UNCHANGED <<file, entry, temp, want, outcome>>

Sync ==
    /\ pc = "sync"
    /\ \/ temp' = [temp EXCEPT !.synced = TRUE] /\ pc' = "rename"
       \/ pc' = "cleanup" /\ UNCHANGED temp
    /\ UNCHANGED <<file, entry, want, outcome>>

Rename ==
    /\ pc = "rename"
    /\ \/ file' = temp /\ temp' = NoFile /\ pc' = "dirsync"
       \/ pc' = "cleanup" /\ UNCHANGED <<file, temp>>
    /\ UNCHANGED <<entry, want, outcome>>

(* Mutant: success is reported when the rename is done. *)
DirSyncSkipped ==
    /\ pc = "dirsync"
    /\ Report("ok")
    /\ UNCHANGED <<file, entry, temp>>

(* The path has a directory part, and the host is a unix: elsewhere the     *)
(* routine has no such step.                                               *)
DirSync ==
    /\ pc = "dirsync"
    /\ \/ entry' = file /\ Report("ok")
       \/ pc' = "cleanup" /\ UNCHANGED <<entry, want, outcome>>
    /\ UNCHANGED <<file, temp>>

(* The error path: the temporary file is removed, an error reported. *)
Cleanup ==
    /\ pc = "cleanup"
    /\ temp' = NoFile
    /\ Report("error")
    /\ UNCHANGED <<file, entry>>

-----------------------------------------------------------------------------
(* The system underneath: written back early, killed, or cut off. *)

FlushData ==
    /\ file' = [file EXCEPT !.synced = TRUE]
    /\ entry' = IF entry = file THEN file' ELSE entry
    /\ UNCHANGED <<temp, want, pc, outcome>>

FlushEntry ==
    /\ entry' = file
    /\ UNCHANGED <<file, temp, want, pc, outcome>>

(* The process dies: the page cache survives it. *)
Killed ==
    /\ Gone
    /\ UNCHANGED <<file, entry, temp>>

(* The machine stops: unsynced data is lost or cut short, the directory is *)
(* as it was last synced, and the temporary file is there or not.          *)
PowerLoss ==
    /\ \/ entry' = [entry EXCEPT !.synced = TRUE]
       \/ entry.synced = FALSE /\ entry' = [data |-> Torn, synced |-> TRUE]
    /\ file' = entry'
    /\ temp' \in {NoFile, [data |-> Torn, synced |-> TRUE],
                  [temp EXCEPT !.synced = TRUE]}
    /\ Gone

FileNext ==
    \/ \E c \in Encoded : StartPersist(c)
    \/ Create \/ WriteTemp \/ Sync \/ Rename \/ DirSync \/ Cleanup
    \/ FlushData \/ FlushEntry \/ Killed \/ PowerLoss

FileSpec == FileInit /\ [][FileNext]_fileVars

-----------------------------------------------------------------------------
(* Properties *)

(* The variables hold inodes and a step of the persist routine. *)
FileTypeOK ==
    /\ file \in Inode /\ entry \in Inode /\ temp \in Inode
    /\ want \in Encoded \cup {Absent}
    /\ pc \in {"idle", "create", "write", "sync", "rename", "dirsync", "cleanup"}
    /\ outcome \in {"none", "ok", "error"}

(* load_shared_preferences never meets a file it must refuse: neither the  *)
(* file nor what a power loss would make of it is torn, whatever failed or *)
(* stopped between the steps of persist.                                   *)
NeverTorn ==
    /\ file.data # Torn
    /\ entry.data # Torn /\ entry.synced = TRUE

(* The routine implements a durable cell: in particular commit()'s result  *)
(* 1 means that the content is found again after any crash.                *)
After == {file.data, entry.data}
            \cup (IF pc \in {"idle", "cleanup"} THEN {} ELSE {want})
Writing == want
Cell == INSTANCE DurableCell
          WITH Content <- Encoded, cell <- file.data, after <- After, writing <- Writing
Atomic == Cell!Spec
=============================================================================
