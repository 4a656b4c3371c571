-------------------------- MODULE PrefsFileProofs ---------------------------
(***************************************************************************)
(* Proofs about PrefsFile: the file is never torn, and the routine         *)
(* implements a durable cell, for every set of contents.                   *)
(***************************************************************************)
EXTENDS PrefsFile, TLAPS

(* Each step of persist knows what the steps before it achieved. *)
Progress ==
    /\ pc = "idle" <=> want = Absent
    /\ pc = "sync" => temp.data = want
    /\ pc = "rename" => temp = [data |-> want, synced |-> TRUE]
    /\ pc = "dirsync" => file.data = want
    /\ file.synced = TRUE

IInv == FileTypeOK /\ NeverTorn /\ Progress

(* The inodes the steps create or change are inodes. *)
LEMMA InodeFacts ==
    /\ NoFile \in Inode /\ NoFile.data = Absent /\ NoFile.synced = TRUE
    /\ [data |-> Torn, synced |-> FALSE] \in Inode
    /\ [data |-> Torn, synced |-> TRUE] \in Inode
    /\ \A i \in Inode : [i EXCEPT !.synced = TRUE] \in Inode
    /\ \A i \in Inode : i.synced = TRUE => [i EXCEPT !.synced = TRUE] = i
    /\ \A i \in Inode, d \in Data : i = [data |-> d, synced |-> TRUE]
                                     => i.data = d /\ i.synced = TRUE
  <1>1. NoFile \in Inode /\ NoFile.data = Absent /\ NoFile.synced = TRUE
    BY DEF Inode, NoFile, Data
  <1>2. /\ [data |-> Torn, synced |-> FALSE] \in Inode
        /\ [data |-> Torn, synced |-> TRUE] \in Inode
    BY DEF Inode, Data
  <1>3. ASSUME NEW i \in Inode
        PROVE  /\ [i EXCEPT !.synced = TRUE] \in Inode
               /\ i.synced = TRUE => [i EXCEPT !.synced = TRUE] = i
    BY DEF Inode
  <1>4. ASSUME NEW i \in Inode, NEW d \in Data, i = [data |-> d, synced |-> TRUE]
        PROVE  i.data = d /\ i.synced = TRUE
    BY <1>4
  <1> QED
    BY <1>1, <1>2, <1>3, <1>4

(* The initial state, an empty directory, satisfies the invariant. *)
LEMMA InitInv == FileInit => IInv
  BY PrefsFileAssumption
     DEF FileInit, IInv, FileTypeOK, NeverTorn, Progress, Inode, Data, NoFile

(* Every step of persist, of the system underneath and every crash         *)
(* preserves the invariant.                                                *)
LEMMA StepInv == IInv /\ [FileNext]_fileVars => IInv'
  <1> SUFFICES ASSUME IInv, [FileNext]_fileVars PROVE IInv'
    OBVIOUS
  <1> USE PrefsFileAssumption
      DEF IInv, FileTypeOK, NeverTorn, Progress, Report, Gone
  <1>1. ASSUME NEW c \in Encoded, StartPersist(c) PROVE IInv'
    BY <1>1 DEF StartPersist
  <1>2. CASE Create
    <2>1. temp' \in Inode
      BY <1>2, InodeFacts DEF Create
    <2> QED
      BY <1>2, <2>1 DEF Create
  <1>3. CASE WriteTemp
    BY <1>3 DEF WriteTemp, Inode, Data
  <1>4. CASE Sync
    BY <1>4 DEF Sync, Inode, Data
  <1>5. CASE Rename
    <2>1. CASE pc' = "dirsync"
      <3>1. file' = temp /\ temp' = NoFile /\ UNCHANGED <<entry, want, outcome>>
        BY <1>5, <2>1 DEF Rename
      <3>2. temp.data = want /\ temp.synced = TRUE /\ want \in Encoded
        BY <1>5, InodeFacts DEF Rename
      <3> QED
        BY <2>1, <3>1, <3>2, InodeFacts
    <2>2. CASE pc' # "dirsync"
      BY <1>5, <2>2 DEF Rename
    <2> QED
      BY <2>1, <2>2
  <1>6. CASE DirSync
    BY <1>6 DEF DirSync
  <1>7. CASE Cleanup
    BY <1>7, InodeFacts DEF Cleanup
  <1>8. CASE FlushData
    BY <1>8, InodeFacts DEF FlushData
  <1>9. CASE FlushEntry
    BY <1>9 DEF FlushEntry
  <1>10. CASE Killed
    BY <1>10 DEF Killed
  <1>11. CASE PowerLoss
    <2>1. entry' = entry /\ file' = entry
      BY <1>11, InodeFacts DEF PowerLoss
    <2>2. temp' \in Inode
      BY <1>11, InodeFacts DEF PowerLoss
    <2> QED
      BY <1>11, <2>1, <2>2 DEF PowerLoss
  <1>12. CASE UNCHANGED fileVars
    BY <1>12 DEF fileVars
  <1> QED
    BY <1>1, <1>2, <1>3, <1>4, <1>5, <1>6, <1>7, <1>8, <1>9, <1>10, <1>11,
       <1>12 DEF FileNext

(* The invariant holds in every reachable state. *)
THEOREM Invariance == FileSpec => []IInv
  BY InitInv, StepInv, PTL DEF FileSpec

(* Whatever fails or stops between the steps of persist, neither the file  *)
(* nor what a power loss leaves of it is ever torn.                        *)
THEOREM FileNeverTorn == FileSpec => []NeverTorn
  <1>1. IInv => NeverTorn
    BY DEF IInv
  <1> QED
    BY <1>1, Invariance, PTL

(* persist_shared_preferences implements the durable cell: StartPersist    *)
(* begins a write, Rename makes it take effect, DirSync ends it with       *)
(* success and Cleanup with an error.                                      *)
THEOREM Refinement == FileSpec => Atomic
  <1>1. FileInit => Cell!Init
    BY DEF FileInit, Cell!Init, NoFile, After, Writing
  <1>2. IInv /\ IInv' /\ [FileNext]_fileVars => [Cell!Next]_(Cell!vars)
    <2> SUFFICES ASSUME IInv, IInv', [FileNext]_fileVars PROVE [Cell!Next]_(Cell!vars)
      OBVIOUS
    <2> USE PrefsFileAssumption
        DEF IInv, FileTypeOK, NeverTorn, Progress, Inode, Data, NoFile, After,
            Writing, Report, Gone, Cell!vars
    <2>1. ASSUME NEW c \in Encoded, StartPersist(c) PROVE Cell!Begin(c)
      BY <2>1 DEF StartPersist, Cell!Begin
    <2>2. CASE Create
      BY <2>2 DEF Create, Cell!Settle, Cell!Fail, Cell!Next
    <2>3. CASE WriteTemp
      BY <2>3 DEF WriteTemp, Cell!Settle, Cell!Next
    <2>4. CASE Sync
      BY <2>4 DEF Sync, Cell!Settle, Cell!Next
    <2>5. CASE Rename
      BY <2>5 DEF Rename, Cell!TakeEffect, Cell!Settle, Cell!Next
    <2>6. CASE DirSync
      BY <2>6 DEF DirSync, Cell!Succeed, Cell!Settle, Cell!Next
    <2>7. CASE Cleanup
      BY <2>7 DEF Cleanup, Cell!Fail, Cell!Next
    <2>8. CASE FlushData
      BY <2>8 DEF FlushData, Cell!Settle, Cell!Next
    <2>9. CASE FlushEntry
      BY <2>9 DEF FlushEntry, Cell!Settle, Cell!Next
    <2>10. CASE Killed
      BY <2>10 DEF Killed, Cell!Crash, Cell!Next
    <2>11. CASE PowerLoss
      BY <2>11 DEF PowerLoss, Cell!Crash, Cell!Next
    <2>12. CASE UNCHANGED fileVars
      BY <2>12 DEF fileVars
    <2> QED
      BY <2>1, <2>2, <2>3, <2>4, <2>5, <2>6, <2>7, <2>8, <2>9, <2>10, <2>11,
         <2>12 DEF FileNext, Cell!Next
  <1> QED
    BY <1>1, <1>2, Invariance, PTL DEF FileSpec, Atomic, Cell!Spec
=============================================================================
