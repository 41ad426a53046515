----------------------- MODULE UpdateInstallerProofs -----------------------
(***************************************************************************)
(* Proofs about UpdateInstaller, for any releases.                         *)
(***************************************************************************)
EXTENDS UpdateInstaller, TLAPS

LEMMA Order ==
  /\ Len(CopyOrder) = 3 /\ CopyOrder[1] = Dll /\ Dll \in Entry
  /\ \A i \in 1 .. 3 : CopyOrder[i] \in Entry
  /\ \A i, j \in 1 .. 3 : CopyOrder[i] = CopyOrder[j] => i = j
  /\ \A e \in Entry : \E i \in 1 .. 3 : e = CopyOrder[i]
<1>1. /\ Len(CopyOrder) = 3 /\ CopyOrder[1] = Dll
      /\ CopyOrder[2] # Dll /\ CopyOrder[3] # Dll /\ CopyOrder[2] # CopyOrder[3]
  BY DEF CopyOrder, Dll
<1>2. Entry = {CopyOrder[i] : i \in 1 .. 3} BY <1>1 DEF Entry
<1>3. \A i \in 1 .. 3 : i = 1 \/ i = 2 \/ i = 3 OBVIOUS
<1> QED BY <1>1, <1>2, <1>3

-----------------------------------------------------------------------------
(* The inductive invariant                                                  *)

\* The backup folder holds whatever of `file' was installed.
Saved(file) == before[file] # NoFile => backup[file] = before[file]

\* What Apply has established at each point of the run.
Progress ==
  /\ pc \in {"none", "wait", "backup"} => install = before
  /\ pc = "wait" => pos = 1
  /\ pc \in {"wait", "backup"} => touched \subseteq {CopyOrder[i] : i \in 1 .. pos - 1}
  /\ pc = "backup" => \A i \in 1 .. pos - 1 : Saved(CopyOrder[i])
  /\ pc \in {"copy", "rollback"} => \A e \in Entry : Saved(e)
  /\ pc = "copy" => \A i \in 1 .. pos - 1 : install[CopyOrder[i]] = handoff
  /\ pc = "copy" /\ pos = 1 => install = before

Inv == TypeOK /\ Progress /\ NothingIsLost /\ SuccessIsWhole

LEMMA InitInv == Init => Inv
<1> SUFFICES ASSUME Init PROVE Inv OBVIOUS
<1>0. PICK r \in Release : install \in [Entry -> {r, NoFile}] /\ install[Dll] = r
  BY DEF Init
<1>1. TypeOK
  <2>1. {install, backup, before} \subseteq [Entry -> Content] BY <1>0 DEF Init, Content
  <2>2. pos \in 1 .. Len(CopyOrder) + 1 BY Order DEF Init
  <2> QED BY <2>1, <2>2 DEF Init, TypeOK, Resting
<1>2. Progress /\ NothingIsLost /\ SuccessIsWhole
  BY <1>1 DEF Init, Progress, NothingIsLost, SuccessIsWhole, TypeOK
<1> QED BY <1>1, <1>2 DEF Inv

LEMMA FileType == ASSUME TypeOK, Inside PROVE pos \in 1 .. 3 /\ File \in Entry
BY Order DEF TypeOK, Inside, File

\* What a failed copy leaves is still something a file can hold.
LEMMA SpoiltType ==
  ASSUME TypeOK, NEW file \in Entry, NEW left \in Spoilt(file)
  PROVE  left \in Content
BY DEF TypeOK, Spoilt, Content

LEMMA TypeStep == TypeOK /\ Progress /\ [Next]_vars => TypeOK'
<1> SUFFICES ASSUME TypeOK, Progress, [Next]_vars PROVE TypeOK' OBVIOUS
<1> USE DEF TypeOK, Resting, Working, loop
<1>1. CASE StartGame \/ ExitGame BY <1>1 DEF StartGame, ExitGame
<1>2. ASSUME NEW r \in Release, Start(r) PROVE TypeOK'
  BY <1>2, Order DEF Start, Content
<1>3. CASE WaitForGame \/ WaitTimesOut BY <1>3 DEF WaitForGame, WaitTimesOut
<1>4. CASE BackupIfExists
  <2>1. pos' \in 1 .. Len(CopyOrder) + 1 BY <1>4, FileType, Order DEF BackupIfExists
  <2> QED BY <1>4, <2>1, FileType DEF BackupIfExists
<1>5. CASE BackupFails
  <2>1. File \notin touched
    <3>1. pos \in 1 .. 3 /\ touched \subseteq {CopyOrder[i] : i \in 1 .. pos - 1}
      BY <1>5, FileType DEF BackupFails, Progress
    <3> QED BY <3>1, Order DEF File
  <2> QED BY <1>5, <2>1, FileType DEF BackupFails, Content
<1>6. CASE BackupsDone BY <1>6, Order DEF BackupsDone
<1>7. CASE CopyFile
  <2>1. pos' \in 1 .. Len(CopyOrder) + 1 BY <1>7, FileType, Order DEF CopyFile
  <2> QED BY <1>7, <2>1, FileType DEF CopyFile, Content
<1>8. CASE CopyFails BY <1>8, FileType, SpoiltType DEF CopyFails
<1>9. CASE Applied \/ RollbackDone BY <1>9 DEF Applied, RollbackDone
<1>10. ASSUME NEW file \in Entry, Rollback(file) PROVE TypeOK'
  <2>1. \A left \in Spoilt(file) : left \in Content BY SpoiltType
  <2> QED BY <1>10, <2>1 DEF Rollback
<1>11. CASE Killed BY <1>11, FileType, SpoiltType DEF Killed
<1>12. CASE UNCHANGED vars BY <1>12 DEF vars
<1> QED BY <1>1, <1>2, <1>3, <1>4, <1>5, <1>6, <1>7, <1>8, <1>9, <1>10, <1>11, <1>12 DEF Next

-----------------------------------------------------------------------------
(* What a step leaves of the progress made                                  *)

LEMMA ProgressStep == TypeOK /\ Progress /\ [Next]_vars => Progress'
<1> SUFFICES ASSUME TypeOK, Progress, [Next]_vars PROVE Progress' OBVIOUS
<1> USE DEF loop
<1>1. CASE StartGame \/ ExitGame BY <1>1 DEF StartGame, ExitGame, Progress, Saved
<1>2. ASSUME NEW r \in Release, Start(r) PROVE Progress'
  BY <1>2 DEF Start, Progress, Saved
<1>3. CASE WaitForGame BY <1>3 DEF WaitForGame, Progress, Saved
<1>4. CASE WaitTimesOut BY <1>4 DEF WaitTimesOut, Progress
<1>5. CASE BackupIfExists
  <2>1. pos \in 1 .. 3 /\ pos' = pos + 1 /\ File \in Entry
    BY <1>5, FileType DEF BackupIfExists
  <2>2. \A i \in 1 .. pos' - 1 : i \in 1 .. pos - 1 \/ i = pos BY <2>1
  <2>3. touched' \subseteq {CopyOrder[i] : i \in 1 .. pos' - 1}
    <3>1. touched' \subseteq touched \cup {CopyOrder[pos]} BY <1>5 DEF BackupIfExists, File
    <3>2. \A i \in 1 .. pos - 1 : i \in 1 .. pos' - 1 BY <2>1
    <3>3. pos \in 1 .. pos' - 1 BY <2>1
    <3> QED BY <1>5, <3>1, <3>2, <3>3 DEF BackupIfExists, Progress
  <2>4. before[File] # NoFile => backup'[File] = before[File]
    BY <1>5, <2>1 DEF BackupIfExists, Progress, TypeOK
  <2>5. ASSUME NEW i \in 1 .. pos - 1 PROVE Saved(CopyOrder[i])'
    <3>1. i \in 1 .. 3 /\ i # pos BY <2>1
    <3>2. CopyOrder[i] # File /\ CopyOrder[i] \in Entry BY <2>1, <3>1, Order DEF File
    <3>3. Saved(CopyOrder[i]) BY <1>5 DEF BackupIfExists, Progress
    <3>4. UNCHANGED before /\ backup'[CopyOrder[i]] = backup[CopyOrder[i]]
      BY <1>5, <3>2 DEF BackupIfExists, TypeOK
    <3> QED BY <3>3, <3>4 DEF Saved
  <2>6. \A i \in 1 .. pos' - 1 : Saved(CopyOrder[i])'
    <3>1. UNCHANGED before BY <1>5 DEF BackupIfExists
    <3> QED BY <2>2, <2>4, <2>5, <3>1 DEF File, Saved
  <2> QED BY <1>5, <2>3, <2>6 DEF BackupIfExists, Progress
<1>6. CASE BackupFails BY <1>6 DEF BackupFails, Progress
<1>7. CASE BackupsDone
  <2>1. \A i \in 1 .. 3 : i \in 1 .. pos - 1 BY <1>7, Order DEF BackupsDone, Inside, TypeOK
  <2>2. \A e \in Entry : Saved(e) BY <1>7, <2>1, Order DEF BackupsDone, Progress
  <2> QED BY <1>7, <2>2 DEF BackupsDone, Progress, Saved
<1>8. CASE CopyFile
  <2>1. pos \in 1 .. 3 /\ pos' = pos + 1 /\ File \in Entry BY <1>8, FileType DEF CopyFile
  <2>2. \A i \in 1 .. pos' - 1 : i \in 1 .. pos - 1 \/ i = pos BY <2>1
  <2>3. \A i \in 1 .. pos' - 1 : install'[CopyOrder[i]] = handoff
    BY <1>8, <2>1, <2>2, Order DEF CopyFile, Progress, TypeOK, File
  <2> QED BY <1>8, <2>1, <2>3 DEF CopyFile, Progress, Saved
<1>9. CASE CopyFails BY <1>9 DEF CopyFails, Progress, Saved
<1>10. CASE Applied \/ RollbackDone BY <1>10 DEF Applied, RollbackDone, Progress
<1>11. ASSUME NEW file \in Entry, Rollback(file) PROVE Progress'
  BY <1>11 DEF Rollback, Progress, Saved
<1>12. CASE Killed BY <1>12 DEF Killed, Progress
<1>13. CASE UNCHANGED vars BY <1>13 DEF vars, Progress, Saved
<1> QED
  BY <1>1, <1>2, <1>3, <1>4, <1>5, <1>6, <1>7, <1>8, <1>9, <1>10, <1>11, <1>12, <1>13 DEF Next

-----------------------------------------------------------------------------
(* The safety properties                                                    *)

\* Nothing is lost while the backups are complete, or while nothing has been overwritten.
LEMMA SafeWhenSaved ==
  ASSUME \/ \A e \in Entry : Saved(e)
         \/ install = before
  PROVE  NothingIsLost
BY DEF NothingIsLost, Saved

LEMMA NothingIsLostStep == Inv /\ [Next]_vars => NothingIsLost'
<1> SUFFICES ASSUME Inv, [Next]_vars PROVE NothingIsLost' OBVIOUS
<1> USE DEF Inv, loop
<1>1. CASE /\ pc \in {"copy", "rollback"}
           /\ CopyFile \/ CopyFails \/ Killed \/ \E file \in Entry : Rollback(file)
  <2>1. UNCHANGED <<before, backup>>
    BY <1>1 DEF CopyFile, CopyFails, Killed, Rollback
  <2> QED BY <1>1, <2>1 DEF Progress, Saved, NothingIsLost
<1>2. CASE BackupIfExists \/ BackupFails
  <2>1. install' = before' BY <1>2 DEF BackupIfExists, BackupFails, Progress
  <2> QED BY <2>1 DEF NothingIsLost
<1>3. ASSUME NEW r \in Release, Start(r) PROVE NothingIsLost'
  BY <1>3 DEF Start, NothingIsLost
<1>4. CASE UNCHANGED <<install, backup, before>> BY <1>4 DEF NothingIsLost
<1>5. CASE Killed /\ pc \notin {"copy", "rollback"} BY <1>5, <1>4 DEF Killed
<1> QED
  BY <1>1, <1>2, <1>3, <1>4, <1>5
  DEF Next, StartGame, ExitGame, WaitForGame, WaitTimesOut, BackupsDone, CopyFile, CopyFails,
      Applied, Rollback, RollbackDone, vars

LEMMA SuccessStep == Inv /\ [Next]_vars => SuccessIsWhole'
<1> SUFFICES ASSUME Inv, [Next]_vars, pc' = "ok" PROVE \A e \in Entry : install'[e] = handoff'
  BY DEF SuccessIsWhole
<1> USE DEF Inv, loop
<1>1. CASE Applied
  <2>1. \A i \in 1 .. 3 : i \in 1 .. pos - 1 BY <1>1, Order DEF Applied, Inside, TypeOK
  <2> QED BY <1>1, <2>1, Order DEF Applied, Progress
<1>2. CASE pc = "ok" /\ UNCHANGED <<install, handoff>> BY <1>2 DEF SuccessIsWhole
<1> QED
  BY <1>1, <1>2
  DEF Next, StartGame, ExitGame, Start, WaitForGame, WaitTimesOut, BackupIfExists, BackupFails,
      BackupsDone, CopyFile, CopyFails, Rollback, RollbackDone, Killed, vars

-----------------------------------------------------------------------------
(* The theorems                                                             *)

\* Every reachable state satisfies the inductive invariant.
THEOREM Invariance == Spec => []Inv
<1>1. Init => Inv BY InitInv
<1>2. Inv /\ [Next]_vars => Inv'
  BY TypeStep, ProgressStep, NothingIsLostStep, SuccessStep DEF Inv
<1> QED BY <1>1, <1>2, PTL DEF Spec

\* Types, and that the rollback list only names files with a backup.
THEOREM TypeCorrect == Spec => []TypeOK
<1> Inv => TypeOK BY DEF Inv
<1> QED BY Invariance, PTL

\* Whatever fails and whenever the updater is killed, the files that were installed are
\* still to be found, in place or in the backup folder.
THEOREM BackupsSuffice == Spec => []NothingIsLost
<1> Inv => NothingIsLost BY DEF Inv
<1> QED BY Invariance, PTL

\* An update that reports success has installed the release entirely.
THEOREM SuccessInstallsAll == Spec => []SuccessIsWhole
<1> Inv => SuccessIsWhole BY DEF Inv
<1> QED BY Invariance, PTL

\* No other file is overwritten before the DLL is.
THEOREM DllFirst == Spec => []DllGoesFirst
<1> Inv => DllGoesFirst
  <2> SUFFICES ASSUME Inv, pc \in {"wait", "backup", "copy"}
      PROVE  install[Dll] = handoff \/ \A e \in Entry \ {Dll} : install[e] = before[e]
    BY DEF DllGoesFirst
  <2>1. CASE pc = "copy" /\ pos # 1
    <3>1. 1 \in 1 .. pos - 1 BY <2>1 DEF Inv, TypeOK
    <3> QED BY <2>1, <3>1, Order DEF Inv, Progress
  <2>2. CASE pc # "copy" \/ pos = 1 BY <2>2 DEF Inv, Progress
  <2> QED BY <2>1, <2>2
<1> QED BY Invariance, PTL
=============================================================================
