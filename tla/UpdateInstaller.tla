-------------------------- MODULE UpdateInstaller --------------------------
(***************************************************************************)
(* BBCFIMUpdater.exe: started by the game for a staged release as the game *)
(* exits, it waits for the game to let go of dinput8.dll, backs up what it *)
(* is about to overwrite, copies the staged files over the installed ones  *)
(* and, when a copy fails, copies the backups back.                        *)
(*                                                                         *)
(* The stage folder is taken to hold the whole package of the release the  *)
(* updater is started for: UpdateCoordinator!LaunchesWholePackage.  One    *)
(* updater runs at a time.  A package carries no ini templates, so the     *)
(* merges at the end leave the user's settings.ini and palettes.ini alone. *)
(***************************************************************************)
EXTENDS Integers, Sequences, FiniteSets

CONSTANT Release    \* the releases that can be installed

ASSUME ReleaseAssumption == Release \subseteq Nat \ {0}

NoFile == 0
\* What a copy that was cut short leaves of a file.
Torn == 0 - 1

\* The staged files last to first.
CopyOrderReversed == <<"USER_README.txt", "BBCFIMUpdater.exe", "dinput8.dll">>
CopyOrder == <<"dinput8.dll", "BBCFIMUpdater.exe", "USER_README.txt">>
Dll == "dinput8.dll"
Entry == {CopyOrder[i] : i \in 1 .. Len(CopyOrder)}
Content == Release \cup {NoFile, Torn}

VARIABLES
  locked,    \* a game has dinput8.dll loaded
  install,   \* the installed files
  handoff,   \* the release the updater was last started for
  pc,        \* where Apply is
  pos,       \* the file its loops are at
  backup,    \* this run's backup folder
  touched,   \* the backed up files, those still to be copied back during the rollback
  before     \* history: the installed files when the updater was started

loop == <<pos, backup, touched>>
vars == <<locked, install, handoff, pc, loop, before>>

Resting == {"none", "ok", "failed", "killed"}
Working == {"wait", "backup", "copy", "rollback"}

\* A manual install has no BBCF_IM\Updater\BBCFIMUpdater.exe yet, and the user may have
\* deleted the readme.
Init ==
  /\ \E r \in Release : install \in [Entry -> {r, NoFile}] /\ install[Dll] = r
  /\ before = install
  /\ locked = FALSE /\ handoff = NoFile /\ pc = "none"
  /\ pos = 1 /\ backup = [e \in Entry |-> NoFile] /\ touched = {}

-----------------------------------------------------------------------------
(* The game: the user can start it at any time, whether the updater runs or *)
(* not, unless a torn DLL keeps it from loading; then everything may stop.  *)

StartGame ==
  /\ ~locked /\ install[Dll] \in Release
  /\ locked' = TRUE
  /\ UNCHANGED <<install, handoff, pc, loop, before>>
ExitGame == locked /\ locked' = FALSE /\ UNCHANGED <<install, handoff, pc, loop, before>>

\* LaunchUpdaterAndExitGame: the game is on its way out when the updater starts.
Start(release) ==
  /\ locked /\ pc \in Resting /\ install[Dll] \in Release
  /\ handoff' = release /\ pc' = "wait" /\ before' = install
  /\ pos' = 1 /\ backup' = [e \in Entry |-> NoFile] /\ touched' = {}
  /\ UNCHANGED <<locked, install>>

-----------------------------------------------------------------------------
(* Apply                                                                    *)

\* WaitForGame opens the DLL once; nothing keeps the game away afterwards.
WaitForGame ==
  /\ pc = "wait" /\ ~locked
  /\ pc' = "backup"
  /\ UNCHANGED <<locked, install, handoff, loop, before>>

WaitTimesOut ==
  /\ pc = "wait" /\ locked
  /\ pc' = "failed"
  /\ UNCHANGED <<locked, install, handoff, loop, before>>

File == CopyOrder[pos]
Inside == pos <= Len(CopyOrder)

BackupIfExists ==
  /\ pc = "backup" /\ Inside
  /\ IF install[File] = NoFile
     THEN UNCHANGED <<backup, touched>>
     ELSE /\ backup' = [backup EXCEPT ![File] = install[File]]
          /\ touched' = touched \cup {File}
  /\ pos' = pos + 1
  /\ UNCHANGED <<locked, install, handoff, pc, before>>

\* Going on to copy over a file whose backup failed.
BackupFailureIgnored ==
  /\ pc = "backup" /\ Inside /\ install[File] # NoFile
  /\ \E left \in {NoFile, Torn} : backup' = [backup EXCEPT ![File] = left]
  /\ touched' = touched \cup {File} /\ pos' = pos + 1
  /\ UNCHANGED <<locked, install, handoff, pc, before>>

\* The backup folder or a copy into it cannot be made: nothing has been overwritten yet.
BackupFails ==
  /\ pc = "backup" /\ Inside /\ install[File] # NoFile
  /\ \E left \in {NoFile, Torn} : backup' = [backup EXCEPT ![File] = left]
  /\ pc' = "failed"
  /\ UNCHANGED <<locked, install, handoff, pos, touched, before>>

\* The ".default" files come last in the list; the inis' own backups may fail unheeded.
BackupsDone ==
  /\ pc = "backup" /\ ~Inside
  /\ pc' \in {"copy", "failed"} /\ pos' = 1
  /\ UNCHANGED <<locked, install, handoff, backup, touched, before>>

Writable(file) == file = Dll => ~locked

\* What is left of a file when copying over it fails: it was not opened, or was cut short.
Spoilt(file) == {install[file]} \cup IF Writable(file) THEN {Torn} ELSE {}

CopyFile ==
  /\ pc = "copy" /\ Inside /\ Writable(File)
  /\ install' = [install EXCEPT ![File] = handoff]
  /\ pos' = pos + 1
  /\ UNCHANGED <<locked, handoff, pc, backup, touched, before>>

\* Leaving a file out when it cannot be copied.
CopyFailureIgnored ==
  /\ pc = "copy" /\ Inside
  /\ \E left \in Spoilt(File) : install' = [install EXCEPT ![File] = left]
  /\ pos' = pos + 1
  /\ UNCHANGED <<locked, handoff, pc, backup, touched, before>>

CopyFails ==
  /\ pc = "copy" /\ Inside
  /\ \E left \in Spoilt(File) : install' = [install EXCEPT ![File] = left]
  /\ pc' = "rollback"
  /\ UNCHANGED <<locked, handoff, loop, before>>

\* Rollback copies back the files that had a backup; the result of the copy is not looked at.
Rollback(file) ==
  /\ pc = "rollback" /\ file \in touched
  /\ \E left \in Spoilt(file) \cup IF Writable(file) THEN {backup[file]} ELSE {} :
       install' = [install EXCEPT ![file] = left]
  /\ touched' = touched \ {file}
  /\ UNCHANGED <<locked, handoff, pc, pos, backup, before>>

RollbackDone ==
  /\ pc = "rollback" /\ touched = {}
  /\ pc' = "failed"
  /\ UNCHANGED <<locked, install, handoff, loop, before>>

\* MergeIni finds no new default and returns.
Applied ==
  /\ pc = "copy" /\ ~Inside
  /\ pc' = "ok"
  /\ UNCHANGED <<locked, install, handoff, loop, before>>

\* Killed, or the power goes, perhaps while a file is being copied.
Killed ==
  /\ pc \in Working /\ pc' = "killed"
  /\ \/ UNCHANGED install
     \/ /\ pc = "copy" /\ Inside
        /\ \E left \in Spoilt(File) : install' = [install EXCEPT ![File] = left]
     \/ /\ pc = "rollback"
        /\ \E file \in touched : \E left \in Spoilt(file) :
             install' = [install EXCEPT ![file] = left]
  /\ UNCHANGED <<locked, handoff, loop, before>>

Next ==
  \/ StartGame \/ ExitGame \/ \E r \in Release : Start(r)
  \/ WaitForGame \/ WaitTimesOut
  \/ BackupIfExists \/ BackupFails \/ BackupsDone
  \/ CopyFile \/ CopyFails \/ Applied
  \/ \E file \in Entry : Rollback(file)
  \/ RollbackDone \/ Killed

Spec == Init /\ [][Next]_vars

-----------------------------------------------------------------------------
(* Properties                                                               *)

\* Types, and that the rollback list only names files of which a copy was made in full.
TypeOK ==
  /\ locked \in BOOLEAN /\ handoff \in Release \cup {NoFile}
  /\ pc \in Resting \cup Working /\ pos \in 1 .. Len(CopyOrder) + 1
  /\ {install, backup, before} \subseteq [Entry -> Content]
  /\ touched \subseteq {e \in Entry : backup[e] # NoFile}

\* However the run goes - a copy fails, its rollback fails too, the game is started in
\* between and locks the DLL, the updater is killed - what was installed before is still
\* there, in place or in the backup folder: Apply backs everything up before its first copy.
NothingIsLost == \A e \in Entry : before[e] # NoFile => before[e] \in {install[e], backup[e]}

\* "Update applied successfully" is only said of an install that is the release entirely,
\* although the game may have been started, and the DLL locked, at any point of the run.
SuccessIsWhole == pc = "ok" => \A e \in Entry : install[e] = handoff

\* The DLL goes first, so that a game that got hold of it again stops the update before
\* anything is overwritten: no other file is replaced while the old DLL is in place.
DllGoesFirst ==
  pc \in {"wait", "backup", "copy"} =>
    install[Dll] = handoff \/ \A e \in Entry \ {Dll} : install[e] = before[e]
=============================================================================
