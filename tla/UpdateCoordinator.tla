------------------------- MODULE UpdateCoordinator -------------------------
(***************************************************************************)
(* Updater/UpdateCoordinator: inside the game the mod looks once for a     *)
(* newer release, offers it, and on request downloads a release, verifies  *)
(* it, unpacks it into a stage folder and hands it to BBCFIMUpdater.exe    *)
(* while the game exits.  Four kinds of thread meet here, under m_lock:    *)
(* the render thread, whose buttons act on the snapshot their frame copied;*)
(* the check thread; and the threads that apply the offered update or      *)
(* install a release picked from the All Releases window.                  *)
(*                                                                         *)
(* A release is its place in version order; its manifest, its package and  *)
(* the files in the package are abstracted to the release they belong to.  *)
(* m_hasUpdate and the snapshot's tag are set together, so the tag stands  *)
(* for both.  Wine, where every entry point is switched off, is left out.  *)
(***************************************************************************)
EXTENDS Integers

CONSTANTS
  Release,    \* the published releases
  Thread,     \* handles the apply and install threads can take
  Entry       \* the files every package holds

ASSUME ReleaseAssumption == Release \subseteq Nat \ {0}

NoRelease == 0
\* Bytes that are not the package their manifest describes.
Corrupt == 0 - 1

UiState == {"Idle", "Checking", "Available", "Skipped", "Downloading", "Verifying",
            "Staging", "LaunchingUpdater", "Error"}
Step == {"ended", "pending", "manifest", "copy", "download", "hash", "extract", "launch"}

VARIABLES
  running,                  \* the version of the DLL the game has loaded; NoRelease, no game
  m_update,                 \* the release an apply thread would install
  m_snapshot,               \* what the windows show: a state and a tag
  m_pendingInstallRelease,
  m_applyStarted,
  check,                    \* the check thread; m_checkStarted is its pc # "unstarted"
  worker,                   \* the apply and install threads
  skippedTag,               \* SkippedReleaseTag of state.ini
  stage,                    \* the stage folder
  launched,                 \* the release BBCFIMUpdater.exe has been started for
  frame,                    \* what the windows of the current frame drew: the snapshot, the popup
  notifier                  \* the update popup is open

memory == <<m_update, m_snapshot, m_pendingInstallRelease, m_applyStarted>>
ui     == <<frame, notifier>>
disk   == <<skippedTag, stage>>
vars   == <<running, memory, check, worker, disk, launched, ui>>

Busy == {"Downloading", "Verifying", "Staging", "LaunchingUpdater"}
MaybeRelease == Release \cup {NoRelease}

\* asked: the release the window named when the user's click started the thread.
Ended == [pc |-> "ended", asked |-> NoRelease, release |-> NoRelease,
          package |-> NoRelease, todo |-> {}]
Started(pc, tag) == [Ended EXCEPT !.pc = pc, !.asked = tag]
Unstarted == [pc |-> "unstarted", found |-> NoRelease, skipped |-> NoRelease]
\* A frame whose buttons are used up.
NoFrame == [busy |-> TRUE, tag |-> NoRelease, popup |-> FALSE]

Playing == running # NoRelease

-----------------------------------------------------------------------------
(* The session: everything but state.ini and the stage folder dies with the *)
(* game.                                                                    *)

MemoryReset ==
  /\ m_update' = NoRelease /\ m_pendingInstallRelease' = NoRelease
  /\ m_snapshot' = [state |-> "Idle", tag |-> NoRelease] /\ m_applyStarted' = FALSE
  /\ check' = Unstarted /\ worker' = [t \in Thread |-> Ended]
  /\ frame' = NoFrame /\ notifier' = FALSE

Init ==
  /\ running = NoRelease /\ launched = NoRelease
  /\ m_update = NoRelease /\ m_pendingInstallRelease = NoRelease
  /\ m_snapshot = [state |-> "Idle", tag |-> NoRelease] /\ m_applyStarted = FALSE
  /\ check = Unstarted /\ worker = [t \in Thread |-> Ended]
  /\ skippedTag = NoRelease /\ stage = [e \in Entry |-> NoRelease]
  /\ frame = NoFrame /\ notifier = FALSE

\* The updater has been started with the handoff by the time a new session can be.
StartGame(version) ==
  /\ ~Playing /\ launched = NoRelease
  /\ running' = version
  /\ UNCHANGED <<memory, check, worker, disk, launched, ui>>

\* The user closes the game, or it crashes: the threads stop wherever they are.
CloseGame == Playing /\ running' = NoRelease /\ MemoryReset /\ UNCHANGED <<disk, launched>>

TakeHandoff ==
  /\ launched # NoRelease /\ launched' = NoRelease
  /\ UNCHANGED <<running, memory, check, worker, disk, ui>>

-----------------------------------------------------------------------------
(* The check thread                                                         *)

StartAsyncCheck ==
  /\ Playing /\ check.pc = "unstarted"
  /\ check' = [check EXCEPT !.pc = "fetch"]
  /\ m_snapshot' = [m_snapshot EXCEPT !.state = "Checking"]
  /\ UNCHANGED <<running, m_update, m_pendingInstallRelease, m_applyStarted, worker, disk,
                 launched, ui>>

\* NoRelease: nothing newer, or GitHub could not be asked.
CheckAnswer == {NoRelease} \cup {r \in Release : r > running /\ \A s \in Release : s <= r}

CheckLoadState(found) ==
  /\ check.pc = "fetch"
  /\ check' = [pc |-> "save", found |-> found, skipped |-> skippedTag]
  /\ UNCHANGED <<running, memory, worker, disk, launched, ui>>

\* Save writes back every field that Load read.
CheckSaveState ==
  /\ check.pc = "save"
  /\ skippedTag' = check.skipped
  /\ check' = [check EXCEPT !.pc = IF check.found = NoRelease THEN "done" ELSE "publish"]
  /\ UNCHANGED <<running, memory, worker, stage, launched, ui>>

SetAvailable(update, skipped) ==
  /\ m_update' = update
  /\ m_snapshot' = [state |-> IF skipped THEN "Skipped" ELSE "Available", tag |-> update]
  /\ UNCHANGED <<m_pendingInstallRelease, m_applyStarted>>

CheckPublish ==
  /\ check.pc = "publish"
  /\ SetAvailable(check.found, check.skipped = check.found)
  /\ check' = [check EXCEPT !.pc = IF check.skipped = check.found THEN "done" ELSE "popup"]
  /\ UNCHANGED <<running, worker, disk, launched, ui>>

CheckOpenPopup ==
  /\ check.pc = "popup" /\ check' = [check EXCEPT !.pc = "done"]
  /\ notifier' = TRUE
  /\ UNCHANGED <<running, memory, worker, disk, launched, frame>>

-----------------------------------------------------------------------------
(* The windows.  A frame copies the snapshot, then tests its buttons; the    *)
(* other threads run on in between.                                          *)

DrawFrame ==
  /\ Playing
  /\ frame' = [busy |-> m_snapshot.state \in Busy, tag |-> m_snapshot.tag,
               popup |-> notifier]
  /\ UNCHANGED <<running, memory, check, worker, disk, launched, notifier>>

\* The bug a missing re-check under the lock would be.
StartUpdateUnguarded(t) ==
  /\ m_applyStarted' = TRUE
  /\ m_snapshot' = [m_snapshot EXCEPT !.state = "Downloading"]
  /\ worker' = [worker EXCEPT ![t] = Started("copy", frame.tag)]
  /\ UNCHANGED <<m_update, m_pendingInstallRelease>>

StartUpdate(t) ==
  IF m_snapshot.tag = NoRelease \/ m_applyStarted
  THEN UNCHANGED <<memory, worker>>
  ELSE /\ m_applyStarted' = TRUE
       /\ m_snapshot' = [m_snapshot EXCEPT !.state = "Downloading"]
       /\ worker' = [worker EXCEPT ![t] = Started("copy", frame.tag)]
       /\ UNCHANGED <<m_update, m_pendingInstallRelease>>

\* m_hasUpdate and the shown tag change at once, m_update only with the manifest.
StartInstallRelease(t, release) ==
  IF m_applyStarted
  THEN UNCHANGED <<memory, worker>>
  ELSE /\ m_applyStarted' = TRUE
       /\ m_pendingInstallRelease' = release
       /\ m_snapshot' = [state |-> "Downloading", tag |-> release]
       /\ worker' = [worker EXCEPT ![t] = Started("pending", release)]
       /\ UNCHANGED m_update

\* CreateThread yields a thread that is not one of those running.
FreeThread(t) ==
  worker[t].pc = "ended" /\ t = CHOOSE u \in Thread : worker[u].pc = "ended"

ClickUpdate(t) ==
  /\ frame.popup /\ ~frame.busy /\ FreeThread(t)
  /\ frame' = NoFrame
  /\ StartUpdate(t)
  /\ UNCHANGED <<running, check, disk, launched, notifier>>

ClickInstall(t, release) ==
  /\ ~frame.busy /\ FreeThread(t)
  /\ frame' = NoFrame
  /\ StartInstallRelease(t, release)
  /\ UNCHANGED <<running, check, disk, launched, notifier>>

ClickLater ==
  /\ frame.popup /\ ~frame.busy
  /\ notifier' = FALSE /\ frame' = NoFrame
  /\ UNCHANGED <<running, memory, check, worker, disk, launched>>

SkipCurrentVersion ==
  IF m_snapshot.tag = NoRelease
  THEN UNCHANGED <<memory, skippedTag>>
  ELSE /\ skippedTag' = m_update
       /\ m_snapshot' = [m_snapshot EXCEPT !.state = "Skipped"]
       /\ UNCHANGED <<m_update, m_pendingInstallRelease, m_applyStarted>>

ClickSkip ==
  /\ frame.popup /\ ~frame.busy
  /\ SkipCurrentVersion
  /\ notifier' = FALSE /\ frame' = NoFrame
  /\ UNCHANGED <<running, check, worker, stage, launched>>

\* The "Update to ..." line of the main window is there whatever the state.
ClickLink ==
  /\ frame.tag # NoRelease
  /\ m_snapshot' = [m_snapshot EXCEPT !.state = "Available"]
  /\ notifier' = TRUE /\ frame' = NoFrame
  /\ UNCHANGED <<running, m_update, m_pendingInstallRelease, m_applyStarted, check, worker,
                 disk, launched>>

-----------------------------------------------------------------------------
(* The apply and install threads                                            *)

Goto(t, pc) == worker' = [worker EXCEPT ![t].pc = pc]
Show(state) == m_snapshot' = [m_snapshot EXCEPT !.state = state]

\* Two slips of SetErrorLocked: one forgets the flag, the other the state.
FailKeepingFlag(t) == Show("Error") /\ UNCHANGED m_applyStarted
FailKeepingState(t) == m_applyStarted' = FALSE /\ UNCHANGED m_snapshot

SetError(t) == Show("Error") /\ m_applyStarted' = FALSE

\* No manifest, a manifest or package that cannot be fetched or read, a bad zip, a file
\* that cannot be written, an updater that cannot be started.
WorkerFails(t) ==
  /\ worker[t].pc \in Step \ {"ended", "pending", "copy"}
  /\ SetError(t)
  /\ worker' = [worker EXCEPT ![t] = Ended]
  /\ UNCHANGED <<running, m_update, m_pendingInstallRelease, check, disk, launched, ui>>

PickRelease(t) ==
  /\ worker[t].pc = "pending"
  /\ worker' = [worker EXCEPT ![t].pc = "manifest", ![t].release = m_pendingInstallRelease]
  /\ UNCHANGED <<running, memory, check, disk, launched, ui>>

FetchManifest(t) ==
  /\ worker[t].pc = "manifest"
  /\ m_update' = worker[t].release
  /\ Show("Downloading")
  /\ Goto(t, "copy")
  /\ UNCHANGED <<running, m_pendingInstallRelease, m_applyStarted, check, disk, launched, ui>>

CopyUpdate(t) ==
  /\ worker[t].pc = "copy"
  /\ worker' = [worker EXCEPT ![t].pc = "download", ![t].release = m_update]
  /\ UNCHANGED <<running, memory, check, disk, launched, ui>>

\* An empty m_update has no https URL.  The bytes that come may be the wrong ones.
Download(t, bytes) ==
  /\ worker[t].pc = "download" /\ worker[t].release # NoRelease
  /\ bytes \in {worker[t].release, Corrupt}
  /\ worker' = [worker EXCEPT ![t].pc = "hash", ![t].package = bytes]
  /\ Show("Verifying")
  /\ UNCHANGED <<running, m_update, m_pendingInstallRelease, m_applyStarted, check, disk,
                 launched, ui>>

HashSkipped(t) == TRUE
HashMatches(t) == worker[t].package = worker[t].release

Verify(t) ==
  /\ worker[t].pc = "hash" /\ HashMatches(t)
  /\ worker' = [worker EXCEPT ![t].pc = "extract", ![t].todo = Entry]
  /\ Show("Staging")
  /\ UNCHANGED <<running, m_update, m_pendingInstallRelease, m_applyStarted, check, disk,
                 launched, ui>>

\* Each file replaces what an earlier package, or an earlier attempt, left there.
CreateEntry(t, e) ==
  /\ worker[t].pc = "extract" /\ e \in worker[t].todo
  /\ stage' = [stage EXCEPT ![e] = Corrupt]
  /\ UNCHANGED <<running, memory, check, worker, skippedTag, launched, ui>>

WriteEntry(t, e) ==
  /\ worker[t].pc = "extract" /\ e \in worker[t].todo /\ stage[e] = Corrupt
  /\ stage' = [stage EXCEPT ![e] = worker[t].package]
  /\ worker' = [worker EXCEPT ![t].todo = @ \ {e}]
  /\ UNCHANGED <<running, memory, check, skippedTag, launched, ui>>

\* Handing over after the first file that could not be unpacked.
HandoffUnchecked(t) ==
  /\ worker[t].pc = "extract" /\ worker[t].todo # Entry
  /\ Goto(t, "launch")
  /\ Show("LaunchingUpdater")
  /\ UNCHANGED <<running, m_update, m_pendingInstallRelease, m_applyStarted, check, disk,
                 launched, ui>>

WriteUpdaterHandoff(t) ==
  /\ worker[t].pc = "extract" /\ worker[t].todo = {}
  /\ Goto(t, "launch")
  /\ Show("LaunchingUpdater")
  /\ UNCHANGED <<running, m_update, m_pendingInstallRelease, m_applyStarted, check, disk,
                 launched, ui>>

LaunchUpdaterAndExitGame(t) ==
  /\ worker[t].pc = "launch"
  /\ launched' = worker[t].release
  /\ running' = NoRelease /\ MemoryReset
  /\ UNCHANGED disk

CheckStep ==
  \/ \E found \in CheckAnswer : CheckLoadState(found)
  \/ CheckSaveState \/ CheckPublish \/ CheckOpenPopup

WorkerStep(t) ==
  \/ WorkerFails(t) \/ PickRelease(t) \/ FetchManifest(t) \/ CopyUpdate(t)
  \/ \E bytes \in Release \cup {Corrupt} : Download(t, bytes)
  \/ Verify(t) \/ \E e \in Entry : CreateEntry(t, e) \/ WriteEntry(t, e)
  \/ WriteUpdaterHandoff(t) \/ LaunchUpdaterAndExitGame(t)

UserStep ==
  \/ DrawFrame \/ ClickLater \/ ClickSkip \/ ClickLink
  \/ \E t \in Thread : ClickUpdate(t) \/ \E r \in Release : ClickInstall(t, r)

SessionStep == StartAsyncCheck \/ CheckStep \/ UserStep \/ \E t \in Thread : WorkerStep(t)

Next ==
  \/ SessionStep \/ CloseGame \/ TakeHandoff
  \/ \E version \in Release : StartGame(version)

Spec == Init /\ [][Next]_vars
\* The operating system runs the threads, and the network calls time out.
FairSpec == Spec /\ \A t \in Thread : WF_vars(WorkerStep(t))

-----------------------------------------------------------------------------
(* Properties                                                               *)

WorkerRecord ==
  {w \in [pc : Step, asked : MaybeRelease, release : MaybeRelease,
          package : MaybeRelease \cup {Corrupt}, todo : SUBSET Entry] :
     w.pc # "extract" => w.todo = {}}

\* Types, and that a thread holds a release once it has read one and files to unpack only
\* while it unpacks: handing over (WriteUpdaterHandoff) never leaves some of them behind.
TypeOK ==
  /\ {running, m_update, m_pendingInstallRelease, skippedTag, launched} \subseteq MaybeRelease
  /\ m_snapshot \in [state : UiState, tag : MaybeRelease]
  /\ m_applyStarted \in BOOLEAN /\ notifier \in BOOLEAN
  /\ check \in [pc : {"unstarted", "fetch", "save", "publish", "popup", "done"},
                 found : MaybeRelease, skipped : MaybeRelease]
  /\ worker \in [Thread -> WorkerRecord]
  /\ stage \in [Entry -> MaybeRelease \cup {Corrupt}]
  /\ frame \in [busy : BOOLEAN, tag : MaybeRelease, popup : BOOLEAN]

Applying == {t \in Thread : worker[t].pc # "ended"}

\* m_applyStarted is raised exactly while one apply or install thread runs, and there are
\* never two of them to share the stage folder: the flag is tested and set under the lock
\* by StartUpdate and StartInstallRelease, and every way a thread can end lowers it.
SingleApply ==
  /\ m_applyStarted <=> Applying # {}
  /\ \A t, u \in Applying : t = u

\* The windows' buttons are dead while the snapshot says a release is being applied, so it
\* may only say so while some thread is there to end it.
BusyMeansApplying == m_snapshot.state \in Busy => m_applyStarted

\* BBCFIMUpdater.exe is started for a release only when every file of the stage folder is
\* that release's: not of an attempt that failed or was cut short half way, not of another
\* release tried before, not of a download whose bytes were wrong, and not of the release
\* the check thread has meanwhile put in m_update.
LaunchesWholePackage == launched # NoRelease => \A e \in Entry : stage[e] = launched

\* Whatever fails, the apply ends: it exits the game or the windows offer to retry.
ApplyEnds == m_applyStarted ~> ~m_applyStarted

\* What is left of all this for the installer and for the user: UpdateHandover.  The files
\* the updater finds are those of the release that was being applied, all of them, and
\* nothing is handed over but by a game that was applying and is gone.
Phase == IF ~Playing THEN "off" ELSE IF m_applyStarted THEN "applying" ELSE "playing"
Handed == IF launched = NoRelease THEN {} ELSE {stage[e] : e \in Entry}

Handover == INSTANCE UpdateHandover WITH phase <- Phase, handed <- Handed

ImplementsHandover == Handover!Spec

\* What the settings window promises of the updater, "It never installs anything without
\* asking": the release the thread started by a click hands to the installer is the one
\* the window named when the user clicked Update or Install.
NeverInstallsUnasked ==
  \A t \in Thread : worker[t].pc = "launch" => worker[t].release = worker[t].asked
=============================================================================
