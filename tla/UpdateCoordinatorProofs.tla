---------------------- MODULE UpdateCoordinatorProofs ----------------------
(***************************************************************************)
(* Proofs about UpdateCoordinator, for any published releases, any number  *)
(* of threads and any files in a package.                                  *)
(***************************************************************************)
EXTENDS UpdateCoordinator, TLAPS

-----------------------------------------------------------------------------
(* The inductive invariant                                                  *)

\* What a thread has established by the time it unpacks, and by the time it hands over.
Unpacked(t) ==
  /\ worker[t].pc = "extract" =>
       /\ worker[t].package = worker[t].release
       /\ \A e \in Entry \ worker[t].todo : stage[e] = worker[t].release
  /\ worker[t].pc = "launch" => \A e \in Entry : stage[e] = worker[t].release

\* Without a game no thread runs; with one, no updater has been started yet.
ThreadsDieWithGame ==
  /\ ~Playing => worker = [t \in Thread |-> Ended] /\ check = Unstarted /\ frame = NoFrame
  /\ launched # NoRelease => ~Playing

Inv ==
  /\ TypeOK /\ SingleApply /\ BusyMeansApplying /\ LaunchesWholePackage
  /\ ThreadsDieWithGame
  /\ \A t \in Thread : Unpacked(t)

\* A thread that has not started, or is just starting, is one of the records.
LEMMA StartedType ==
  ASSUME NEW pc \in Step \ {"extract"}, NEW tag \in MaybeRelease
  PROVE  Started(pc, tag) \in WorkerRecord
BY DEF Started, Ended, WorkerRecord, MaybeRelease, Step

LEMMA EndedType == Ended \in WorkerRecord
BY DEF Ended, WorkerRecord, MaybeRelease, Step

LEMMA InitInv == Init => Inv
<1> SUFFICES ASSUME Init PROVE Inv OBVIOUS
<1>1. TypeOK
  BY EndedType DEF Init, TypeOK, MaybeRelease, UiState, Step, Unstarted, NoFrame
<1>2. SingleApply /\ BusyMeansApplying /\ LaunchesWholePackage
  BY DEF Init, SingleApply, Applying, BusyMeansApplying, Busy, LaunchesWholePackage, Ended
<1>3. ThreadsDieWithGame /\ \A t \in Thread : Unpacked(t)
  BY DEF Init, ThreadsDieWithGame, Playing, Unpacked, Ended
<1> QED BY <1>1, <1>2, <1>3 DEF Inv

-----------------------------------------------------------------------------
(* Types                                                                    *)

\* Closing the game leaves the variables of a game that has not started.
LEMMA ResetType ==
  ASSUME TypeOK, MemoryReset, running' = NoRelease, UNCHANGED skippedTag, UNCHANGED stage,
         launched' \in MaybeRelease
  PROVE  TypeOK'
BY EndedType DEF TypeOK, MemoryReset, MaybeRelease, UiState, Step, Unstarted, NoFrame

\* The steps of the check thread and of the windows preserve the types.
LEMMA SessionTypeStep ==
  ASSUME TypeOK, StartAsyncCheck \/ CheckStep \/ UserStep
  PROVE  TypeOK'
<1> USE DEF TypeOK, MaybeRelease, UiState, Step
<1>1. CASE StartAsyncCheck BY <1>1 DEF StartAsyncCheck, disk, ui
<1>2. CASE CheckStep
  <2>1. ASSUME NEW found \in CheckAnswer, CheckLoadState(found) PROVE TypeOK'
    BY <2>1 DEF CheckLoadState, CheckAnswer, memory, disk, ui
  <2>2. CASE CheckSaveState BY <2>2 DEF CheckSaveState, memory, ui
  <2>3. CASE CheckPublish BY <2>3 DEF CheckPublish, SetAvailable, disk, ui
  <2>4. CASE CheckOpenPopup BY <2>4 DEF CheckOpenPopup, memory, disk
  <2> QED BY <1>2, <2>1, <2>2, <2>3, <2>4 DEF CheckStep
<1>3. CASE UserStep
  <2>1. CASE DrawFrame BY <2>1 DEF DrawFrame, memory, disk
  <2>2. CASE ClickLater BY <2>2 DEF ClickLater, NoFrame, memory, disk
  <2>3. CASE ClickSkip
    BY <2>3 DEF ClickSkip, SkipCurrentVersion, NoFrame, memory
  <2>4. CASE ClickLink BY <2>4 DEF ClickLink, NoFrame, disk
  <2>5. ASSUME NEW t \in Thread, ClickUpdate(t) PROVE TypeOK'
    <3>1. Started("copy", frame.tag) \in WorkerRecord BY StartedType
    <3> QED BY <2>5, <3>1 DEF ClickUpdate, StartUpdate, NoFrame, memory, disk
  <2>6. ASSUME NEW t \in Thread, NEW r \in Release, ClickInstall(t, r) PROVE TypeOK'
    <3>1. Started("pending", r) \in WorkerRecord BY StartedType
    <3>2. CASE m_applyStarted
      BY <2>6, <3>2 DEF ClickInstall, StartInstallRelease, NoFrame, memory, disk
    <3>3. CASE ~m_applyStarted
      BY <2>6, <3>1, <3>3 DEF ClickInstall, StartInstallRelease, NoFrame, disk
    <3> QED BY <3>2, <3>3
  <2> QED BY <1>3, <2>1, <2>2, <2>3, <2>4, <2>5, <2>6 DEF UserStep
<1> QED BY <1>1, <1>2, <1>3

\* The steps of an apply or install thread preserve the types.
LEMMA WorkerTypeStep ==
  ASSUME TypeOK, NEW t \in Thread, WorkerStep(t)
  PROVE  TypeOK'
<1> USE DEF TypeOK, MaybeRelease, UiState, Step
<1>1. CASE WorkerFails(t)
  BY <1>1, EndedType DEF WorkerFails, SetError, Show, disk, ui
<1>2. CASE PickRelease(t)
  <2>1. [worker[t] EXCEPT !.pc = "manifest", !.release = m_pendingInstallRelease] \in WorkerRecord
    BY <1>2 DEF PickRelease, WorkerRecord
  <2> QED BY <1>2, <2>1 DEF PickRelease, memory, disk, ui
<1>3. CASE FetchManifest(t)
  <2>1. [worker[t] EXCEPT !.pc = "copy"] \in WorkerRecord
    BY <1>3 DEF FetchManifest, WorkerRecord
  <2> QED BY <1>3, <2>1 DEF FetchManifest, Show, Goto, WorkerRecord, disk, ui
<1>4. CASE CopyUpdate(t)
  <2>1. [worker[t] EXCEPT !.pc = "download", !.release = m_update] \in WorkerRecord
    BY <1>4 DEF CopyUpdate, WorkerRecord
  <2> QED BY <1>4, <2>1 DEF CopyUpdate, memory, disk, ui
<1>5. ASSUME NEW bytes \in Release \cup {Corrupt}, Download(t, bytes) PROVE TypeOK'
  <2>1. [worker[t] EXCEPT !.pc = "hash", !.package = bytes] \in WorkerRecord
    BY <1>5 DEF Download, WorkerRecord
  <2> QED BY <1>5, <2>1 DEF Download, Show, disk, ui
<1>6. CASE Verify(t)
  <2>1. [worker[t] EXCEPT !.pc = "extract", !.todo = Entry] \in WorkerRecord
    BY <1>6 DEF Verify, WorkerRecord
  <2> QED BY <1>6, <2>1 DEF Verify, Show, disk, ui
<1>7. ASSUME NEW e \in Entry, CreateEntry(t, e) PROVE TypeOK'
  BY <1>7 DEF CreateEntry, memory, ui
<1>8. ASSUME NEW e \in Entry, WriteEntry(t, e) PROVE TypeOK'
  <2>1. [worker[t] EXCEPT !.todo = @ \ {e}] \in WorkerRecord
    BY <1>8 DEF WriteEntry, WorkerRecord
  <2>2. worker[t].package \in MaybeRelease \cup {Corrupt} BY DEF WorkerRecord
  <2> QED BY <1>8, <2>1, <2>2 DEF WriteEntry, memory, ui
<1>9. CASE WriteUpdaterHandoff(t)
  <2>1. [worker[t] EXCEPT !.pc = "launch"] \in WorkerRecord
    BY <1>9 DEF WriteUpdaterHandoff, WorkerRecord
  <2> QED BY <1>9, <2>1 DEF WriteUpdaterHandoff, Show, Goto, disk, ui
<1>10. CASE LaunchUpdaterAndExitGame(t)
  <2>1. launched' \in MaybeRelease
    BY <1>10 DEF LaunchUpdaterAndExitGame, WorkerRecord
  <2> QED BY <1>10, <2>1, ResetType DEF LaunchUpdaterAndExitGame, disk
<1> QED BY <1>1, <1>2, <1>3, <1>4, <1>5, <1>6, <1>7, <1>8, <1>9, <1>10 DEF WorkerStep

LEMMA TypeStep == TypeOK /\ [Next]_vars => TypeOK'
<1> SUFFICES ASSUME TypeOK, [Next]_vars PROVE TypeOK' OBVIOUS
<1>1. CASE SessionStep BY <1>1, SessionTypeStep, WorkerTypeStep DEF SessionStep
<1>2. CASE CloseGame BY <1>2, ResetType DEF CloseGame, disk, TypeOK
<1>3. CASE TakeHandoff
  BY <1>3 DEF TakeHandoff, TypeOK, MaybeRelease, memory, disk, ui
<1>4. ASSUME NEW version \in Release, StartGame(version) PROVE TypeOK'
  BY <1>4 DEF StartGame, TypeOK, MaybeRelease, memory, disk, ui
<1>5. CASE UNCHANGED vars BY <1>5 DEF vars, memory, disk, ui, TypeOK
<1> QED BY <1>1, <1>2, <1>3, <1>4, <1>5 DEF Next

-----------------------------------------------------------------------------
(* One apply at a time                                                      *)

OneApply == SingleApply /\ BusyMeansApplying

\* A step that neither starts nor ends a thread, and shows a busy state only during an apply.
LEMMA OneApplyKept ==
  ASSUME OneApply, UNCHANGED m_applyStarted,
         \A t \in Thread : worker'[t].pc = "ended" <=> worker[t].pc = "ended",
         m_snapshot'.state \in Busy => m_snapshot'.state = m_snapshot.state \/ Applying # {}
  PROVE  OneApply'
BY DEF OneApply, SingleApply, BusyMeansApplying, Applying

\* The game is gone, and all of its threads.
LEMMA OneApplyReset == MemoryReset => OneApply'
BY DEF MemoryReset, OneApply, SingleApply, BusyMeansApplying, Applying, Busy, Ended

\* StartUpdate and StartInstallRelease start a thread only when none runs.
LEMMA OneApplyStarts ==
  ASSUME OneApply, TypeOK, NEW t \in Thread, NEW pc \in {"copy", "pending"}, NEW tag,
         ~m_applyStarted, m_applyStarted', worker' = [worker EXCEPT ![t] = Started(pc, tag)]
  PROVE  OneApply'
<1>1. \A u \in Thread : worker[u].pc = "ended" BY DEF OneApply, SingleApply, Applying
<1>2. worker'[t].pc # "ended" BY DEF Started, Ended, TypeOK
<1>3. \A u \in Thread : u # t => worker'[u].pc = "ended" BY <1>1 DEF TypeOK
<1> QED BY <1>2, <1>3 DEF OneApply, SingleApply, BusyMeansApplying, Applying

LEMMA OneApplyWorker ==
  ASSUME OneApply, TypeOK, NEW t \in Thread, WorkerStep(t)
  PROVE  OneApply'
<1> USE DEF TypeOK
<1>1. CASE WorkerFails(t)
  <2>1. t \in Applying BY <1>1 DEF WorkerFails, Applying
  <2>2. \A u \in Thread : worker'[u].pc = "ended"
    BY <1>1, <2>1 DEF WorkerFails, Ended, OneApply, SingleApply, Applying
  <2> QED BY <1>1, <2>2
          DEF WorkerFails, SetError, Show, OneApply, SingleApply, BusyMeansApplying, Applying, Busy
<1>2. CASE PickRelease(t) BY <1>2, OneApplyKept DEF PickRelease, memory
<1>3. CASE FetchManifest(t)
  <2>1. Applying # {} BY <1>3 DEF FetchManifest, Applying
  <2> QED BY <1>3, <2>1, OneApplyKept DEF FetchManifest, Goto
<1>4. CASE CopyUpdate(t) BY <1>4, OneApplyKept DEF CopyUpdate, memory
<1>5. ASSUME NEW bytes \in Release \cup {Corrupt}, Download(t, bytes) PROVE OneApply'
  <2>1. Applying # {} BY <1>5 DEF Download, Applying
  <2> QED BY <1>5, <2>1, OneApplyKept DEF Download
<1>6. CASE Verify(t)
  <2>1. Applying # {} BY <1>6 DEF Verify, Applying
  <2> QED BY <1>6, <2>1, OneApplyKept DEF Verify
<1>7. ASSUME NEW e \in Entry, CreateEntry(t, e) PROVE OneApply'
  BY <1>7, OneApplyKept DEF CreateEntry, memory
<1>8. ASSUME NEW e \in Entry, WriteEntry(t, e) PROVE OneApply'
  BY <1>8, OneApplyKept DEF WriteEntry, memory
<1>9. CASE WriteUpdaterHandoff(t)
  <2>1. Applying # {} BY <1>9 DEF WriteUpdaterHandoff, Applying
  <2> QED BY <1>9, <2>1, OneApplyKept DEF WriteUpdaterHandoff, Goto
<1>10. CASE LaunchUpdaterAndExitGame(t)
  BY <1>10, OneApplyReset DEF LaunchUpdaterAndExitGame
<1> QED BY <1>1, <1>2, <1>3, <1>4, <1>5, <1>6, <1>7, <1>8, <1>9, <1>10 DEF WorkerStep

LEMMA OneApplySession ==
  ASSUME OneApply, TypeOK, StartAsyncCheck \/ CheckStep \/ UserStep
  PROVE  OneApply'
<1>1. CASE StartAsyncCheck BY <1>1, OneApplyKept DEF StartAsyncCheck, Busy, TypeOK
<1>2. CASE CheckStep
  BY <1>2, OneApplyKept
  DEF CheckStep, CheckLoadState, CheckSaveState, CheckPublish, SetAvailable, CheckOpenPopup,
      Busy, memory, TypeOK
<1>3. CASE UserStep
  <2>1. CASE DrawFrame \/ ClickLater
    BY <2>1, OneApplyKept DEF DrawFrame, ClickLater, memory
  <2>2. CASE ClickSkip
    BY <2>2, OneApplyKept DEF ClickSkip, SkipCurrentVersion, Busy, memory, TypeOK
  <2>3. CASE ClickLink BY <2>3, OneApplyKept DEF ClickLink, Busy, TypeOK
  <2>4. ASSUME NEW t \in Thread, ClickUpdate(t) PROVE OneApply'
    <3>1. CASE m_snapshot.tag = NoRelease \/ m_applyStarted
      BY <2>4, <3>1, OneApplyKept DEF ClickUpdate, StartUpdate, memory
    <3>2. CASE ~(m_snapshot.tag = NoRelease \/ m_applyStarted)
      BY <2>4, <3>2, OneApplyStarts DEF ClickUpdate, StartUpdate
    <3> QED BY <3>1, <3>2
  <2>5. ASSUME NEW t \in Thread, NEW r \in Release, ClickInstall(t, r) PROVE OneApply'
    <3>1. CASE m_applyStarted
      BY <2>5, <3>1, OneApplyKept DEF ClickInstall, StartInstallRelease, memory
    <3>2. CASE ~m_applyStarted
      BY <2>5, <3>2, OneApplyStarts DEF ClickInstall, StartInstallRelease
    <3> QED BY <3>1, <3>2
  <2> QED BY <1>3, <2>1, <2>2, <2>3, <2>4, <2>5 DEF UserStep
<1> QED BY <1>1, <1>2, <1>3

LEMMA OneApplyStep == OneApply /\ TypeOK /\ [Next]_vars => OneApply'
<1> SUFFICES ASSUME OneApply, TypeOK, [Next]_vars PROVE OneApply' OBVIOUS
<1>1. CASE SessionStep BY <1>1, OneApplySession, OneApplyWorker DEF SessionStep
<1>2. CASE CloseGame BY <1>2, OneApplyReset DEF CloseGame
<1>3. CASE TakeHandoff BY <1>3, OneApplyKept DEF TakeHandoff, memory
<1>4. ASSUME NEW version \in Release, StartGame(version) PROVE OneApply'
  BY <1>4, OneApplyKept DEF StartGame, memory
<1>5. CASE UNCHANGED vars BY <1>5, OneApplyKept DEF vars, memory
<1> QED BY <1>1, <1>2, <1>3, <1>4, <1>5 DEF Next

-----------------------------------------------------------------------------
(* What the stage folder holds                                              *)

Staged == LaunchesWholePackage /\ ThreadsDieWithGame /\ \A t \in Thread : Unpacked(t)

\* A thread that runs at all runs in a game, before any updater has been started.
LEMMA AppliesWhilePlaying ==
  ASSUME Staged, NEW t \in Thread, worker[t].pc # "ended"
  PROVE  Playing /\ launched = NoRelease
BY DEF Staged, ThreadsDieWithGame, Ended

\* A step of the session that leaves the stage folder and the unpacking threads alone.
LEMMA StagedKept ==
  ASSUME Staged, Playing, UNCHANGED running, UNCHANGED stage, UNCHANGED launched,
         \A t \in Thread : \/ worker'[t] = worker[t]
                           \/ worker'[t].pc \notin {"extract", "launch"}
  PROVE  Staged'
BY DEF Staged, LaunchesWholePackage, ThreadsDieWithGame, Unpacked, Playing

LEMMA StagedReset ==
  ASSUME MemoryReset, running' = NoRelease,
         launched' # NoRelease => \A e \in Entry : stage'[e] = launched'
  PROVE  Staged'
BY DEF MemoryReset, Staged, LaunchesWholePackage, ThreadsDieWithGame, Unpacked, Playing, Ended

\* A step of the thread that is the only one to unpack.
LEMMA StagedAlone ==
  ASSUME Staged, SingleApply, TypeOK, NEW t \in Thread, worker[t].pc # "ended",
         UNCHANGED running, UNCHANGED launched,
         \A u \in Thread : u # t => worker'[u] = worker[u],
         Unpacked(t)'
  PROVE  Staged'
<1>1. Playing /\ launched = NoRelease BY AppliesWhilePlaying
<1>2. \A u \in Thread : u # t => Unpacked(u)'
  BY DEF SingleApply, Applying, Unpacked
<1> QED BY <1>1, <1>2 DEF Staged, LaunchesWholePackage, ThreadsDieWithGame, Playing

LEMMA StagedWorker ==
  ASSUME Staged, SingleApply, TypeOK, NEW t \in Thread, WorkerStep(t)
  PROVE  Staged'
<1> USE DEF TypeOK
<1>1. CASE WorkerFails(t)
  BY <1>1, StagedKept, AppliesWhilePlaying DEF WorkerFails, Ended, disk
<1>2. CASE PickRelease(t)
  BY <1>2, StagedKept, AppliesWhilePlaying DEF PickRelease, disk, WorkerRecord
<1>3. CASE FetchManifest(t)
  BY <1>3, StagedKept, AppliesWhilePlaying DEF FetchManifest, Goto, disk, WorkerRecord
<1>4. CASE CopyUpdate(t)
  BY <1>4, StagedKept, AppliesWhilePlaying DEF CopyUpdate, disk, WorkerRecord
<1>5. ASSUME NEW bytes \in Release \cup {Corrupt}, Download(t, bytes) PROVE Staged'
  BY <1>5, StagedKept, AppliesWhilePlaying DEF Download, disk, WorkerRecord
<1>6. CASE Verify(t)
  <2>1. Unpacked(t)' BY <1>6 DEF Verify, HashMatches, Unpacked, WorkerRecord
  <2> QED BY <1>6, <2>1, StagedAlone DEF Verify
<1>7. ASSUME NEW e \in Entry, CreateEntry(t, e) PROVE Staged'
  <2>1. Unpacked(t)' BY <1>7 DEF CreateEntry, Staged, Unpacked, WorkerRecord
  <2> QED BY <1>7, <2>1, StagedAlone DEF CreateEntry
<1>8. ASSUME NEW e \in Entry, WriteEntry(t, e) PROVE Staged'
  <2>1. Unpacked(t)' BY <1>8 DEF WriteEntry, Staged, Unpacked, WorkerRecord
  <2> QED BY <1>8, <2>1, StagedAlone DEF WriteEntry
<1>9. CASE WriteUpdaterHandoff(t)
  <2>1. Unpacked(t)' BY <1>9 DEF WriteUpdaterHandoff, Goto, Staged, Unpacked, WorkerRecord, disk
  <2> QED BY <1>9, <2>1, StagedAlone DEF WriteUpdaterHandoff, Goto
<1>10. CASE LaunchUpdaterAndExitGame(t)
  BY <1>10, StagedReset DEF LaunchUpdaterAndExitGame, Staged, Unpacked, disk
<1> QED BY <1>1, <1>2, <1>3, <1>4, <1>5, <1>6, <1>7, <1>8, <1>9, <1>10 DEF WorkerStep

LEMMA StagedSession ==
  ASSUME Staged, TypeOK, StartAsyncCheck \/ CheckStep \/ UserStep
  PROVE  Staged'
<1>1. Playing
  BY DEF StartAsyncCheck, CheckStep, CheckLoadState, CheckSaveState, CheckPublish,
         CheckOpenPopup, UserStep, DrawFrame, ClickLater, ClickSkip, ClickLink, ClickUpdate,
         ClickInstall, Staged, ThreadsDieWithGame, Unstarted, NoFrame
<1>2. CASE StartAsyncCheck BY <1>1, <1>2, StagedKept DEF StartAsyncCheck, disk
<1>3. CASE CheckStep
  BY <1>1, <1>3, StagedKept
  DEF CheckStep, CheckLoadState, CheckSaveState, CheckPublish, CheckOpenPopup, disk
<1>4. CASE UserStep
  <2>1. CASE DrawFrame \/ ClickLater \/ ClickSkip \/ ClickLink
    BY <1>1, <2>1, StagedKept DEF DrawFrame, ClickLater, ClickSkip, ClickLink, disk
  <2>2. ASSUME NEW t \in Thread, ClickUpdate(t) PROVE Staged'
    BY <1>1, <2>2, StagedKept DEF ClickUpdate, StartUpdate, Started, Ended, disk, TypeOK
  <2>3. ASSUME NEW t \in Thread, NEW r \in Release, ClickInstall(t, r) PROVE Staged'
    <3>1. Started("pending", r).pc = "pending" BY DEF Started, Ended
    <3>2. \A u \in Thread : worker'[u] = worker[u] \/ worker'[u].pc = "pending"
      BY <2>3, <3>1 DEF ClickInstall, StartInstallRelease, TypeOK
    <3> QED BY <1>1, <2>3, <3>2, StagedKept DEF ClickInstall, disk
  <2> QED BY <1>4, <2>1, <2>2, <2>3 DEF UserStep
<1> QED BY <1>2, <1>3, <1>4

LEMMA StagedStep == Staged /\ SingleApply /\ TypeOK /\ [Next]_vars => Staged'
<1> SUFFICES ASSUME Staged, SingleApply, TypeOK, [Next]_vars PROVE Staged' OBVIOUS
<1>1. CASE SessionStep BY <1>1, StagedSession, StagedWorker DEF SessionStep
<1>2. CASE CloseGame
  BY <1>2, StagedReset DEF CloseGame, Staged, ThreadsDieWithGame, disk
<1>3. CASE TakeHandoff
  BY <1>3 DEF TakeHandoff, Staged, LaunchesWholePackage, ThreadsDieWithGame, Unpacked, Playing,
              memory, disk, ui
<1>4. ASSUME NEW version \in Release, StartGame(version) PROVE Staged'
  BY <1>4, ReleaseAssumption
  DEF StartGame, Staged, LaunchesWholePackage, ThreadsDieWithGame, Unpacked, Playing, NoRelease,
      memory, disk, ui
<1>5. CASE UNCHANGED vars
  BY <1>5 DEF vars, disk, memory, ui, Staged, LaunchesWholePackage, ThreadsDieWithGame,
              Unpacked, Playing
<1> QED BY <1>1, <1>2, <1>3, <1>4, <1>5 DEF Next

-----------------------------------------------------------------------------
(* The theorems                                                             *)

\* Every reachable state satisfies the inductive invariant.
THEOREM Invariance == Spec => []Inv
<1>1. Init => Inv BY InitInv
<1>2. Inv /\ [Next]_vars => Inv'
  BY TypeStep, OneApplyStep, StagedStep DEF Inv, OneApply, Staged
<1> QED BY <1>1, <1>2, PTL DEF Spec

\* Types, for every set of releases, threads and files.
THEOREM TypeCorrect == Spec => []TypeOK
<1> Inv => TypeOK BY DEF Inv
<1> QED BY Invariance, PTL

\* However many threads there are to be had, UpdateCoordinator's flag lets one apply run.
THEOREM OneApplyAtATime == Spec => []SingleApply
<1> Inv => SingleApply BY DEF Inv
<1> QED BY Invariance, PTL

\* The windows never wait for an apply that has ended.
THEOREM BusyEnds == Spec => []BusyMeansApplying
<1> Inv => BusyMeansApplying BY DEF Inv
<1> QED BY Invariance, PTL

\* The updater is only ever started over a stage folder that is one verified package,
\* whatever was left there by attempts, sessions and releases before.
THEOREM WholePackage == Spec => []LaunchesWholePackage
<1> Inv => LaunchesWholePackage BY DEF Inv
<1> QED BY Invariance, PTL

-----------------------------------------------------------------------------
(* The refinement                                                           *)

\* A step that leaves the game, the flag and the handoff alone is no step of the handover:
\* a stage folder that is being written has not been handed over.
LEMMA HandoverUnmoved ==
  ASSUME UNCHANGED running, UNCHANGED m_applyStarted, UNCHANGED launched,
         UNCHANGED stage \/ launched = NoRelease
  PROVE  UNCHANGED <<Phase, Handed>>
BY DEF Phase, Handed, Playing

\* The windows begin an apply, or nothing; the check thread does nothing.
LEMMA HandoverSession ==
  ASSUME Inv, StartAsyncCheck \/ CheckStep \/ UserStep
  PROVE  [Handover!Next]_<<Phase, Handed>>
<1> USE DEF memory, disk
<1>1. CASE StartAsyncCheck BY <1>1, HandoverUnmoved DEF StartAsyncCheck
<1>2. CASE CheckStep
  BY <1>2, HandoverUnmoved
  DEF CheckStep, CheckLoadState, CheckSaveState, CheckPublish, SetAvailable, CheckOpenPopup
<1>3. CASE DrawFrame \/ ClickLater \/ ClickSkip \/ ClickLink
  BY <1>3, HandoverUnmoved DEF DrawFrame, ClickLater, ClickSkip, SkipCurrentVersion, ClickLink
<1>4. ASSUME NEW t \in Thread, ClickUpdate(t) \/ \E r \in Release : ClickInstall(t, r)
      PROVE  [Handover!Next]_<<Phase, Handed>>
  <2>1. Playing
    BY <1>4 DEF ClickUpdate, ClickInstall, Inv, ThreadsDieWithGame, NoFrame
  <2>2. UNCHANGED running /\ UNCHANGED launched /\ UNCHANGED stage
    BY <1>4 DEF ClickUpdate, ClickInstall
  <2>3. CASE UNCHANGED m_applyStarted BY <2>2, <2>3, HandoverUnmoved
  <2>4. CASE ~m_applyStarted /\ m_applyStarted'
    <3>1. Handover!Begin BY <2>1, <2>2, <2>4 DEF Handover!Begin, Phase, Handed, Playing
    <3> QED BY <3>1 DEF Handover!Next
  <2>5. UNCHANGED m_applyStarted \/ (~m_applyStarted /\ m_applyStarted')
    BY <1>4 DEF ClickUpdate, StartUpdate, ClickInstall, StartInstallRelease, Inv, TypeOK
  <2> QED BY <2>3, <2>4, <2>5
<1> QED BY <1>1, <1>2, <1>3, <1>4 DEF UserStep

\* An apply thread fails, hands over and takes the game with it, or does nothing.
LEMMA HandoverWorker ==
  ASSUME Inv, NEW t \in Thread, WorkerStep(t)
  PROVE  [Handover!Next]_<<Phase, Handed>>
<1> USE DEF memory, disk
<1>1. worker[t].pc # "ended" /\ t \in Applying
  BY DEF WorkerStep, WorkerFails, PickRelease, FetchManifest, CopyUpdate, Download, Verify,
         CreateEntry, WriteEntry, WriteUpdaterHandoff, LaunchUpdaterAndExitGame, Applying
<1>2. Playing /\ launched = NoRelease /\ m_applyStarted
  BY <1>1, AppliesWhilePlaying DEF Inv, Staged, SingleApply, TypeOK
<1>3. CASE WorkerFails(t)
  <2>1. Handover!Fail
    BY <1>2, <1>3 DEF WorkerFails, SetError, Handover!Fail, Phase, Handed, Playing
  <2> QED BY <2>1 DEF Handover!Next
<1>4. CASE LaunchUpdaterAndExitGame(t)
  <2>1. Phase = "applying" /\ Phase' = "off"
    BY <1>2, <1>4 DEF LaunchUpdaterAndExitGame, Phase, Playing
  <2>2. CASE launched' = NoRelease \/ Entry = {}
    <3>1. Handed = {} /\ Handed' = {} BY <1>2, <2>2 DEF Handed
    <3>2. Handover!CloseGame BY <2>1, <3>1 DEF Handover!CloseGame
    <3> QED BY <3>2 DEF Handover!Next
  <2>3. CASE launched' # NoRelease /\ Entry # {}
    <3>1. worker[t].release \in MaybeRelease BY DEF Inv, TypeOK, WorkerRecord
    <3>2. launched' \in Release BY <1>4, <2>3, <3>1 DEF LaunchUpdaterAndExitGame, MaybeRelease
    <3>3. \A e \in Entry : stage'[e] = launched'
      BY <1>4 DEF LaunchUpdaterAndExitGame, Inv, Unpacked
    <3>4. Handed' = {launched'} BY <2>3, <3>3 DEF Handed
    <3>5. Handover!HandOver(launched') BY <2>1, <3>4 DEF Handover!HandOver
    <3> QED BY <3>2, <3>5 DEF Handover!Next
  <2> QED BY <2>2, <2>3
<1>5. CASE ~WorkerFails(t) /\ ~LaunchUpdaterAndExitGame(t)
  BY <1>2, <1>5, HandoverUnmoved
  DEF WorkerStep, PickRelease, FetchManifest, CopyUpdate, Download, Verify, CreateEntry,
      WriteEntry, WriteUpdaterHandoff
<1> QED BY <1>3, <1>4, <1>5

\* Every step of the coordinator is a step of the handover, or none.
LEMMA HandoverStep == Inv /\ [Next]_vars => [Handover!Next]_<<Phase, Handed>>
<1> SUFFICES ASSUME Inv, [Next]_vars PROVE [Handover!Next]_<<Phase, Handed>> OBVIOUS
<1> USE DEF memory, disk
<1>1. CASE SessionStep BY <1>1, HandoverSession, HandoverWorker DEF SessionStep
<1>2. CASE CloseGame
  <2>1. Handover!CloseGame
    BY <1>2 DEF CloseGame, Handover!CloseGame, Phase, Handed, Playing, Inv, ThreadsDieWithGame
  <2> QED BY <2>1 DEF Handover!Next
<1>3. CASE TakeHandoff
  <2>1. Handover!Install
    BY <1>3 DEF TakeHandoff, Handover!Install, Phase, Handed, Playing, Inv, ThreadsDieWithGame
  <2> QED BY <2>1 DEF Handover!Next
<1>4. ASSUME NEW version \in Release, StartGame(version)
      PROVE  [Handover!Next]_<<Phase, Handed>>
  <2>1. worker = [t \in Thread |-> Ended] BY <1>4 DEF StartGame, Inv, ThreadsDieWithGame
  <2>2. ~m_applyStarted BY <2>1 DEF Inv, SingleApply, Applying, Ended
  <2>3. Handover!StartGame
    BY <1>4, <2>2, ReleaseAssumption
    DEF StartGame, Handover!StartGame, Phase, Handed, Playing, NoRelease
  <2> QED BY <2>3 DEF Handover!Next
<1>5. CASE UNCHANGED vars BY <1>5, HandoverUnmoved DEF vars
<1> QED BY <1>1, <1>2, <1>3, <1>4, <1>5 DEF Next

\* For every set of releases, threads and package files, the coordinator implements the
\* handover: what the updater is given is the one release a game was applying as it exited.
THEOREM CoordinatorImplementsHandover == Spec => ImplementsHandover
<1>1. Init => Handover!Init
  BY DEF Init, Handover!Init, Phase, Handed, Playing
<1>2. Inv /\ [Next]_vars => [Handover!Next]_Handover!vars
  BY HandoverStep DEF Handover!vars
<1> QED BY <1>1, <1>2, Invariance, PTL DEF Spec, ImplementsHandover, Handover!Spec
=============================================================================
