--------------------------- MODULE BgmReplacement ---------------------------
(***************************************************************************)
(* Audio/BgmReplacementManager: the game resolves every music file through *)
(* a table of filename pointers; the manager points an entry at a file it  *)
(* has converted from a song of the user's, so that the game loads that    *)
(* file instead.  Everything here runs on the game's render thread except  *)
(* the conversion itself, which is one std::async job at a time.           *)
(*                                                                         *)
(* A converted file is abstracted to the song and the gain it was made     *)
(* from, a path to the track whose directory it names.  The tracks are the *)
(* rows the browser offers: installed, and read by the game.               *)
(***************************************************************************)
EXTENDS Integers, Sequences, FiniteSets

CONSTANTS
  Index,        \* the entries of the game's filename table that are modelled
  Primary,      \* the first entry carrying the same filename as an entry
  Refusable,    \* the entries whose page Windows may refuse to make writable
  UserSource,   \* audio files the user can pick
  Gain,         \* gains the sliders can be set to
  MaxBatch,     \* bound of the model: conversions asked for before the queue runs dry
  None          \* no track, no song, no file, no line, the shipped filename

ASSUME TableAssumption ==
  /\ Primary \in [Index -> Index]
  /\ \A i \in Index : Primary[Primary[i]] = Primary[i]
  /\ Refusable \subseteq Index
\* m_tracks lists a duplicated filename once, under its first entry.
Track == {i \in Index : Primary[i] = i}

\* A shipped track can stand in for another: its file is then the source.
Source == UserSource \cup Track

State == {"Original", "Converting", "Active", "Missing", "Failed"}

Song == [source : Source, gain : Gain]
Assignment == [state : State, source : Source \cup {None}, gain : Gain,
               hasPac : BOOLEAN, appliedBeforeBoot : BOOLEAN]
Job == [track : Track, source : Source, gain : Gain]

ASSUME ValueAssumption ==
  /\ Gain \subseteq Int /\ 0 \in Gain
  /\ MaxBatch \in Nat
  /\ None \notin Index \cup UserSource \cup Song

VARIABLES
  table,          \* what each entry points at: None, the shipped name, or a track's file
  stuck,          \* history: the entries whose last write was refused and which therefore
                  \* point at something else than was to be written
  m_assignments,  \* the manager's map; "Original" where it has no entry
  m_pending,      \* jobs not started
  m_inFlight,     \* the one job handed to std::async, and how far it is
  m_batchTotal,
  m_batchDone,
  disk,           \* the converted file of each track
  ini,            \* the line of each track in bgm_replacements.ini
  songs,          \* the user's audio files still where they were picked
  picker,         \* the row the open file dialog was opened for
  vanillaFor      \* the row the "play another track" modal was opened for

jobs  == <<m_pending, m_inFlight, m_batchTotal, m_batchDone>>
ui    == <<picker, vanillaFor>>
files == <<disk, ini, songs>>
pointers == <<table, stuck>>
vars  == <<pointers, m_assignments, jobs, files, ui>>

Blank == [state |-> "Original", source |-> None, gain |-> 0,
          hasPac |-> FALSE, appliedBeforeBoot |-> FALSE]
Idle == [job |-> None, phase |-> "idle"]

Assigned(t) == m_assignments[t].state # "Original"
\* Slip: only successful conversions are retired.
IsReadyWhenOk == m_inFlight.phase = "ok"
IsReady == m_inFlight.phase \in {"ok", "failed"}
FileExists(s) == s \in songs \/ s \in Track
\* Slip: the path is trusted without looking at the disk.
LooksLikeKnownPac(a, t) == a.hasPac
LooksLikeUsablePac(a, t) == a.hasPac /\ disk[t] # None

JobsFor(t) == {k \in 1 .. Len(m_pending) : m_pending[k].track = t}
HasJob(t) == JobsFor(t) # {} \/ (m_inFlight # Idle /\ m_inFlight.job.track = t)

-----------------------------------------------------------------------------
(* The pointer table.  All entries of a filename are written, each under a *)
(* VirtualProtect of its own that may be refused; nobody repeats a write.  *)

IndicesSharingFile(tracks) == {i \in Index : Primary[i] \in tracks}

\* Slip: only the selected entry is written.
WriteOneEntry(tab, entries, value) ==
  [i \in Index |-> IF i \in entries \cap Track THEN value ELSE tab[i]]

WritePointer(tab, entries, value) ==
  [i \in Index |-> IF i \in entries THEN value ELSE tab[i]]

\* Slip: the shipped name is not put back.
KeepPointer(tracks) == UNCHANGED pointers

\* No caller looks at the result: an entry that was refused goes on naming its file.
RestorePointer(tracks) ==
  \E refused \in SUBSET {i \in IndicesSharingFile(tracks) \cap Refusable : table[i] # None} :
    /\ table' = WritePointer(table, IndicesSharingFile(tracks) \ refused, None)
    /\ stuck' = (stuck \ IndicesSharingFile(tracks)) \cup refused

\* Slip: the result of the last write is not looked at.
ApplyUnchecked(t, refused) == "Active"

\* Only a refusal of the entry itself fails the row; one of a duplicate is just logged.
AppliedState(t, refused) == IF t \in refused THEN "Failed" ELSE "Active"

\* The shipped name is put back first.  An entry may refuse either write: `refused` did not
\* take the file's name, and `old` of them had not taken the shipped name either.
RedirectPointer(t) ==
  \E refused \in SUBSET (IndicesSharingFile({t}) \cap Refusable) :
    \E old \in SUBSET {i \in refused : table[i] # None} :
      /\ table' = WritePointer(WritePointer(table, IndicesSharingFile({t}) \ old, None),
                               IndicesSharingFile({t}) \ refused, t)
      /\ stuck' = (stuck \ IndicesSharingFile({t})) \cup (refused \ old)
      /\ m_assignments' = [m_assignments EXCEPT ![t].state = AppliedState(t, refused),
                                               ![t].appliedBeforeBoot = FALSE]

\* The file must be there; when it is not, the row is Missing and the shipped name is put back.
ApplyPointer(t) ==
  IF LooksLikeUsablePac(m_assignments[t], t)
  THEN RedirectPointer(t)
  ELSE /\ RestorePointer({t})
       /\ m_assignments' = [m_assignments EXCEPT ![t].state = "Missing"]

-----------------------------------------------------------------------------
(* Persistence and the conversion queue. *)

\* Slip: the gain section is not written.
SavedWithoutGain(assignments) ==
  [t \in Track |-> IF assignments[t].source = None THEN None
                   ELSE [source |-> assignments[t].source, gain |-> 0]]

\* Slip: a row that is not in effect gets no line.
SavedActiveLines(assignments) ==
  [t \in Track |-> IF assignments[t].state # "Active" THEN None
                   ELSE [source |-> assignments[t].source, gain |-> assignments[t].gain]]

\* The whole file is rewritten from the map; an entry without a source has no line.
SavedLines(assignments) ==
  [t \in Track |-> IF assignments[t].source = None THEN None
                   ELSE [source |-> assignments[t].source, gain |-> assignments[t].gain]]
Save == ini' = SavedLines(m_assignments')

\* Slip: the newest job is started first.
StartNewestJob(pending, flight) ==
  IF flight # Idle \/ pending = <<>>
  THEN m_pending' = pending /\ m_inFlight' = flight
  ELSE /\ m_pending' = SubSeq(pending, 1, Len(pending) - 1)
       /\ m_inFlight' = [job |-> pending[Len(pending)], phase |-> "running"]

\* One job at a time, oldest first.
StartNextJob(pending, flight) ==
  IF flight # Idle \/ pending = <<>>
  THEN m_pending' = pending /\ m_inFlight' = flight
  ELSE /\ m_pending' = Tail(pending)
       /\ m_inFlight' = [job |-> Head(pending), phase |-> "running"]

-----------------------------------------------------------------------------
(* Assign, and the three handlers that end in it. *)

\* The file is gone: the entry is overwritten and nothing else is touched.
RejectAssign(t, s) ==
  /\ m_assignments' = [m_assignments EXCEPT ![t] =
       [Blank EXCEPT !.state = "Failed", !.source = s]]
  /\ UNCHANGED <<pointers, jobs, ini>>

QueueConversion(t, s, gain) ==
  /\ m_batchTotal < MaxBatch
  /\ m_assignments' = [m_assignments EXCEPT ![t] =
       [state |-> "Converting", source |-> s, gain |-> gain,
        hasPac |-> TRUE, appliedBeforeBoot |-> FALSE]]
  /\ RestorePointer({t})
  /\ StartNextJob(Append(m_pending, [track |-> t, source |-> s, gain |-> gain]),
                  m_inFlight)
  /\ m_batchDone' = IF m_batchTotal = 0 THEN 0 ELSE m_batchDone
  /\ m_batchTotal' = m_batchTotal + 1
  /\ Save

\* The gain is kept when the same song is converted again.
CarriedGain(t, s) == IF m_assignments[t].source = s THEN m_assignments[t].gain ELSE 0

Assign(t, s, gain) ==
  /\ IF FileExists(s) THEN QueueConversion(t, s, gain) ELSE RejectAssign(t, s)
  /\ UNCHANGED <<disk, songs>>

Retry(t) ==
  /\ vanillaFor = None
  /\ m_assignments[t].state \in {"Missing", "Failed"}
  /\ Assign(t, m_assignments[t].source, m_assignments[t].gain)
  /\ UNCHANGED ui

\* The browser has a slider for a row made from a song, the Jukebox for any Active row.
SetGainDb(t, gain) ==
  /\ vanillaFor = None
  /\ \/ m_assignments[t].state = "Active"
     \/ m_assignments[t].state \in {"Missing", "Failed"} /\ m_assignments[t].source \in UserSource
  /\ gain # m_assignments[t].gain
  /\ Assign(t, m_assignments[t].source, gain)
  /\ UNCHANGED ui

\* The chosen track is installed and is not the target itself (the modal lists no other).
AssignFromVanilla(source) ==
  /\ vanillaFor # None
  /\ source # vanillaFor
  /\ Assign(vanillaFor, source, CarriedGain(vanillaFor, source))
  /\ vanillaFor' = None
  /\ UNCHANGED picker

-----------------------------------------------------------------------------
(* The two windows through which a song is chosen.  The file dialog runs   *)
(* beside the game, so the row can change before it is answered; the modal *)
(* blocks the other controls but not the frames behind it.                 *)

RowOffersChange(t) == vanillaFor = None /\ m_assignments[t].state # "Converting"

OpenPickerFor(t) ==
  /\ RowOffersChange(t)
  /\ picker = None
  /\ picker' = t
  /\ UNCHANGED <<pointers, m_assignments, jobs, files, vanillaFor>>

PollPicker(s) ==
  /\ picker # None
  /\ Assign(picker, s, CarriedGain(picker, s))
  /\ picker' = None
  /\ UNCHANGED vanillaFor

CancelPicker ==
  /\ picker # None
  /\ picker' = None
  /\ UNCHANGED <<pointers, m_assignments, jobs, files, vanillaFor>>

OpenVanillaModal(t) ==
  /\ RowOffersChange(t)
  /\ vanillaFor' = t
  /\ UNCHANGED <<pointers, m_assignments, jobs, files, picker>>

CancelVanillaModal ==
  /\ vanillaFor # None
  /\ vanillaFor' = None
  /\ UNCHANGED <<pointers, m_assignments, jobs, files, picker>>

-----------------------------------------------------------------------------
(* Unassign, from the row (not while converting), from the Jukebox (a row  *)
(* whose file is on disk) or for every row at once.  A job in flight       *)
(* cannot be cancelled.                                                    *)

\* Slip: undoing one row empties the queue.
CancelAll(tracks) == m_pending' = <<>>

\* The jobs of the other tracks stay, in their order.
CancelQueued(tracks) ==
  LET kept == {k \in 1 .. Len(m_pending) : m_pending[k].track \notin tracks}
  IN  \E f \in [1 .. Cardinality(kept) -> kept] :
        /\ \A i, j \in DOMAIN f : i < j => f[i] < f[j]
        /\ m_pending' = [k \in DOMAIN f |-> m_pending[f[k]]]

Undo(tracks) ==
  /\ RestorePointer(tracks)
  /\ CancelQueued(tracks)
  /\ disk' = [t \in Track |-> IF t \in tracks /\ m_assignments[t].hasPac
                              THEN None ELSE disk[t]]
  /\ m_assignments' = [t \in Track |-> IF t \in tracks THEN Blank ELSE m_assignments[t]]
  /\ Save
  /\ UNCHANGED <<m_inFlight, m_batchTotal, m_batchDone, songs, ui>>

Unassign(t) ==
  /\ vanillaFor = None
  /\ Assigned(t)
  /\ m_assignments[t].state # "Converting" \/ disk[t] # None
  /\ Undo({t})

UnassignAll ==
  /\ vanillaFor = None
  /\ \E t \in Track : Assigned(t)
  /\ Undo({t \in Track : Assigned(t)})

-----------------------------------------------------------------------------
(* The worker.  It builds a .tmp beside the target and moves it into place *)
(* whole, so its only visible effect is the finished file.                 *)

Convert ==
  /\ m_inFlight.phase = "running"
  /\ FileExists(m_inFlight.job.source)
  /\ disk' = [disk EXCEPT ![m_inFlight.job.track] =
       [source |-> m_inFlight.job.source, gain |-> m_inFlight.job.gain]]
  /\ m_inFlight' = [m_inFlight EXCEPT !.phase = "ok"]
  /\ UNCHANGED <<pointers, m_assignments, m_pending, m_batchTotal, m_batchDone, ini, songs, ui>>

ConvertFails ==
  /\ m_inFlight.phase = "running"
  /\ m_inFlight' = [m_inFlight EXCEPT !.phase = "failed"]
  /\ UNCHANGED <<pointers, m_assignments, m_pending, m_batchTotal, m_batchDone, files, ui>>

-----------------------------------------------------------------------------
(* Update, every frame.  A frame that finds no finished job changes        *)
(* nothing, because Assign has already started what can start.             *)

\* The entry was undone while its file was being made: the file is removed again.
DropStray(t) ==
  /\ disk' = IF m_inFlight.phase = "ok" THEN [disk EXCEPT ![t] = None] ELSE disk
  /\ UNCHANGED <<pointers, m_assignments>>

ApplyResult(t) ==
  /\ IF m_inFlight.phase = "ok"
     THEN ApplyPointer(t)
     ELSE /\ m_assignments' = [m_assignments EXCEPT ![t].state = "Failed"]
          /\ UNCHANGED pointers
  /\ UNCHANGED disk

\* Slip: the counters are not reset when the queue runs dry.
UpdateKeepsTotal ==
  /\ IsReady
  /\ LET t == m_inFlight.job.track
     IN  IF Assigned(t) THEN ApplyResult(t) ELSE DropStray(t)
  /\ Save
  /\ StartNextJob(m_pending, Idle)
  /\ m_batchDone' = m_batchDone + 1 /\ UNCHANGED m_batchTotal
  /\ UNCHANGED <<songs, ui>>

Update ==
  /\ IsReady
  /\ LET t == m_inFlight.job.track
     IN  IF Assigned(t) THEN ApplyResult(t) ELSE DropStray(t)
  /\ Save
  /\ StartNextJob(m_pending, Idle)
  /\ IF m_pending = <<>>
     THEN m_batchTotal' = 0 /\ m_batchDone' = 0
     ELSE m_batchDone' = m_batchDone + 1 /\ UNCHANGED m_batchTotal
  /\ UNCHANGED <<songs, ui>>

-----------------------------------------------------------------------------
(* The process ends, at any moment, and the game is started again.  The    *)
(* user may delete converted files in between.                             *)

\* Slip: a row whose ini has no gain section keeps no gain at all.
RestoredWithoutGain(line, file, refused) ==
  IF line = None THEN Blank
  ELSE [state |-> IF file = None THEN "Missing" ELSE IF refused THEN "Failed" ELSE "Active",
        source |-> line.source, gain |-> None,
        hasPac |-> TRUE, appliedBeforeBoot |-> file # None]

Restored(line, file, refused) ==
  IF line = None THEN Blank
  ELSE [state |-> IF file = None THEN "Missing" ELSE IF refused THEN "Failed" ELSE "Active",
        source |-> line.source, gain |-> line.gain,
        hasPac |-> TRUE, appliedBeforeBoot |-> file # None]

\* A new process has the shipped names, and those that cannot be replaced stay.
Initialize(kept) ==
  LET saved == {i \in Index : ini[Primary[i]] # None /\ kept[Primary[i]] # None}
  IN  \E refused \in SUBSET (saved \cap Refusable) :
        /\ m_assignments' = [t \in Track |-> Restored(ini[t], kept[t], t \in refused)]
        /\ table' = [i \in Index |-> IF i \in saved \ refused THEN Primary[i] ELSE None]
        /\ stuck' = refused
        /\ m_pending' = <<>>
        /\ m_inFlight' = Idle
        /\ m_batchTotal' = 0
        /\ m_batchDone' = 0
        /\ picker' = None
        /\ vanillaFor' = None

Restart ==
  \E gone \in SUBSET Track :
    LET kept == [t \in Track |-> IF t \in gone THEN None ELSE disk[t]]
    IN  /\ disk' = kept
        /\ Initialize(kept)
        /\ UNCHANGED <<ini, songs>>

\* The user deletes or moves a song that was picked.
SongRemoved(s) ==
  /\ s \in songs
  /\ songs' = songs \ {s}
  /\ UNCHANGED <<pointers, m_assignments, jobs, disk, ini, ui>>

-----------------------------------------------------------------------------
Init ==
  /\ table = [i \in Index |-> None]
  /\ stuck = {}
  /\ m_assignments = [t \in Track |-> Blank]
  /\ m_pending = <<>>
  /\ m_inFlight = Idle
  /\ m_batchTotal = 0
  /\ m_batchDone = 0
  /\ disk = [t \in Track |-> None]
  /\ ini = [t \in Track |-> None]
  /\ songs = UserSource
  /\ picker = None
  /\ vanillaFor = None

RowAction(t) ==
  \/ Retry(t)
  \/ \E gain \in Gain : SetGainDb(t, gain)
  \/ OpenPickerFor(t)
  \/ OpenVanillaModal(t)
  \/ Unassign(t)

Next ==
  \/ \E t \in Track : RowAction(t) \/ AssignFromVanilla(t)
  \/ \E s \in UserSource : PollPicker(s) \/ SongRemoved(s)
  \/ UnassignAll
  \/ CancelPicker
  \/ CancelVanillaModal
  \/ Convert
  \/ ConvertFails
  \/ Update
  \/ Restart

Spec == Init /\ [][Next]_vars

\* Update runs every frame, and a conversion ends one way or the other.
Fairness == WF_vars(Update) /\ WF_vars(Convert \/ ConvertFails)
FairSpec == Spec /\ Fairness

-----------------------------------------------------------------------------
\* The variables have the types of the manager's members, the table only ever
\* names tracks, and the worker is idle exactly when there is no job in flight.
TypeOK ==
  /\ table \in [Index -> Track \cup {None}]
  /\ stuck \subseteq Refusable
  /\ m_assignments \in [Track -> Assignment]
  /\ m_pending \in Seq(Job)
  /\ \/ m_inFlight = Idle
     \/ m_inFlight \in [job : Job, phase : {"running", "ok", "failed"}]
  /\ m_batchTotal \in Nat /\ m_batchDone \in Nat
  /\ disk \in [Track -> Song \cup {None}]
  /\ ini \in [Track -> Song \cup {None}]
  /\ songs \subseteq UserSource
  /\ picker \in Track \cup {None} /\ vanillaFor \in Track \cup {None}

\* "A pointer is NEVER written unless the target file is confirmed on disk": an
\* entry that does not point at its shipped name points at a file that is there,
\* unless Windows refused to let the manager put the shipped name back.
PointerSafe == \A i \in Index \ stuck : table[i] # None => disk[table[i]] # None

\* What a row says is what the game will load, whichever entry of the filename it reads:
\* Active is patched, and an original, converting or missing row has the shipped filename
\* back.  Only a refused write parts an entry from its row, and never the entry that an
\* Active row stands for, because that refusal fails the row.
RowMatchesPointer ==
  \A i \in Index :
    LET row == m_assignments[Primary[i]].state
    IN  /\ row = "Active" /\ i \notin stuck \ Track => table[i] = Primary[i]
        /\ row \in {"Original", "Converting", "Missing"} /\ i \notin stuck => table[i] = None

\* A row that says it is converting has a job that will end it, whatever was
\* cancelled, undone or queued twice meanwhile.
ConvertingHasJob ==
  \A t \in Track : m_assignments[t].state = "Converting" => HasJob(t)

\* The progress bar counts every queued job, and idle frames find nothing to start
\* or to reset, although Unassign takes jobs out without touching the counters.
BatchAccountsForQueue ==
  LET queued == Len(m_pending) + IF m_inFlight = Idle THEN 0 ELSE 1
  IN  /\ m_batchDone + queued <= m_batchTotal
      /\ queued = 0 => m_batchTotal = 0
      /\ m_inFlight = Idle => m_pending = <<>>

\* When the last job of a track has been retired in this session and the row is
\* Active, the file the game loads was made from the song and gain the row shows,
\* whatever results of earlier assignments came in late.
ActiveIsChosenSong ==
  \A t \in Track :
    LET a == m_assignments[t]
    IN  a.state = "Active" /\ ~a.appliedBeforeBoot /\ ~HasJob(t)
          => disk[t] = [source |-> a.source, gain |-> a.gain]

\* A restart at any moment keeps what is in effect: an Active row is in the ini with
\* its song and gain, and an undone one is not.
SettingsSurviveRestart ==
  \A t \in Track :
    LET a == m_assignments[t]
    IN  /\ a.state = "Active" => ini[t] = [source |-> a.source, gain |-> a.gain]
        /\ a.state = "Original" => ini[t] = None

\* No row stays "please wait" for ever.
ConversionEnds ==
  \A t \in Track : m_assignments[t].state = "Converting"
                     ~> m_assignments[t].state # "Converting"

\* Undoing a replacement "deletes the converted file", as the header says, unless
\* a conversion of that track is still running and Update will remove its file.
UndoDeletesFile ==
  [][\A t \in Track : Unassign(t) /\ m_inFlight = Idle => disk'[t] = None]_vars

\* Where a track waits for the worker: its job in flight, at 0, and its places in the queue.
Places(t) ==
  JobsFor(t) \cup IF m_inFlight # Idle /\ m_inFlight.job.track = t THEN {0} ELSE {}

\* A row that stays at "please wait" is never overtaken or put back, by no click on another
\* row and no result of an earlier job: each place it waits at leads to one that is no
\* farther from the worker, and every job that Update retires brings it nearer.
WaitingRowsAdvance ==
  [][\A t \in Track :
       m_assignments[t].state = "Converting" /\ m_assignments'[t].state = "Converting" =>
         \A k \in Places(t) : \E j \in Places(t)' : j <= k /\ (Update => j < k)]_vars

\* What is left of all this for the player: MusicShelf.  Rows, entries of the table, late
\* results, undos and restarts come down to one switch per track, which is only thrown to a
\* song the player wants and that is there, and which a refused write jams.
SongOf(job) == [source |-> job.source, gain |-> job.gain]
Making(t) ==
  {SongOf(m_pending[k]) : k \in JobsFor(t)}
    \cup IF m_inFlight.phase = "running" /\ m_inFlight.job.track = t
         THEN {SongOf(m_inFlight.job)} ELSE {}

AssignedTracks == {t \in Track : Assigned(t)}
AllMaking      == [t \in Track |-> Making(t)]
PatchedTracks  == {t \in Track \ stuck : table[t] # None}
StuckTracks    == Track \cap stuck

Shelf == INSTANCE MusicShelf WITH
  wanted <- AssignedTracks, making <- AllMaking, shelf <- disk,
  replaced <- PatchedTracks, jammed <- StuckTracks

ImplementsShelf == Shelf!Spec
=============================================================================
