# Verification of BBCF Improvement Mod

BBCF Improvement Mod is a DLL that loads with *BlazBlue: Centralfiction*, hooks the game's
functions and frame loop and adds an overlay of windows to it. Most of it runs on one thread, the
game's render thread, but what is difficult in it is everything that does not fit in a frame: worker
threads, file dialogs, Steam packets, files that survive the process, a second program that
replaces the installed files, a game that can be saved and loaded under the feature that drives it.

This directory holds TLA+ modules of those parts, the TLC configurations that check them, and proofs
that TLAPS checks. Paths below are relative to `src/src/` unless they start with `src/`.

Contents: 1 the system · 2 the models · 3 the runs · 4 the proofs · 5 where code and documentation
disagree · 6 what is left out · 7 the plan.

## 1. The system

### Threads and scheduling

* **Render thread.** The game's frame loop calls the hooks of `Hooks/hooks_bbcf.cpp`;
  `Overlay/WindowManager.cpp` draws the windows and calls the managers' per-frame `Update`
  (`BgmReplacementManager::Update` at `WindowManager.cpp:717`). Every button handler runs here.
* **Worker threads.** The update check, an apply or install thread, the release list's fetch, one
  `std::async` conversion at a time, the native file dialog, watchdogs.
* **Other processes.** `BBCFIMUpdater.exe`, started as the game exits; the game started again; the
  user, who moves and deletes files.
* **Other machines.** Members of an online room, over unreliable Steam packets.

### Components

| component | state it keeps | operations | what is hard | what makes it correct |
|---|---|---|---|---|
| BGM replacement (`Audio/BgmReplacementManager`) | pointer table of the game, assignments, queue, job in flight, batch counters, converted files, `bgm_replacements.ini` | assign, retry, gain, undo one or all, per-frame `Update`, load and save | results that come after an undo or a second assignment, duplicated table entries, restarts mid conversion | a pointer never names an absent file; the row says what plays; no row waits for ever |
| BGM conversion (`Audio/CustomMusicConverter`, `AudioDecode`, `PacFile`, `ReplayGain`) | none | one conversion | long, fails | a whole file or none |
| BGM and Jukebox windows | row the dialog or the modal was opened for | open, answer, cancel | the dialog outlives the row it was opened for | (with the manager) |
| Update coordinator (`Updater/UpdateCoordinator`) | snapshot shown, update, pending install, two flags, all under `m_lock` | check, apply and install threads; Update, Install, Later, Skip, link buttons | four kinds of thread, lock released between test and use, stale snapshot of a frame | one apply at a time; what is launched is whole and is what was asked for |
| Package stager (`Updater/PackageStager`) | stage folder, handoff | download, hash, extract, launch | partial extraction, retries into the same folder | the stage is the package |
| Release client, version order, state store | `state.ini` | list releases, skip | read-modify-write without the lock | a skipped tag stays skipped |
| Update installer (`BBCFIMUpdater/`) | installed files, backup folder | wait, back up, copy, roll back, merge inis | copies that fail, a game started in between, being killed | old files never lost; success means whole |
| TAS editor (`Game/TasManager`, `TasWindow`, `TasInputListWindow`) | movie, playhead, base snapshot, keyframes, run state, undo and redo stacks, the freeze gate | edit, seek, advance, play, preview, record, restore, undo, import | three gates at once: UI, run state, frame gate; a real snapshot of the match behind every jump | what is on screen is what the list says up to the playhead |
| Rooms and packets (`Network/NetworkManager`, `RoomManager`) | members with the mod, by seat | join, announce, acknowledge, send, receive, strike off | packets lost, reordered, late; strangers who take over a seat | members know each other; a packet acts only on those it is about |
| Online game mode, download permission, replay veto (`Network/Online*`, `ReplayUploadManager`) | what each player chose or allows | send on change or at match start, record, forget | a packet that comes before the receiver's own match start, or after it has left | a mode is what both chose; a permission is the player's own; a refusal holds |
| Palettes in a match (`Palette/CharPaletteHandle`, `PaletteManager`, `Network/OnlinePaletteManager`) | per slot: the game's colour byte, two indices it is switched between, a backup, the files in character memory; queues of packets | read the pick, replace, restore, queue, apply | the byte that makes the game redraw is also the byte the game keeps the pick in | the pick survives; what was chosen last is shown; nobody's palette lands on another |
| Match state (`Game/MatchState`, `Hooks/hooks_bbcf.cpp`) | where in a match we are | init, rematch, end | order of hooks | managers see begin and end in pairs |
| Ranked list (`Network/RankedListConnectionFilter`, ranked windows) | list rows, pending Steam calls | refresh, filter, join | call results against a newer list | a result acts on the row it was asked for |
| Unlimited playback, replay takeover | slots, selection, trigger state | record, choose, play | triggers in the same frame | one slot plays at a time |
| Snapshots, replay rewind | slot pool, ring of checkpoints | save, load, discard | two owners of one pool | a checkpoint names its own snapshot |
| Jukebox (`Audio/MusicManager`) | rotation, queue, conversions | next, shuffle, convert | end of track while converting | never stops for want of a converted song |
| Lobby links and avatars, replay files, palettes, controllers and hotkeys, watchdogs, file dialog, settings, frame data readers, overlay, hooks, wrappers, web | see PROJECT.json | | | |

`PROJECT.json` lists every component with its sources, whether it is modelled, and why not where it
is not; its `hazards` list the lines where the code is exposed to something a test would hardly
reach, with the properties that look at it.

### How the components interact

* A row of the BGM browser or the Jukebox → `Assign` → queue → worker → `Update` → pointer table and
  ini. The next session's `Initialize` reads ini and files back.
* Popup or All Releases window → `StartUpdate`/`StartInstallRelease` → apply thread → stage folder and
  `handoff.ini` → `BBCFIMUpdater.exe` → installed files → the game's next start.
* TAS window, input list and hotkeys → `TasManager` → snapshot slots of `SnapshotApparatus`, the
  playback override, the frame gate of `hooks_bbcf.cpp` → `TasManager::Update` once per simulated
  frame.
* Steam callbacks → `NetworkManager::RecvPacket` → room, palette, mode and veto managers → applied by
  the hooks at match start, at rematch and at match end.

## 2. The models

Every module is parameterised by CONSTANTS with named assumptions; no module uses a RECURSIVE
operator, so that each can be proved about. Definitions whose comment begins with "Slip", or calls
itself the bug, are plausible mistakes kept beside the definition they would replace; `Next` uses
none of them.

### BgmReplacement

`Audio/BgmReplacementManager.cpp` with the gates of `BgmReplacementWindow.cpp` and
`JukeboxWindow.cpp`. The game resolves each music file through a table of filename pointers; the
manager points an entry at a converted file.

| model | code |
|---|---|
| `table` | the pointers of the game's table; `Primary` groups the entries that carry one filename |
| `stuck` | history: the entries that refused the last write meant for them and point at something else |
| `WritePointer`, `RestorePointer`, `RedirectPointer`, `ApplyPointer` | the same; each entry is written under a `VirtualProtect` of its own, which any entry of `Refusable` may refuse, so that a redirect or a restore can stop at any subset of the entries of a filename. Only a refusal of the row's own entry fails the row; the result of a restore is dropped |
| `m_assignments` | the map of that name; `Original` where it has no entry |
| `m_pending`, `m_inFlight` | the queue and the `std::future`, with the job's phase |
| `m_batchTotal`, `m_batchDone` | the counters of the progress bar |
| `disk`, `ini`, `songs` | converted files, lines of the ini, the user's own audio files |
| `picker`, `vanillaFor` | the row a file dialog, or the "play another track" modal, was opened for |
| `Assign` (`Retry`, `SetGainDb`, `PollPicker`, `AssignFromVanilla`) | `Assign`, with `QueueConversion` and the branch for a vanished file |
| `Unassign`, `UnassignAll` | the same, with the cancelling of queued jobs |
| `Convert`, `ConvertFails` | the worker: `.tmp` moved into place whole, or nothing |
| `Update` | `BgmReplacementManager::Update`, with `ApplyPointer`, `Save` and `StartNextJob` |
| `Restart` | process end at any moment, files deleted in between, then `Initialize` and `Load` |

Abstracted: a converted file is the song and gain it was made from; the gain a tag or the headroom
adds is left out. The buffer an entry points into (`m_owned`) is the track whose file name it holds: it
always holds the same one, so an entry that refused to be restored still names that file. Not modelled: rows that are not installed (the browser returns before its controls
at `BgmReplacementWindow.cpp:341`, the modal lists none of them), a deletion or a write of the ini
that fails, `.tmp` leftovers, files too small to be a track, converted files deleted while the game
runs. The documentation asks the user to undo from the mod, and `LooksLikeUsablePac` is only consulted
when a pointer is written, so a file deleted mid-session would break `PointerSafe` outside the code's
control.

### MusicShelf

What replacing music promises the player, in five variables: the tracks a song is wanted for, the songs
that are still being made for each, the file that lies on the shelf for each, the tracks that are switched
to it, and the tracks whose switch jammed when it was last thrown. Asking for a song gives a track its own music back at once; it is switched to a song only
when one is there and still wanted; taking tracks back touches no other track; a restart of the game, at
any moment, brings nothing back that was taken back and loses nothing but what has lost its file. A switch
jams only when it is thrown, and is free or jams anew at the next throw.
`BgmReplacement!ImplementsShelf` is its specification under the mapping `wanted <- AssignedTracks`,
`making <- AllMaking` (the jobs of a track, queued or running, seen as songs), `shelf <- disk`,
`replaced <- PatchedTracks`, `jammed <- StuckTracks` (a refused write). Rows and their states, the queue and its order, late results, the counters, the
dialogs and the ini are gone. A pointer that outlives the row it was written for, an undo that loses
another track's job, or an ini that does not know what is patched, is a step the shelf does not have.

### UpdateCoordinator

`Updater/UpdateCoordinator.cpp`, `PackageStager.cpp` and the windows that call them. Each action is a
critical section of `m_lock`, or one step between two of them.

| model | code |
|---|---|
| `m_update`, `m_snapshot`, `m_pendingInstallRelease`, `m_applyStarted` | the members guarded by `m_lock` |
| `check` | `CheckThread`: fetch, load of `state.ini`, its save, `SetAvailableLocked`, opening the popup |
| `worker[t]` | `ApplyThread` and `InstallReleaseThread`, which becomes the former once its manifest is there |
| `frame`, `notifier` | what this frame's windows drew: buttons act on the copy of the snapshot, not on the snapshot |
| `stage` | the stage folder, per file the release its bytes are of, or `Corrupt` |
| `launched`, `running` | the handoff; the version of the DLL in the game |

Releases are places in version order; a manifest and a package are the release they describe, and a
download may bring other bytes (`Corrupt`). The check offers the newest release or nothing
(`CheckAnswer`): that a pre-release may be newer than what a player outside the development channel is
offered is left out. So is a `CreateThread` that fails (`UpdateCoordinator.cpp:90`, 135, 354). Left out too: Wine, where `UpdateCoordinator` refuses
everything; the fetch thread of the All Releases list, which only fills that list; progress and
reporting fields.

### UpdateInstaller

`BBCFIMUpdater/BBCFIMUpdater.cpp`: `Apply` as a program counter over the staged files in the order the
code's list has them, with `Rollback`, with the game being started at any moment (which locks
`dinput8.dll`), and with the process killed at any moment. `before` is a history variable: what was
installed when this run began.

### UpdateHandover

What the game's side of an update promises, in two variables: the session is off, playing or applying,
and the updater has been handed nothing or one release. A session applies one release at a time; an
apply ends in a failure that leaves the session as it was, or in the exit of the game together with the
handing over of exactly that release. `UpdateCoordinator!ImplementsHandover` is its specification under
the refinement mapping `phase <- Phase`, `handed <- Handed`: `Phase` is read from `running` and
`m_applyStarted`; `Handed` is empty until the launch, and then the set of the releases whose files lie in the
stage folder. A launch of half
a package, a second apply beside the first, or a failure that leaves the flag up is a step the abstract
specification does not have.

The two updater modules meet at the handoff. `UpdateInstaller` assumes that the stage folder holds the
whole package of the release it is started for; that is `UpdateCoordinator!LaunchesWholePackage`,
which is proved. Conversely `UpdateCoordinator` lets any release be running when a game starts, which
covers whatever the installer left. One updater at a time is assumed, and a stage folder that stays as it is while one runs: the game that
launches one exits. The code does not enforce it. `WaitForGame` waits up to 30 seconds for that game and then
up to 60 for the DLL, and a game started again by hand in that time could stage another release into the
folder and launch a second updater beside the first; no lock is shared between the two programs.
`CHECK_DEADLOCK FALSE` in its configurations: a torn `dinput8.dll` keeps the game from loading, and
then nothing more can happen.

### TasEditor

`Game/TasManager.cpp` with the gates of `TasWindow.cpp` and `TasInputListWindow.cpp`, and with the
freeze gate in `Hooks/hooks_bbcf.cpp`. A movie is a list of inputs; moving back means loading a saved
state and letting the game simulate the frames in between.

| model | code |
|---|---|
| `m_movie`, `m_playhead`, `m_undoStack`, `m_redoStack`, `m_runState`, `m_runTarget` | the members of those names |
| `match` | the game itself: the inputs it has played since the base state, or `Elsewhere` |
| `base`, `m_keyframes`, `m_nextKeyframeSlot` | the reserved snapshot slots: the base state, and the ring of keyframes with the state each one holds |
| `m_scheduledInput` | the override of the next frame |
| `isFrameFrozen`, `reach` | `g_gameVals.isFrameFrozen`, and whether `framesToReach` is ahead of the frame counter: what `GameUpdatePause` tests |
| `SeekTo`, `BeginMovieRun`, `ResyncAfterEdit` | the same; a seek is a load and as many `MovieFrame`s as it takes |
| `deleting` | the rows `DeleteSelection`'s loop still has to delete, one call of `DeleteFrames` each; nothing else runs in between |
| `RecordFrame`, `RecordingLimit`, `FreeFrame`, `LeadInFrame`, `LeadOutFrame`, `MovieFrame` | one simulated frame, ending in `TasManager::Update` |
| `FreezeControls` | the freeze, step and reset controls of `MainMenu/PageOverlays.cpp` |

The frame counter itself is not a variable. `GetFrameCounter` increments it right after `Update`, so
`framesToReach = frame + 1` opens the gate from a click and shuts it from inside `Update`, where
`frame + 2` is needed; `reach` records the outcome of each. Stepping several frames is stepping one
several times. One input stands for both players'; the lengths of the lead-in and lead-out, the
recording limit and the autoload box are nondeterministic. Left out: notation and its parsing,
export, snapshots that cannot be saved or loaded, the slots that are dropped when a character was
changed, and a movie file without frames. The game's simulation is deterministic: a state is what was
played to reach it.

### MatchPalettes

`Palette/CharPaletteHandle`, the match hooks of `Palette/PaletteManager` and
`Network/OnlinePaletteManager`, and the calls `Game/MatchState` and the scene hooks make to them, on one
machine. The game keeps a colour byte for each player. The mod makes a custom palette visible by writing
it into the storage of two colours and flipping the byte between them; the same byte is where the next
match finds the player's pick.

| model | code |
|---|---|
| `scene` | the hooks of `hooks_bbcf.cpp` and `hooks_palette.cpp` that announce menu, character select, versus screen, match, victory |
| `handle[s]` | a `CharPaletteHandle` with what it points to: `colour` is `*m_pCurPalIndex`, `orig` is `m_origPalIndex`, `sw1` and `sw2` the switch indices, `locked` the once-per-frame lock, `loaded` a base address that is set, `store` the palettes in character memory, `backup` the saved one |
| `online`, `rival` | `RoomManager::IsRoomFunctional`, in matches and in the room's lobby alike; the opponent the room's table pairs this player with, in the lobby the last one |
| `queue`, `pending` | what waits last in `m_unprocessedPaletteFiles` for each slot, `m_matchInitPending` |
| `MatchInit` | `MatchState::OnMatchInit`: the byte read, `palettes.ini` applied to both sides and taken back from the opponent's, what waits applied if the own handle is ready |
| `Frame` | `MatchState::OnUpdate`: the lock lifted, what waits applied |
| `LoadCharacter` | `GetPalBaseAddresses`, player one before player two, before the match starts or after |
| `RecvPalette` | `RecvPaletteDataPacket`, applied at once or queued, behind the gate of `NetworkManager.cpp:71-75`: in a match it lets in the opponent, and in the lobby, where all members have the same match id, a late packet of the last one, for whichever slot the table has for its sender |
| `EnterMenu` | the main menu and the replay menu, and the lobby of the same or of another room, each with `OnMatchEnd` |
| `Pick`, `Rematch` | the game itself: character select writes the byte; a rematch skips character select |

`pick`, `early`, `chosen` and `left` are history: what was picked, whether an early packet flipped the
byte, what each slot was last told to show, and what waits for a slot since the lobby. The eight files of
a palette are one, a palette's packets are one, and the packets this machine sends are not in the model.
All packets that wait for a slot are applied in one frame, in order, so that only the last is kept. Left
out: the menu screen's hook when it takes the transition to be invalid and skips `OnMatchEnd`
(`ShouldBypassMenuScreenHook`).

### Costumes

What the palettes of a match look like, with no colour byte, handles, queues or loading: what each of the
two players picked, who is on this machine's side, and what each of them wears once the match has read
the pick. A match begins in the picks or in palettes of this machine for its own side; a click dresses the
own side, the palette the present opponent sent dresses the opponent, and a reset goes back to the pick.
A palette the last opponent left in the lobby (`left`) may come between once, for either side, at the
match's start or when it is found, and is gone with the match.
`MatchPalettes!ImplementsCostumes` is its specification under the mapping `playing <- scene = "match"`,
`yours <- OwnSlots`, `guest <- rival`, `left <- left`, `worn <- Worn`. `Worn` is read from memory as the game reads it,
through the byte, and is empty for a slot a packet was too early for (section 5) or whose characters are
loaded after the match has begun. A flip that leaves the
byte on the wrong one of the two colours, a palette that waited for the other slot or since an earlier
lobby, or a reset to something that was never picked, is a step `Costumes` does not have.

### OnlineMatch

`Network/RoomManager` and `NetworkManager` with the managers that exchange something about a match, on
the machines of all members of a room.

| model | code |
|---|---|
| `room`, `place` | external: the game's table of `RoomMemberEntry`, seen by all members at once |
| `scene[m]` | where member `m`'s game is; it drives `MatchState` as the hooks do |
| `known[m]` | `m_imPlayers`: at each seat the member known to have the mod |
| `packets` | sent and neither received nor lost; `Lose` takes any of them, `RecvPacket` takes them in any order |
| `RecvAnnounce`, `RecvAcknowledge`, `RecvPaletteDownloadPermissionPacket`, `RecvGameModePacket`, `RecvReplayUploadEnabledBroadcastPacket`, `Ignore` | the branches of `NetworkManager::RecvPacket`, with the gates `IsPacketFromSameRoom` and `IsPacketFromSameMatchNonSpectator` and the screen a mode packet needs |
| `Recipients`, `Pruned` | who `SendPacketToSameMatchIMPlayers` sends to, and whom it strikes off instead |
| `OnMatchInit`, `EnterVictory`, `OnMatchEnd` | `MatchState`'s three calls, each with all it changes in the managers |

`Pair` and `EnterCharacterSelect` are the game's. What is assumed of it: the table is the same on all
machines; one match at a time, in a room that is no free-for-all; a member leaves the match in the table
when its game goes back to the lobby. With one table for all, the gate `IsPacketFromSameRoom` never
refuses an announcement of a member who is in the room. What is assumed of Steam: a packet of a match is not delivered in
a later one, and none is once sender or receiver has left the room. Within a match, in the lobby
after it, and between announcements and everything else, any order and any loss is possible. `lost`,
`picked` and `heard` are history. The voice choice takes the same path as the permission and is left
out.

### MatchTerms

What the mods of a match's members agree on, with no packets, seats, lists of members, screens or rooms:
a machine plays a custom mode only when all who have a side of the match have picked it, settled once, when
it begins; takes a player's palettes to be free to keep, or not, only when that player says so; and knows
neither any more when the match is over. `OnlineMatch!ImplementsTerms` is its specification under the
mapping `playing <- Playing` (the machines that are in the match scene), `mode <- PlayedMode`,
`allowed <- KnownPermissions`; `place` and `picked` are themselves. Loss, delay, reordering and the strangers who
take over seats are gone; each packet but one of the permission, when its receiver plays, is a stutter.


## 3. The runs

| run | question | bounds |
|---|---|---|
| `bgm_pointers` | do the pointer table, rows, files and ini agree through every interleaving of clicks, conversions, results, restarts and refused writes? | two tracks, one under two table entries, each the other's song; two gains; every write may be refused; 3 conversions in a batch |
| `bgm_queue` | when two rows share the queue: do the counters account for it, does the last choice win, is nobody overtaken, does every conversion end, and does it all come down to the shelf? | two tracks with one entry each, a song that may vanish and each track as the other's song; one gain, no refused writes, 3 conversions in a batch |
| `bgm_undo` | a promise of the documentation that the code breaks (section 5) | as `bgm_queue` |
| `update_coordinator` | one apply at a time; nothing launched that is not whole; no apply that hangs; does the coordinator implement the handover? | two releases, two thread handles, a package of two files |
| `update_unasked` | is the release that gets installed the one that was asked for? | the same |
| `update_installer` | are the old files safe, is success true, does the DLL go first? | two releases, three files, any number of runs |
| `tas_editor` | do the screen and the keyframes hold what the list says, and can every edit be taken back, whatever is clicked when? | two inputs, movies of up to two frames, keyframe interval 1, a ring of two, undo depth 1 |
| `tas_screen`, `tas_recording` | two promises of the code's comments that it breaks (section 5) | the same, a ring of one |
| `match_palettes` | does the pick survive the mod's own switching of the colour byte, is the last choice shown, is the opponent spared, does the exchange end, and does it all come down to the costumes? | two colours, two opponents, the first side, one custom palette of each |
| `palette_pick` | a promise of the code's comments that an early packet breaks (section 5) | the same |
| `online_match` | is what a machine records of a permission, a mode or a refusal that player's own, who stays a stranger, and does it all come down to the terms? | three members, two seats, one custom mode, two packets in flight |

**Why the bounds are enough.** For the BGM manager the interesting cases need a job in flight and one
queued behind it for the same track (late results), a second track (whose jobs an undo must leave), a
duplicated entry whose writes are refused one by one, a song that vanishes while a row or a dialog holds its
name, and a shipped track as a song. They are spread over two runs, because together they exceed the five
minutes of a run: `bgm_pointers` has the duplicated entry, all refusals and two gains (a gain moved
while Active asks for the row again, which is what late results need), with each track as the other's
song, since a song that stays is all a refusal needs; `bgm_queue` has the vanishing song and the late
answers of the file dialog, and two rows with two sources each, so that a row can be asked for again
while the other waits behind it, which is what being overtaken and every step of `MusicShelf` need. Both check
`RowMatchesPointer` and the shelf; the proofs have them together. `MaxBatch`, the number of conversions asked for before the queue
runs dry, is the only counter bound; the queue empties and refills any number of times, and restarts
are not bounded. For the coordinator, two releases give "the one offered" and "the one picked", two
handles are what it takes for two applies to meet, two files give a stage that is half of each. The
installer needs a first file (the DLL), one after it, and one that may be absent.

For the TAS editor, two frames give a playhead with something behind and something ahead of it, an
edit on either side, and a seek that has a frame to go when the next click comes. An interval of 1 makes
every frame a keyframe, so that a ring of two wraps, is invalidated in part, and has a keyframe to
choose; a seek that starts from the base state and one from a keyframe both occur. Undo depth 1 lets an
edit, an undo and a redo each meet a full stack (the runs with depth 2, or interval 2 and three frames,
found nothing else and take too long to keep). `MaxMovie` is the model's only bound; the proofs have none.

For the palettes, two colours make the second switch index wrap at the last colour, a pick of the
other colour and a pick of the same; the second opponent is there so that a palette that waits from an
earlier match or from the lobby can be told from the present one's. Matches, rooms, rematches, picks,
packets and frames are not bounded. The player has the first side in the run; the proofs are about any
side and about spectators, and a run of the safety properties and the refinement with a spectator's seat
(4.5 million states) found nothing and takes too long to keep.

For the members of a room, two seats and three members make a stranger take over a seat, a side and an
opponent, in matches and rooms without end. Two packets in flight, in any mixture, give two packets of
one member that overtake each other, and packets that cross. With two seats nobody can watch: watchers
are covered by the proofs, and a simulation of random behaviours with three seats found nothing. The members that share
nothing and the seats are interchangeable, so symmetry is used: the run checks invariants and the
steps of a refinement whose mapping treats them alike, and no liveness.

**Fairness.** `bgm_queue` assumes weak fairness of `Update`, which `WindowManager.cpp:717` calls in
every frame, and of the conversion's end, one way or the other: `CustomMusicConverter` reads its input
to the end and returns. It assumes nothing of the user. `update_coordinator` assumes weak fairness of
each worker thread: the operating system runs it, and every network call has a time-out, so a step
either succeeds or takes `WorkerFails`. It does not assume that a download succeeds. `match_palettes` assumes weak fairness of
`Frame`, since the game draws frames, and of `Load`, since it loads the characters of a match it shows;
nothing of packets, opponents or the user. The other runs
have no fairness, and check only what holds after every step.

Each property is paired in PROJECT.json with a mutant of one mapped definition under which TLC finds it
violated by the same run.

## 4. The proofs

TLAPS proves, for every value of the constants that satisfies the named assumptions, with no bound on
tracks, songs, releases, files, threads or the length of a run:

**BgmReplacementProofs.** `TypeCorrect`, `PointerSafety`, `RowsTellThePointer`
(`Spec => []` of `TypeOK`, `PointerSafe`, `RowMatchesPointer`), for any set of entries that may refuse a
write. The inductive invariant is `TypeOK /\ PointerInv`. `PointerSafe` alone is not inductive, because a
late result or an undo deletes a file without looking at the table: `RowMatchesPointer` says that no entry
of an original or converting row is left at the file, but for the refused ones, and `OwnFile` that no entry
of another track ever was. `RestoreEffect` and `RedirectEffect` say what one restore or redirect does to each
entry, whatever is refused. Assumptions: `TableAssumption` (an entry's primary is its own primary) and
`ValueAssumption`.

**BgmQueueProofs.** `BatchIsAccounted`, `ConvertingRowsHaveJobs`, `ChosenSongPlays`,
`SettingsArePersistent`. The job in flight and the pending ones are one line: `Assign` appends to it,
`Update` takes its head, an undo takes the jobs of some tracks out of it and keeps the order of the
others (`Shortened`; that no other job is lost is a pigeonhole argument on the order-preserving function
of `CancelQueued`). `QueueInv` adds to the four properties what makes them inductive: of the jobs a
track has, the last is for what its row shows, unless the row knows of no file (`LastIsWanted`); a
finished file is that of its job, or an undo has deleted it (`ResultIsOfJob`); and an original row has
no song (`OriginalHasNoSource`). It was checked with TLC on the instances of `bgm_queue` and on one with
two tracks and three jobs before it was proved, and rests on `TypeOK /\ PointerInv`.

`WaitingRowsMoveUp` is the action property `WaitingRowsAdvance`: a row that waits is never put back. It is
proved on the line as well. What an undo leaves of the line has every surviving job no later than it was,
since an order-preserving map of the places that are left onto those that were cannot go below them
(`ShortenedMovesUp`, by the same pigeonhole argument); retiring the head moves everybody by one, and
appending moves nobody.

**BgmShelfProofs.** `ManagerImplementsShelf` is the refinement `Spec => ImplementsShelf`: one lemma for each
kind of step (`QueueingAsks`, `RejectingRefuses`, `UndoOnShelf`, `ConvertOnShelf`, `UpdateOnShelf`,
`RestartOnShelf`), put together in `ShelfStep`. The songs that are being made are described by `Waits` and
`Runs`, for which starting a job makes no difference (`StartKeepsMaking`) and an undo leaves those of other
tracks alone (`CancelDrops`). `UpdateOnShelf` needs `ResultIsOfJob` and `PointerInv`; `RestartOnShelf` needs
that what is patched is in the ini (`PointedAreSaved`), which holds because every action that patches ends
in `Save`.

**UpdateCoordinatorProofs.** `TypeCorrect`, `OneApplyAtATime`, `BusyEnds`, `WholePackage`. `SingleApply`
and `BusyMeansApplying` are inductive together with the fact that threads die with the game
(`ThreadsDieWithGame`). `WholePackage` needs `Staged`: a thread past the hash check has the bytes of its
own release, and every file it no longer has to unpack is already that release's; and that makes it
depend on `SingleApply`, since another thread would write into the same folder.

`CoordinatorImplementsHandover` is the refinement: the initial state maps to the abstract one, and
under that invariant every step maps to a step of `UpdateHandover` or to a stutter; the launch is the
step that needs `Staged`, for what is handed over to be one release.

**UpdateInstallerProofs.** `TypeCorrect`, `BackupsSuffice`, `SuccessInstallsAll`, `DllFirst`. The
inductive invariant adds `Progress`: before the copy loop nothing has been overwritten and the files
before `pos` have their backup; during it the files before `pos` are the new release's and all others
are untouched.

**TasEditorProofs.** `TypeCorrect`, `ScreenIsTheList`, `KeyframesAreTheList`, `UndoDepthIsKept`, and the
action property `EditsAreUndoable`. `ScreenShowsList` is not inductive: a match that is one frame short
of the playhead could be brought level with it by the next frame with the wrong input. `MovieInv` adds
that the match is never shorter than the playhead, that what is scheduled in a run is the movie's next
frame, that every keyframe fits in the same sense, and that without a base state the match is
`Elsewhere`. `ModeInv` says what an inactive editor has forgotten, and `StackInv` bounds the two
stacks by what they hand each other. The lemmas on `Spliced`, `Block` and `Neutrals` say which
frames of the list an edit leaves alone; `SeekFits`, `ResyncFits` and `RevertFits` carry that through a
seek, and there is one lemma for each group of actions. Assumption: `ConstantAssumption`.

**MatchPalettesProofs.** `TypeCorrect`, `PickIsRead`, `ChosenIsShown`, `OpponentsAreSpared`,
`QueueIsTheRivals`, `PalettesImplementCostumes`. The inductive invariant says of each slot, scene by scene, where the pick is: in the
byte from character select until the match reads it, in `orig` during the match, in both after the
restore (`KeepsPick`); that a slot that shows what was chosen has its byte on a switch index with
that palette under it (`Shows`); and what may be in character memory and in the backup (`Memory`),
without which a restored palette of this machine could end up on the opponent. `Queues` adds to
`QueueIsRivals` that `left` is what waits or nothing, so that outside rooms nothing is left either. Assumptions:
`MaxColorAssumption`, `PaletteAssumption`, `SeatAssumption`.

The refinement `PalettesImplementCostumes` first reads the abstract `worn` off that invariant: by `Shows`,
what the byte points to in a slot that is not early is what was chosen last (`WornIsChosen`), so that a
frame, a packet, a click and a reset can each be followed through `chosen` alone. `PacketsArrive` and
`FrameDresses` need `Queues` (what waits is the present rival's, or was left in the lobby and is found
once), `ResetUndresses` needs `KeepsPick` (the
backup is the pick, which is why undressing is a step of its own), and `MatchBegins` the order in which
`palettes.ini` is applied to both sides and taken back from one.

**OnlineMatchProofs.** `TypeCorrect`, `RoomsAreAcquainted`, `PermissionsAreTheirs`, `ModesNeedBoth`,
`RefusalsAreKept`, `RoomImplementsTerms`, for any members, seats, modes and packets in flight, and with watchers. `Sides`: each
side of a match is one player's, and whoever is past the lobby is in the match. `Truthful`: what is on
its way is still true of its sender. `ChosenByPlayers`: what is recorded at a match was chosen by the
player who now has that side; with `Truthful` it makes `ModeNeedsBoth` inductive. `AllAcquainted` is the
argument for `EveryoneIsKnown`: for every two occupied seats, the one member is known to the other, or
its announcement or acknowledgement is on its way, or the other's announcement, which will be
answered. Assumption: `NoneAssumption`.

`RoomImplementsTerms` is the refinement, one lemma for each step that is not a stutter (`PairMeets`,
`SelectPicks`, `InitBegins`, `VictoryStops`, `LobbyLeaves`, `PermissionLearned`), put together in `TermsStep`.
`InitBegins` rests on `ChosenByPlayers`, since the code compares two records and knows nothing of who made
them; `PermissionLearned` on `Truthful` and on `Sides`, since the sender may have left the match.

**Only model-checked.** Every safety invariant and action property of the passing runs is proved. The
liveness properties `ConversionEnds`, `ApplyEnds` and `ExchangeEnds` stay with TLC: liveness under
fairness and ENABLED are beyond this prover, as are induction over data and RECURSIVE operators.

## 5. Where code and documentation disagree

Each is a run whose one property states what the text says, and TLC's counterexample is a behaviour of
the code. `PROJECT.json` quotes the lines.

1. **Undo can leave the converted file behind** (`UndoDeletesFile`). Convert a song, remove the song's
   file, press Retry or move the slider, undo: the rejected re-assignment has forgotten the path.
2. **An update can install a release that was not asked for** (`NeverInstallsUnasked`). The check
   thread overwrites `m_update` between the two critical sections of an install.
3. **Deleting the last frames played leaves them on screen** (`EditsKeepScreen`). The playhead is moved
   before it is compared with the edit, so nothing is replayed.
4. **A recording that reaches its limit does not go back** (`RecordingGoesBack`). Its seek opens the frame
   gate from inside `Update`, one frame too short.
5. **A palette packet can change the pick** (`NeverReadsArtifact`). The opponent starts the match a moment
   earlier; its packet comes when this machine's characters are loaded and its match has not read the
   colour byte yet, and flips the byte to a switch index of the match before.

Number 3, and the fact that advancing continues from whatever the match is (after Resume or a
presentation's lead-in too), are why `ScreenShowsList` and `KeyframesShowList` speak only of a match that
has played as many frames as the playhead says: where the numbers differ the code has lost the match,
where they agree it never shows another combo. `ReadsThePick` leaves out the slots of number 5.

Seen while modelling, without a run of their own, most of them because no text promises otherwise:

* `Unassign` and `Assign` drop the result of `RestorePointer` (`BgmReplacementManager.cpp:279-292`) and go on
  to delete or replace the file, so a shipped name that Windows refuses to put back leaves an entry at a
  file that is gone, against what `ApplyPointer` calls the one rule that must never be broken; `PointerSafe` holds of every other entry. No text
  says what a refused write should do;
* a refused write of a duplicate is only not logged (256-263): the row is Active and the other entry of
  that filename plays the original. Refused at the row's own entry, the row is Failed and the duplicates
  stay redirected (264-270);
* the ini names a song before its conversion has replaced the file, so a restart in between pairs a new
  name with an old song;
* the results of the installer's own rollback copies are ignored;
* a game mode chosen before the opponent has reached character select is dropped there
  (`NetworkManager.cpp:92`) and never sent again, so that the two machines can start different modes
  with both players having chosen the same;
* a permission or voice packet that comes before the receiver's own match start is forgotten by it
  (`OnlinePaletteManager.cpp:151`);
* a palette packet that arrives in the lobby, after `OnMatchEnd` has cleared the queues, is let in
  (`RoomManager.cpp:318-326` finds two members without a match in the same one), queued by slot
  (`OnlinePaletteManager.cpp:50-55`) and, in the next match of that room, put on whoever has the slot:
  another opponent or the player. `QueueIsRivals` and `Costumes` admit exactly this through `left`;
* a spectator's queued palettes are not applied in that match (`OnlinePaletteManager.cpp:165`);
* a refusal that arrives when its match is over stays in force for the next one.


## 6. What is left out, and why

* Code without state that steps interact over: parsers, encoders, drawing, frame data and hitbox
  readers, settings, localization, wrappers, machine code patches.
* Decoding, loudness and encoding of audio: arithmetic on samples.
* Vendored code under `src/depends`.
* Inside the modelled parts: what each module's section above names.
* Parts that fit this method and are not modelled yet: section 7.

## 7. The plan

Order: what can damage the user's installation or files first, then what two machines have to agree
on, then single-machine features.

1. *(done)* `BgmReplacement`, `UpdateCoordinator`, `UpdateInstaller`, `TasEditor`, with proofs.
2. *(done)* `MatchPalettes` and `OnlineMatch` for what the machines of a room exchange; `UpdateHandover`, the
   abstract specification of the coordinator; with proofs. `MusicShelf`, `Costumes` and `MatchTerms`, the
   abstract specifications of `BgmReplacement`, `MatchPalettes` and `OnlineMatch`, each proved to be implemented.
3. **UpdateSystem**: composition of coordinator and installer under one abstract updater, which
   discharges the assumption between them inside one module.
4. **SnapshotSlots**: `SnapshotSlotPool` with replay rewind and the TAS editor as its owners.
5. **RankedList** (call results against a newer list), **UnlimitedPlayback**, **Jukebox**.
6. Pure algorithms against a reference definition: version comparison (`SemVersion.cpp`) and the ini
   merge of the installer.
