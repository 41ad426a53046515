------------------------------ MODULE TasEditor ------------------------------
(***************************************************************************)
(* Game/TasManager: the frame-by-frame combo editor of the training mode.  *)
(* A movie is a list of inputs; the match on screen is a saved base state  *)
(* from which the first m_playhead of them have been played.  To move      *)
(* back, the manager loads the base state, or a keyframe saved part-way,   *)
(* and lets the game simulate the frames in between, one gate opening per  *)
(* frame.  The windows, three hotkeys and the game's own freeze controls   *)
(* act between two frames; Update runs at the end of each.                 *)
(*                                                                         *)
(* The state of the match is abstracted to the inputs played since the     *)
(* base state, while they are as many as the playhead says, and to         *)
(* Elsewhere once they are not: nothing but loading a state makes them     *)
(* equal again.  A frame's input stands for both players'.                 *)
(***************************************************************************)
EXTENDS Integers, Sequences

CONSTANTS
  Input,             \* what both players can do in a frame
  Neutral,
  KeyframeInterval,  \* kKeyframeInterval, 60 in the code
  KeyframeSlots,     \* kTasSlotRequest - 1, 4 in the code
  UndoDepth,         \* kUndoDepth, 64 in the code
  MaxMovie,          \* bound of the model: frames a movie can grow to
  None,              \* no input scheduled, no keyframe
  Elsewhere          \* a match that has left the movie

ASSUME ConstantAssumption ==
  /\ Neutral \in Input /\ None \notin Input /\ Elsewhere \notin Seq(Input)
  /\ {KeyframeInterval, KeyframeSlots, UndoDepth} \subseteq Nat \ {0}
  /\ MaxMovie \in Nat

RunState == {"Idle", "PausedAtMovieFrame", "PresentationLeadIn", "PlayingMovie",
             "PresentationLeadOut", "ReplayingMovie"}
Slot == 0 .. KeyframeSlots - 1

VARIABLES
  m_active,
  m_movie,
  m_playhead,
  m_undoStack, m_redoStack,   \* movies with the playhead they were left at
  base,                       \* HasBaseSnapshot
  m_keyframes, m_nextKeyframeSlot,
  m_runState,
  m_runTarget,                \* kept while a run is going, 0 otherwise
  presenting,                 \* m_presentationMode, and with it m_playbackUiHidden
  m_liveRecording,
  m_liveRecordingReturnFrame,
  m_scheduledInput,           \* the override of the next frame; None: the players' own inputs
  isFrameFrozen,
  reach,                      \* framesToReach is ahead of the frame counter
  match,                      \* the inputs the match on screen has played since the base state
  deleting                    \* rows that DeleteSelection's loop has still to delete

list  == <<m_movie, m_playhead>>
stacks == <<m_undoStack, m_redoStack>>
keys  == <<m_keyframes, m_nextKeyframeSlot>>
run   == <<m_runState, m_runTarget, m_scheduledInput>>
live  == <<m_liveRecording, m_liveRecordingReturnFrame>>
gate  == <<isFrameFrozen, reach>>
modes == <<m_active, presenting>>
vars  == <<list, stacks, base, keys, run, live, gate, modes, match, deleting>>

IsPlaying == m_runState \in {"PresentationLeadIn", "PlayingMovie", "PresentationLeadOut"}
IsPlaybackRunning == IsPlaying \/ m_runState = "ReplayingMovie"
CanEditMovie == m_active /\ ~IsPlaybackRunning /\ ~m_liveRecording

\* The window and the input list take clicks unless a presentation hides them.
Window == m_active /\ ~presenting /\ deleting = {}
\* The sections of the window that need a base state and are off during a recording.
Ready == Window /\ base /\ ~m_liveRecording

-----------------------------------------------------------------------------
(* The list                                                                 *)

\* s with the count elements after the first index of them replaced by b.
Spliced(s, index, count, b) ==
  [k \in 1 .. Len(s) - count + Len(b) |->
     IF k <= index THEN s[k]
     ELSE IF k <= index + Len(b) THEN b[k - index] ELSE s[k - Len(b) + count]]

Neutrals(count) == [k \in 1 .. count |-> Neutral]
Block(index, count) == [k \in 1 .. count |-> m_movie[index + k]]
Clamped(frame, movie) == IF frame > Len(movie) THEN Len(movie) ELSE frame

Here == [movie |-> m_movie, playhead |-> m_playhead]

\* Slip: a new edit leaves the redo stack as it was.
PushKeepingRedo ==
  LET pushed == Append(m_undoStack, Here)
  IN  /\ m_undoStack' = IF Len(pushed) > UndoDepth THEN Tail(pushed) ELSE pushed
      /\ UNCHANGED m_redoStack

PushUndoState ==
  LET pushed == Append(m_undoStack, Here)
  IN  /\ m_undoStack' = IF Len(pushed) > UndoDepth THEN Tail(pushed) ELSE pushed
      /\ m_redoStack' = <<>>

-----------------------------------------------------------------------------
(* Keyframes                                                                *)

NoKeyframes == [k \in Slot |-> None]
ClearKeyframes == m_keyframes' = NoKeyframes /\ m_nextKeyframeSlot' = 0

\* Slip: off by one.
InvalidateKeyframesBehind(frame) ==
  [k \in Slot |-> IF m_keyframes[k] # None /\ m_keyframes[k].movieFrame > frame + 1
                  THEN None ELSE m_keyframes[k]]

InvalidateKeyframesAfter(frame) ==
  [k \in Slot |-> IF m_keyframes[k] # None /\ m_keyframes[k].movieFrame > frame
                  THEN None ELSE m_keyframes[k]]

\* The latest keyframe at or before a frame: the slots that hold it, none or one.
FindKeyframeFor(keyframes, frame) ==
  LET usable == {k \in Slot : keyframes[k] # None /\ keyframes[k].movieFrame <= frame}
  IN  {k \in usable : \A j \in usable : keyframes[j].movieFrame <= keyframes[k].movieFrame}

\* What a seek loads; the base state is the keyframe of frame 0.
Origin(keyframes, frame) ==
  IF FindKeyframeFor(keyframes, frame) = {}
  THEN [movieFrame |-> 0, saved |-> <<>>]
  ELSE keyframes[CHOOSE k \in FindKeyframeFor(keyframes, frame) : TRUE]

CaptureKeyframeIfDue(frame, state) ==
  IF frame % KeyframeInterval # 0
     \/ \E k \in Slot : m_keyframes[k] # None /\ m_keyframes[k].movieFrame = frame
  THEN UNCHANGED keys
  ELSE LET slot == m_nextKeyframeSlot % KeyframeSlots
       IN  /\ m_keyframes' = [m_keyframes EXCEPT ![slot] =
                                [movieFrame |-> frame, saved |-> state]]
           /\ m_nextKeyframeSlot' = slot + 1

-----------------------------------------------------------------------------
(* Runs.  BeginMovieRun opens the gate for one frame; a run that is started *)
(* from inside Update would need one more, because the frame counter is     *)
(* incremented right after it.                                              *)

BeginMovieRun(movie, from, target) ==
  /\ m_runState' = "ReplayingMovie" /\ m_runTarget' = target
  /\ m_scheduledInput' = movie[from + 1]
  /\ isFrameFrozen' = TRUE

Rest(state) ==
  /\ m_runState' = state /\ m_runTarget' = 0
  /\ m_scheduledInput' = None

SeekTo(movie, keyframes, target) ==
  LET frame == Clamped(target, movie)
      from == Origin(keyframes, frame)
  IN  /\ match' = from.saved
      /\ m_playhead' = from.movieFrame
      /\ IF from.movieFrame = frame
         THEN /\ Rest(IF movie = <<>> THEN "Idle" ELSE "PausedAtMovieFrame")
              /\ isFrameFrozen' = TRUE
         ELSE BeginMovieRun(movie, from.movieFrame, frame)

GateFollowsRun == reach' = (m_runState' = "ReplayingMovie")

\* Slip: an edit of the last frame played is taken for one at the playhead.
ResyncAfterLaterEdit(movie, playhead, first) ==
  /\ m_movie' = movie
  /\ m_keyframes' = InvalidateKeyframesAfter(first) /\ UNCHANGED m_nextKeyframeSlot
  /\ IF first + 1 < Clamped(playhead, movie) /\ base
     THEN SeekTo(movie, InvalidateKeyframesAfter(first), playhead) /\ GateFollowsRun
     ELSE m_playhead' = Clamped(playhead, movie) /\ UNCHANGED <<match, run, gate>>

\* first: how many leading frames the edit has left alone.
ResyncAfterEdit(movie, playhead, first) ==
  /\ m_movie' = movie
  /\ m_keyframes' = InvalidateKeyframesAfter(first) /\ UNCHANGED m_nextKeyframeSlot
  /\ IF first < Clamped(playhead, movie) /\ base
     THEN SeekTo(movie, InvalidateKeyframesAfter(first), playhead) /\ GateFollowsRun
     ELSE m_playhead' = Clamped(playhead, movie) /\ UNCHANGED <<match, run, gate>>

-----------------------------------------------------------------------------
(* The session                                                              *)

Reset ==
  /\ m_movie' = <<>> /\ m_playhead' = 0
  /\ Rest("Idle")
  /\ presenting' = FALSE

\* The game may already be frozen.  Neither Enter nor Exit touches the undo stacks.
Enter ==
  /\ ~m_active /\ m_active' = TRUE
  /\ Reset
  /\ isFrameFrozen' \in BOOLEAN
  /\ UNCHANGED <<stacks, base, keys, live, reach, match, deleting>>

\* A button, the closed window, or the end of the training match.
Exit ==
  /\ m_active /\ deleting = {} /\ m_active' = FALSE
  /\ Reset
  /\ m_liveRecording' = FALSE /\ m_liveRecordingReturnFrame' = 0
  /\ base' = FALSE /\ ClearKeyframes /\ match' = Elsewhere
  /\ isFrameFrozen' = FALSE /\ reach' = FALSE
  /\ UNCHANGED <<stacks, deleting>>

\* Off during a recording, but not during a run.
SaveBaseSnapshot ==
  /\ Window /\ ~m_liveRecording
  /\ base' = TRUE /\ match' = <<>> /\ ClearKeyframes
  /\ m_playhead' = 0 /\ m_runTarget' = 0 /\ m_scheduledInput' = None
  /\ isFrameFrozen' = TRUE /\ reach' = FALSE
  /\ UNCHANGED <<m_movie, stacks, m_runState, live, modes, deleting>>

LoadBaseSnapshot ==
  /\ Ready
  /\ match' = <<>>
  /\ m_playhead' = 0 /\ m_runTarget' = 0 /\ m_scheduledInput' = None
  /\ isFrameFrozen' = TRUE /\ reach' = FALSE
  /\ UNCHANGED <<m_movie, stacks, base, keys, m_runState, live, modes, deleting>>

ResumeGame ==
  /\ Ready
  /\ Rest(IF m_movie = <<>> THEN "Idle" ELSE "PausedAtMovieFrame")
  /\ isFrameFrozen' = FALSE /\ reach' = FALSE
  /\ UNCHANGED <<list, stacks, base, keys, live, modes, match, deleting>>

ResetMovie ==
  /\ Ready /\ ~IsPlaybackRunning /\ m_movie # <<>>
  /\ Reset
  /\ m_undoStack' = <<>> /\ m_redoStack' = <<>>
  /\ ClearKeyframes /\ match' = <<>>
  /\ isFrameFrozen' = TRUE /\ reach' = FALSE
  /\ UNCHANGED <<base, live, m_active, deleting>>

\* The file dialog's answer is taken whatever the editor is doing by then.
ImportMovie(movie) ==
  /\ Window /\ movie # <<>>
  /\ m_movie' = movie /\ m_playhead' = 0
  /\ Rest("Idle")
  /\ base' = FALSE /\ ClearKeyframes /\ match' = Elsewhere
  /\ UNCHANGED <<stacks, live, gate, modes, deleting>>

-----------------------------------------------------------------------------
(* Moving through the movie                                                 *)

\* The transport buttons and the scrub bar are off during a run, the rows of the list not.
SeekToFrame(target) ==
  /\ Ready /\ ~IsPlaying /\ m_movie # <<>>
  /\ m_runState = "ReplayingMovie" => target < Len(m_movie)
  /\ SeekTo(m_movie, m_keyframes, target) /\ GateFollowsRun
  /\ UNCHANGED <<m_movie, stacks, base, keys, live, modes, deleting>>

Extended(target) ==
  IF target > Len(m_movie)
  THEN Spliced(m_movie, Len(m_movie), 0, Neutrals(target - Len(m_movie)))
  ELSE m_movie

\* From wherever the match is.  The hotkey works during a recording, before the end.
AdvanceOrExtend(count) ==
  /\ Window /\ base /\ ~IsPlaybackRunning
  /\ m_liveRecording => m_playhead < Len(m_movie)
  /\ LET target == m_playhead + count
     IN  /\ target <= MaxMovie
         /\ m_movie' = Extended(target)
         /\ BeginMovieRun(Extended(target), m_playhead, target) /\ GateFollowsRun
  /\ UNCHANGED <<m_playhead, stacks, base, keys, live, modes, match, deleting>>

\* Commit and Advance: what was typed, then neutral, replaces all that follows the playhead.
EditAndAdvanceFrames(typed) ==
  /\ Ready /\ ~IsPlaybackRunning
  /\ LET end    == m_playhead + Len(typed)
         edited == Spliced(m_movie, m_playhead, Len(m_movie) - m_playhead, typed)
     IN  /\ end <= MaxMovie
         /\ m_movie' = edited
         /\ BeginMovieRun(edited, m_playhead, end) /\ GateFollowsRun
  /\ m_keyframes' = InvalidateKeyframesAfter(m_playhead)
  /\ PushUndoState
  /\ UNCHANGED <<m_playhead, base, m_nextKeyframeSlot, live, modes, match, deleting>>

-----------------------------------------------------------------------------
(* Structural edits, from the input list                                    *)

Edit == Window /\ CanEditMovie
EditLeaves == UNCHANGED <<base, live, modes, deleting>>

InsertNeutralFrames(index, count) ==
  /\ Edit /\ m_movie # <<>> /\ index <= Len(m_movie)
  /\ Len(m_movie) + count <= MaxMovie
  /\ PushUndoState
  /\ ResyncAfterEdit(Spliced(m_movie, index, 0, Neutrals(count)),
                     IF index <= m_playhead THEN m_playhead + count ELSE m_playhead, index)
  /\ EditLeaves

DuplicateFrames(index, count) ==
  /\ Edit /\ index + count <= Len(m_movie) /\ Len(m_movie) + count <= MaxMovie
  /\ PushUndoState
  /\ ResyncAfterEdit(Spliced(m_movie, index + count, 0, Block(index, count)),
                     m_playhead, index + count)
  /\ EditLeaves

SetFrameInput(index, input) ==
  /\ Edit /\ index < Len(m_movie)
  /\ PushUndoState
  /\ ResyncAfterEdit(Spliced(m_movie, index, 1, <<input>>), m_playhead, index)
  /\ EditLeaves

\* Dropping a block inside itself, or where it is, is refused.
MoveFrames(from, count, to) ==
  /\ Edit /\ from + count <= Len(m_movie) /\ to <= Len(m_movie)
  /\ to < from \/ to > from + count
  /\ PushUndoState
  /\ LET insertAt == IF to > from THEN to - count ELSE to
     IN  ResyncAfterEdit(
           Spliced(Spliced(m_movie, from, count, <<>>), insertAt, 0, Block(from, count)),
           m_playhead, IF from < insertAt THEN from ELSE insertAt)
  /\ EditLeaves

\* One row of the selection; a playhead inside the gap ends up at its start.
DeleteFrame(index) ==
  /\ PushUndoState
  /\ ResyncAfterEdit(Spliced(m_movie, index, 1, <<>>),
                     IF m_playhead > index THEN m_playhead - 1 ELSE m_playhead, index)

\* The loop goes from the last row to the first, while the game waits.
DeleteSelection(rows) ==
  /\ Window /\ rows # {}
  /\ deleting' = rows
  /\ UNCHANGED <<list, stacks, base, keys, run, live, gate, modes, match>>

\* Refused once an earlier row's deletion has started a seek.
DeleteNext(index) ==
  /\ index \in deleting /\ \A row \in deleting : row <= index
  /\ deleting' = deleting \ {index}
  /\ IF CanEditMovie /\ index < Len(m_movie)
     THEN DeleteFrame(index)
     ELSE UNCHANGED <<list, stacks, keys, run, gate, match>>
  /\ UNCHANGED <<base, live, modes>>

Revert(state) ==
  /\ m_movie' = state.movie
  /\ ClearKeyframes
  /\ LET playhead == Clamped(state.playhead, state.movie)
     IN  IF base THEN SeekTo(state.movie, NoKeyframes, playhead) /\ GateFollowsRun
         ELSE m_playhead' = playhead /\ UNCHANGED <<match, run, gate>>
  /\ EditLeaves

Last(stack) == stack[Len(stack)]
Popped(stack) == SubSeq(stack, 1, Len(stack) - 1)

\* Slip: what is undone cannot be redone.
UndoForGood ==
  /\ Edit /\ m_undoStack # <<>>
  /\ m_undoStack' = Popped(m_undoStack) /\ UNCHANGED m_redoStack
  /\ Revert(Last(m_undoStack))

Undo ==
  /\ Edit /\ m_undoStack # <<>>
  /\ m_redoStack' = Append(m_redoStack, Here)
  /\ m_undoStack' = Popped(m_undoStack)
  /\ Revert(Last(m_undoStack))

Redo ==
  /\ Edit /\ m_redoStack # <<>>
  /\ m_undoStack' = Append(m_undoStack, Here)
  /\ m_redoStack' = Popped(m_redoStack)
  /\ Revert(Last(m_redoStack))

-----------------------------------------------------------------------------
(* Playback and recording                                                   *)

StartMovieFrames(playhead) ==
  /\ m_runState' = "PlayingMovie" /\ m_runTarget' = Len(m_movie)
  /\ m_scheduledInput' = m_movie[playhead + 1]
  /\ isFrameFrozen' = FALSE /\ reach' = FALSE

CanPlay == Ready /\ ~IsPlaybackRunning /\ m_movie # <<>>

\* From the playhead, or from the base state when that is the end.
StartPreview ==
  /\ CanPlay
  /\ IF m_playhead < Len(m_movie)
     THEN StartMovieFrames(m_playhead) /\ UNCHANGED <<m_playhead, match>>
     ELSE StartMovieFrames(0) /\ m_playhead' = 0 /\ match' = <<>>
  /\ UNCHANGED <<m_movie, stacks, base, keys, live, modes, deleting>>

HoldNeutral(state) ==
  /\ m_runState' = state
  /\ m_scheduledInput' = Neutral
  /\ isFrameFrozen' = FALSE /\ reach' = FALSE

StartPresentation ==
  /\ CanPlay
  /\ presenting' = TRUE
  /\ m_playhead' = 0 /\ match' = <<>>
  /\ HoldNeutral("PresentationLeadIn") /\ m_runTarget' = Len(m_movie)
  /\ UNCHANGED <<m_movie, stacks, base, keys, live, m_active, deleting>>

\* A button, or the parse hotkey while the window is hidden.
StopPlayback ==
  /\ IsPlaying /\ (presenting \/ Ready)
  /\ presenting' = FALSE
  /\ Rest("PausedAtMovieFrame")
  /\ isFrameFrozen' = TRUE /\ reach' = FALSE
  /\ UNCHANGED <<list, stacks, base, keys, live, m_active, match, deleting>>

StartLiveRecording ==
  /\ Ready /\ ~IsPlaybackRunning
  /\ m_liveRecording' = TRUE /\ m_liveRecordingReturnFrame' = m_playhead
  /\ m_scheduledInput' = None
  /\ isFrameFrozen' = FALSE /\ reach' = FALSE
  /\ UNCHANGED <<list, stacks, base, keys, m_runState, m_runTarget, modes, match, deleting>>

\* The seek back is refused when an import has taken the base state away.
StopLiveRecording ==
  /\ m_liveRecording' = FALSE /\ m_liveRecordingReturnFrame' = 0
  /\ IF base THEN SeekTo(m_movie, m_keyframes, m_liveRecordingReturnFrame)
     ELSE m_scheduledInput' = None
          /\ UNCHANGED <<m_playhead, match, m_runState, m_runTarget, isFrameFrozen>>
  /\ UNCHANGED <<m_movie, stacks, base, keys, modes, deleting>>

ClickStopRecording ==
  /\ Window /\ base /\ m_liveRecording /\ ~IsPlaybackRunning
  /\ StopLiveRecording /\ GateFollowsRun

-----------------------------------------------------------------------------
(* A frame of the game, ending in Update                                    *)

GateOpen == m_active /\ deleting = {} /\ (~isFrameFrozen \/ reach)

\* The match after the frame.
Simulated ==
  IF m_scheduledInput = None \/ match = Elsewhere \/ Len(match) # m_playhead
  THEN Elsewhere
  ELSE Append(match, m_scheduledInput)

\* The players' own input is recorded; nothing else is looked at.
RecordFrame ==
  /\ GateOpen /\ m_liveRecording
  /\ match' = Simulated /\ m_scheduledInput' = None /\ reach' = FALSE
  /\ UNCHANGED <<list, stacks, base, keys, m_runState, m_runTarget, live, modes, isFrameFrozen,
                 deleting>>

\* The frame limit: the seek back starts inside Update, with the gate shut.
RecordingLimit ==
  /\ GateOpen /\ m_liveRecording
  /\ StopLiveRecording /\ reach' = FALSE

\* The match is left to the players, or to whoever holds a frame that no run counts.
FreeFrame ==
  /\ GateOpen /\ ~m_liveRecording /\ m_runState \in {"Idle", "PausedAtMovieFrame"}
  /\ match' = Simulated /\ reach' = FALSE
  /\ UNCHANGED <<list, stacks, base, keys, run, live, modes, isFrameFrozen, deleting>>

\* The lead-in lasts for at least one frame; its length is abstracted.
LeadInFrame ==
  /\ GateOpen /\ m_runState = "PresentationLeadIn"
  /\ match' = Simulated
  /\ \/ HoldNeutral("PresentationLeadIn") /\ UNCHANGED m_runTarget
     \/ StartMovieFrames(m_playhead)
  /\ UNCHANGED <<list, stacks, base, keys, live, modes, deleting>>

\* At its end the match runs on or, as the user's m_autoLoadAfterPlayback says, is taken back.
LeadOutFrame ==
  /\ GateOpen /\ m_runState = "PresentationLeadOut"
  /\ \/ /\ HoldNeutral("PresentationLeadOut")
        /\ match' = Simulated
        /\ UNCHANGED <<m_playhead, m_runTarget, presenting>>
     \/ /\ presenting' = FALSE
        /\ \/ /\ Rest("Idle") /\ isFrameFrozen' = FALSE
              /\ match' = Simulated /\ UNCHANGED m_playhead
           \/ /\ base
              /\ Rest("PausedAtMovieFrame") /\ isFrameFrozen' = TRUE
              /\ m_playhead' = 0 /\ match' = <<>>
        /\ reach' = FALSE
  /\ UNCHANGED <<m_movie, stacks, base, keys, live, m_active, deleting>>

\* After the last frame a presentation holds neutral, any other run freezes.
EndRun(playhead) ==
  IF m_runState = "PlayingMovie" /\ playhead >= Len(m_movie) /\ presenting
  THEN HoldNeutral("PresentationLeadOut") /\ m_runTarget' = 0
  ELSE Rest("PausedAtMovieFrame") /\ isFrameFrozen' = TRUE /\ reach' = FALSE

ContinueRun(playhead) ==
  /\ m_scheduledInput' = m_movie[playhead + 1]
  /\ isFrameFrozen' = (m_runState = "ReplayingMovie")
  /\ reach' = (m_runState = "ReplayingMovie")
  /\ UNCHANGED <<m_runState, m_runTarget>>

MovieFrame ==
  /\ GateOpen /\ ~m_liveRecording /\ m_runState \in {"PlayingMovie", "ReplayingMovie"}
  /\ LET playhead == m_playhead + 1
     IN  /\ m_playhead' = playhead
         /\ match' = Simulated
         /\ CaptureKeyframeIfDue(playhead, Simulated)
         /\ IF playhead >= m_runTarget \/ playhead >= Len(m_movie)
            THEN EndRun(playhead) ELSE ContinueRun(playhead)
  /\ UNCHANGED <<m_movie, stacks, base, live, modes, deleting>>

\* The freeze controls of the overlay page: freeze, step, reset the frame counter.
FreezeControls ==
  /\ m_active /\ deleting = {}
  /\ \/ isFrameFrozen' = ~isFrameFrozen /\ UNCHANGED reach
     \/ isFrameFrozen /\ reach' = TRUE /\ UNCHANGED isFrameFrozen
     \/ reach' = FALSE /\ UNCHANGED isFrameFrozen
  /\ UNCHANGED <<list, stacks, base, keys, run, live, modes, match, deleting>>

-----------------------------------------------------------------------------
Init ==
  /\ m_active = FALSE /\ m_movie = <<>> /\ m_playhead = 0
  /\ m_undoStack = <<>> /\ m_redoStack = <<>>
  /\ base = FALSE /\ m_keyframes = NoKeyframes /\ m_nextKeyframeSlot = 0
  /\ m_runState = "Idle" /\ m_runTarget = 0 /\ m_scheduledInput = None
  /\ presenting = FALSE
  /\ m_liveRecording = FALSE /\ m_liveRecordingReturnFrame = 0
  /\ isFrameFrozen = FALSE /\ reach = FALSE
  /\ match = Elsewhere /\ deleting = {}

Count == 1 .. MaxMovie
Index == 0 .. MaxMovie
Movies == UNION {[1 .. n -> Input] : n \in Count}

SessionStep ==
  \/ Enter \/ Exit \/ SaveBaseSnapshot \/ LoadBaseSnapshot \/ ResumeGame \/ ResetMovie
  \/ \E movie \in Movies : ImportMovie(movie)

MoveStep ==
  \/ \E target \in 0 .. Len(m_movie) : SeekToFrame(target)
  \/ \E count \in Count : AdvanceOrExtend(count)

EditStep ==
  \/ \E typed \in Movies : EditAndAdvanceFrames(typed)
  \/ \E index \in Index : \/ \E count \in Count : InsertNeutralFrames(index, count)
                          \/ \E count \in Count : DuplicateFrames(index, count)
                          \/ \E input \in Input : SetFrameInput(index, input)
                          \/ \E count \in Count, to \in Index : MoveFrames(index, count, to)
                          \/ DeleteNext(index)
  \/ \E rows \in SUBSET (0 .. Len(m_movie) - 1) : DeleteSelection(rows)
  \/ Undo \/ Redo

PlayStep ==
  \/ StartPreview \/ StartPresentation \/ StopPlayback
  \/ StartLiveRecording \/ ClickStopRecording

Frame == RecordFrame \/ RecordingLimit \/ FreeFrame \/ LeadInFrame \/ LeadOutFrame \/ MovieFrame

Next == SessionStep \/ MoveStep \/ EditStep \/ PlayStep \/ Frame \/ FreezeControls

Spec == Init /\ [][Next]_vars

-----------------------------------------------------------------------------
(* Properties                                                               *)

Place == [movie : Seq(Input), playhead : Nat]
Keyframe == [movieFrame : Nat \ {0}, saved : Seq(Input) \cup {Elsewhere}]

\* Types, and that no index outlives what it points into: the playhead and every keyframe
\* are within the movie, and a run that counts frames has one left to play.
TypeOK ==
  /\ m_movie \in Seq(Input) /\ m_playhead \in 0 .. Len(m_movie)
  /\ m_undoStack \in Seq(Place) /\ m_redoStack \in Seq(Place)
  /\ m_keyframes \in [Slot -> Keyframe \cup {None}]
  /\ m_nextKeyframeSlot \in 0 .. KeyframeSlots
  /\ \A k \in Slot : m_keyframes[k] # None => m_keyframes[k].movieFrame <= Len(m_movie)
  /\ m_runState \in RunState /\ m_runTarget \in Nat
  /\ m_runState \in {"PresentationLeadIn", "PlayingMovie", "ReplayingMovie"}
       => m_playhead < Len(m_movie)
  /\ m_scheduledInput \in Input \cup {None}
  /\ {m_active, base, presenting, m_liveRecording,
      isFrameFrozen, reach} \subseteq BOOLEAN
  /\ m_liveRecordingReturnFrame \in Nat
  /\ match \in Seq(Input) \cup {Elsewhere}
  /\ deleting \subseteq Nat

\* The state was reached by the first frames of the list, if by that many at all.
Shows(state, frames) ==
  state # Elsewhere /\ Len(state) = frames => \A i \in 1 .. frames : state[i] = m_movie[i]

\* "What is on screen still matches the list": a match that has played as many frames since
\* the base state as the playhead says has played the list's, whatever was edited behind or
\* ahead of the playhead, undone, or scrubbed to from a keyframe.
ScreenShowsList == Shows(match, m_playhead)

\* The same of every keyframe, which outlives the edits, runs and undos that follow it.
KeyframesShowList ==
  \A k \in Slot : m_keyframes[k] # None => Shows(m_keyframes[k].saved, m_keyframes[k].movieFrame)

\* The undo and redo stacks together hold no more than kUndoDepth movies, although only
\* PushUndoState trims, and only one of them.
UndoDepthKept == Len(m_undoStack) + Len(m_redoStack) <= UndoDepth

Extends(longer, movie) ==
  Len(movie) <= Len(longer) /\ \A i \in 1 .. Len(movie) : longer[i] = movie[i]

CanBeTakenBack ==
  \/ Extends(m_movie', m_movie)
  \/ \E stack \in {m_undoStack', m_redoStack'} : stack # <<>> /\ Last(stack) = Here
  \/ Exit \/ ResetMovie \/ ImportMovie(m_movie')

\* "All of them are undoable", and moving forward "never destroys anything": a step that
\* changes or drops a frame of the movie leaves the old one on top of a stack, unless the
\* movie is given up as a whole.
EditsCanBeTakenBack == [][CanBeTakenBack]_vars

ScreenIsList == match = SubSeq(m_movie, 1, m_playhead)

\* "Editing at or after the playhead costs nothing; editing behind it re-seeks so what is on
\* screen still matches the list": a change of the list that finds the list on screen leaves
\* the list on screen.
EditsKeepScreen ==
  [][m_movie' # m_movie /\ base /\ base' /\ ScreenIsList => ScreenIsList']_vars

\* "The match goes back to where the editor left it": a recording that ends leaves a match
\* that is there, or a seek whose gate is open to get there.
RecordingGoesBack ==
  [][m_liveRecording /\ ~m_liveRecording' /\ base' /\ m_runState' = "ReplayingMovie"
       => reach' \/ ~isFrameFrozen']_vars
=============================================================================
