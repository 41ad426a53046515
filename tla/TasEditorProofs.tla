--------------------------- MODULE TasEditorProofs ---------------------------
(***************************************************************************)
(* Proofs about TasEditor, for any inputs, any keyframe interval and ring, *)
(* any undo depth and any length of movie.                                 *)
(***************************************************************************)
EXTENDS TasEditor, SequenceTheorems, TLAPS

-----------------------------------------------------------------------------
(* The list                                                                 *)

LEMMA SizesArePositive ==
  KeyframeInterval \in Nat \ {0} /\ KeyframeSlots \in Nat \ {0} /\ UndoDepth \in Nat \ {0}
BY ConstantAssumption

LEMMA MovieBoundType == MaxMovie \in Nat
BY ConstantAssumption

\* Two lists have the same first frames.
SameFrames(movie, other, first) == \A k \in 1 .. first : movie[k] = other[k]

\* A list built by index is a sequence of its elements.
LEMMA BuiltSeq ==
  ASSUME NEW S, NEW n \in Nat, NEW e \in [1 .. n -> S]
  PROVE  /\ e \in Seq(S) /\ Len(e) = n
OBVIOUS

LEMMA SplicedProperties ==
  ASSUME NEW s \in Seq(Input), NEW b \in Seq(Input), NEW count \in Nat,
         NEW index \in Nat, index + count <= Len(s)
  PROVE  /\ Spliced(s, index, count, b) \in Seq(Input)
         /\ Len(Spliced(s, index, count, b)) = Len(s) - count + Len(b)
         /\ SameFrames(Spliced(s, index, count, b), s, index)
<1> DEFINE n == Len(s) - count + Len(b)
<1>1. n \in Nat /\ index <= n BY LenProperties
<1>2. ASSUME NEW k \in 1 .. n
      PROVE  (IF k <= index THEN s[k]
              ELSE IF k <= index + Len(b) THEN b[k - index] ELSE s[k - Len(b) + count]) \in Input
  BY <1>1, <1>2, LenProperties, ElementOfSeq
<1>3. Spliced(s, index, count, b) \in [1 .. n -> Input]
  BY <1>2 DEF Spliced
<1>4. SameFrames(Spliced(s, index, count, b), s, index)
  BY <1>1 DEF Spliced, SameFrames
<1> HIDE DEF n
<1>5. Spliced(s, index, count, b) \in Seq(Input) /\ Len(Spliced(s, index, count, b)) = n
  BY <1>1, <1>3, BuiltSeq
<1> QED BY <1>4, <1>5 DEF n

\* Frames that are only put in.
LEMMA InsertedProperties ==
  ASSUME NEW s \in Seq(Input), NEW b \in Seq(Input), NEW index \in Nat, index <= Len(s)
  PROVE  /\ Spliced(s, index, 0, b) \in Seq(Input)
         /\ Len(Spliced(s, index, 0, b)) = Len(s) + Len(b)
         /\ SameFrames(Spliced(s, index, 0, b), s, index)
<1>1. Len(s) \in Nat /\ Len(b) \in Nat /\ 0 \in Nat /\ index + 0 <= Len(s) BY LenProperties
<1>2. ASSUME NEW count \in Nat, count = 0
      PROVE  /\ Spliced(s, index, count, b) \in Seq(Input)
             /\ Len(Spliced(s, index, count, b)) = Len(s) + Len(b)
             /\ SameFrames(Spliced(s, index, count, b), s, index)
  <2>1. index + count <= Len(s) /\ Len(s) - count + Len(b) = Len(s) + Len(b) BY <1>1, <1>2
  <2>2. /\ Spliced(s, index, count, b) \in Seq(Input)
        /\ Len(Spliced(s, index, count, b)) = Len(s) - count + Len(b)
        /\ SameFrames(Spliced(s, index, count, b), s, index)
    BY <2>1, SplicedProperties
  <2> QED BY <2>1, <2>2
<1> QED BY <1>2

LEMMA NeutralsType ==
  ASSUME NEW count \in Nat
  PROVE  Neutrals(count) \in Seq(Input) /\ Len(Neutrals(count)) = count
<1>1. Neutrals(count) \in [1 .. count -> Input] BY ConstantAssumption DEF Neutrals
<1> QED BY <1>1, BuiltSeq

LEMMA BlockType ==
  ASSUME m_movie \in Seq(Input), NEW index \in Nat, NEW count \in Nat,
         index + count <= Len(m_movie)
  PROVE  Block(index, count) \in Seq(Input) /\ Len(Block(index, count)) = count
<1>1. ASSUME NEW k \in 1 .. count PROVE m_movie[index + k] \in Input
  BY LenProperties, ElementOfSeq
<1>2. Block(index, count) \in [1 .. count -> Input] BY <1>1 DEF Block
<1> QED BY <1>2, BuiltSeq
-----------------------------------------------------------------------------
(* The inductive invariant.  It speaks of a movie, a playhead and a set of  *)
(* keyframes as parameters, so that an edit can be followed from the old    *)
(* movie to the new one.                                                    *)

\* A keyframe was saved at its frame of the movie, by the frames before it.
Fits(keyframe, movie) ==
  /\ keyframe.movieFrame <= Len(movie)
  /\ keyframe.saved # Elsewhere =>
       /\ Len(keyframe.saved) = keyframe.movieFrame
       /\ \A i \in 1 .. keyframe.movieFrame : keyframe.saved[i] = movie[i]

KeysFit(keyframes, movie) ==
  /\ keyframes \in [Slot -> Keyframe \cup {None}]
  /\ \A k \in Slot : keyframes[k] # None => Fits(keyframes[k], movie)

\* The match is never short of the playhead, and where it is level it has played the movie.
OnScreen(state, playhead, movie) ==
  /\ state \in Seq(Input) \cup {Elsewhere}
  /\ state # Elsewhere =>
       /\ Len(state) >= playhead
       /\ Len(state) = playhead => \A i \in 1 .. playhead : state[i] = movie[i]

\* A run has a frame to play, and it is the one scheduled.
RunFits(state, playhead, scheduled, movie) ==
  /\ state \in {"PresentationLeadIn", "PlayingMovie", "ReplayingMovie"} => playhead < Len(movie)
  /\ state \in {"PlayingMovie", "ReplayingMovie"} => scheduled \in {None, movie[playhead + 1]}

MovieInv ==
  /\ m_movie \in Seq(Input) /\ m_playhead \in 0 .. Len(m_movie)
  /\ KeysFit(m_keyframes, m_movie)
  /\ OnScreen(match, m_playhead, m_movie)
  /\ RunFits(m_runState, m_playhead, m_scheduledInput, m_movie)
  /\ ~base => match = Elsewhere
  /\ ~m_active => m_movie = <<>> /\ m_keyframes = NoKeyframes /\ deleting = {}

StackInv ==
  /\ m_undoStack \in Seq(Place) /\ m_redoStack \in Seq(Place)
  /\ UndoDepthKept

ModeInv ==
  /\ m_nextKeyframeSlot \in 0 .. KeyframeSlots
  /\ m_runState \in RunState /\ m_runTarget \in Nat
  /\ m_scheduledInput \in Input \cup {None}
  /\ m_active \in BOOLEAN /\ base \in BOOLEAN /\ presenting \in BOOLEAN
  /\ m_liveRecording \in BOOLEAN /\ isFrameFrozen \in BOOLEAN /\ reach \in BOOLEAN
  /\ m_liveRecordingReturnFrame \in Nat
  /\ deleting \subseteq Nat

Inv == MovieInv /\ StackInv /\ ModeInv

LEMMA NoKeyframesFit ==
  ASSUME NEW movie
  PROVE  KeysFit(NoKeyframes, movie)
BY DEF KeysFit, NoKeyframes

\* What the invariant says is what the model's properties say.
LEMMA InvImplies == Inv => TypeOK /\ ScreenShowsList /\ KeyframesShowList /\ UndoDepthKept
<1> SUFFICES ASSUME Inv PROVE TypeOK /\ ScreenShowsList /\ KeyframesShowList /\ UndoDepthKept
  OBVIOUS
<1>1. \A k \in Slot : m_keyframes[k] # None => m_keyframes[k].movieFrame <= Len(m_movie)
  BY DEF Inv, MovieInv, KeysFit, Fits
<1>2. TypeOK
  BY <1>1 DEF Inv, MovieInv, StackInv, ModeInv, KeysFit, OnScreen, RunFits, TypeOK
<1>3. ScreenShowsList
  BY DEF Inv, MovieInv, OnScreen, ScreenShowsList, Shows
<1>4. KeyframesShowList
  BY DEF Inv, MovieInv, KeysFit, Fits, KeyframesShowList, Shows
<1> QED BY <1>2, <1>3, <1>4 DEF Inv, StackInv

LEMMA InitInv == Init => Inv
<1> SUFFICES ASSUME Init PROVE Inv OBVIOUS
<1>1. MovieInv
  BY NoKeyframesFit DEF Init, MovieInv, OnScreen, RunFits
<1>2. StackInv BY SizesArePositive DEF Init, StackInv, UndoDepthKept
<1>3. ModeInv
  <2>1. 0 \in 0 .. KeyframeSlots BY SizesArePositive
  <2> QED BY <2>1 DEF Init, ModeInv, RunState
<1> QED BY <1>1, <1>2, <1>3 DEF Inv

-----------------------------------------------------------------------------
(* Seeking                                                                  *)

\* The origin of a seek is at or before its target and was reached by the movie.
LEMMA OriginFits ==
  ASSUME NEW movie \in Seq(Input), NEW keyframes, KeysFit(keyframes, movie),
         NEW frame \in 0 .. Len(movie)
  PROVE  /\ Origin(keyframes, frame).movieFrame \in 0 .. frame
         /\ OnScreen(Origin(keyframes, frame).saved, Origin(keyframes, frame).movieFrame, movie)
<1> DEFINE slots == FindKeyframeFor(keyframes, frame)
           chosen == CHOOSE k \in slots : TRUE
<1>1. CASE slots = {}
  BY <1>1 DEF Origin, OnScreen
<1>2. CASE slots # {}
  <2>1. chosen \in slots BY <1>2
  <2>2. /\ chosen \in Slot /\ keyframes[chosen] # None
        /\ keyframes[chosen].movieFrame <= frame
    BY <2>1 DEF FindKeyframeFor
  <2>3. keyframes[chosen] \in Keyframe /\ Fits(keyframes[chosen], movie)
    BY <2>2 DEF KeysFit
  <2>4. Origin(keyframes, frame) = keyframes[chosen]
    BY <1>2 DEF Origin
  <2> HIDE DEF slots, chosen
  <2> QED BY <2>2, <2>3, <2>4 DEF Keyframe, Fits, OnScreen
<1> QED BY <1>1, <1>2

LEMMA ClampedFits ==
  ASSUME NEW movie \in Seq(Input), NEW target \in Nat
  PROVE  Clamped(target, movie) \in 0 .. Len(movie)
BY LenProperties DEF Clamped

\* A seek leaves the match at a frame it has played, and a run only with frames to go.
LEMMA SeekFits ==
  ASSUME NEW movie \in Seq(Input), NEW keyframes, KeysFit(keyframes, movie),
         NEW target \in Nat, SeekTo(movie, keyframes, target)
  PROVE  /\ m_playhead' \in 0 .. Len(movie)
         /\ OnScreen(match', m_playhead', movie)
         /\ RunFits(m_runState', m_playhead', m_scheduledInput', movie)
         /\ m_runState' \in RunState /\ m_runTarget' \in Nat
         /\ m_scheduledInput' \in Input \cup {None}
         /\ isFrameFrozen' \in BOOLEAN
<1> DEFINE frame == Clamped(target, movie)
           from  == Origin(keyframes, frame)
<1>1. frame \in 0 .. Len(movie) BY ClampedFits
<1>2. from.movieFrame \in 0 .. frame /\ OnScreen(from.saved, from.movieFrame, movie)
  BY <1>1, OriginFits
<1>3. match' = from.saved /\ m_playhead' = from.movieFrame
  BY DEF SeekTo
<1>4. CASE from.movieFrame = frame
  BY <1>1, <1>2, <1>3, <1>4, LenProperties DEF SeekTo, Rest, RunFits, RunState
<1>5. CASE from.movieFrame # frame
  <2>1. BeginMovieRun(movie, from.movieFrame, frame) BY <1>5 DEF SeekTo
  <2>2. from.movieFrame + 1 \in 1 .. Len(movie) BY <1>1, <1>2, <1>5, LenProperties
  <2>3. movie[from.movieFrame + 1] \in Input BY <2>2, ElementOfSeq
  <2> HIDE DEF frame, from
  <2> QED BY <1>1, <1>2, <1>3, <2>1, <2>2, <2>3, LenProperties DEF BeginMovieRun, RunFits, RunState
<1> QED BY <1>4, <1>5
-----------------------------------------------------------------------------
(* Edits                                                                    *)

LEMMA GateType == GateFollowsRun => reach' \in BOOLEAN
BY Zenon DEF GateFollowsRun

LEMMA KeptKeysFit ==
  ASSUME NEW movie \in Seq(Input), m_movie \in Seq(Input), KeysFit(m_keyframes, m_movie),
         NEW first \in 0 .. Len(movie), SameFrames(movie, m_movie, first)
  PROVE  KeysFit(InvalidateKeyframesAfter(first), movie)
<1> DEFINE kept == InvalidateKeyframesAfter(first)
<1>1. kept \in [Slot -> Keyframe \cup {None}]
  BY DEF KeysFit, InvalidateKeyframesAfter
<1>2. ASSUME NEW k \in Slot, kept[k] # None
      PROVE  Fits(kept[k], movie)
  <2>1. kept[k] = m_keyframes[k] /\ m_keyframes[k] # None /\ ~(m_keyframes[k].movieFrame > first)
    BY <1>2 DEF InvalidateKeyframesAfter
  <2>2. m_keyframes[k] \in Keyframe /\ Fits(m_keyframes[k], m_movie)
    BY <2>1 DEF KeysFit
  <2>3. m_keyframes[k].movieFrame \in Nat /\ Len(movie) \in Nat
    BY <2>2, LenProperties DEF Keyframe
  <2> HIDE DEF kept
  <2> QED BY <2>1, <2>2, <2>3 DEF Fits, SameFrames
<1> QED BY <1>1, <1>2 DEF KeysFit

\* An edit that leaves the first frames alone, and moves the playhead back or behind its seek.
LEMMA ResyncFits ==
  ASSUME MovieInv, ModeInv, CanEditMovie, NEW movie \in Seq(Input), NEW playhead \in Nat,
         NEW first \in 0 .. Len(movie), SameFrames(movie, m_movie, first),
         playhead <= m_playhead \/ first < Clamped(playhead, movie),
         ResyncAfterEdit(movie, playhead, first), UNCHANGED <<base, live, modes>>,
         deleting' \subseteq Nat
  PROVE  MovieInv' /\ ModeInv'
<1> DEFINE kept == InvalidateKeyframesAfter(first)
<1>1. KeysFit(kept, movie) BY KeptKeysFit DEF MovieInv
<1>2. m_movie' = movie /\ m_keyframes' = kept /\ m_nextKeyframeSlot' = m_nextKeyframeSlot
  BY DEF ResyncAfterEdit
<1>3. Clamped(playhead, movie) \in 0 .. Len(movie) BY ClampedFits
<1>4. m_active /\ m_active' BY DEF CanEditMovie, modes
<1> HIDE DEF kept
<1>5. CASE first < Clamped(playhead, movie) /\ base
  <2>1. SeekTo(movie, kept, playhead) /\ GateFollowsRun BY <1>5 DEF ResyncAfterEdit, kept
  <2>2. /\ m_playhead' \in 0 .. Len(movie)
        /\ OnScreen(match', m_playhead', movie)
        /\ RunFits(m_runState', m_playhead', m_scheduledInput', movie)
        /\ m_runState' \in RunState /\ m_runTarget' \in Nat
        /\ m_scheduledInput' \in Input \cup {None} /\ isFrameFrozen' \in BOOLEAN
    BY <1>1, <2>1, SeekFits
  <2>3. reach' \in BOOLEAN BY <2>1, GateType
  <2>4. MovieInv' BY <1>1, <1>2, <1>4, <1>5, <2>2 DEF MovieInv
  <2>5. ModeInv' BY <1>2, <2>2, <2>3 DEF ModeInv, live, modes
  <2> QED BY <2>4, <2>5
<1>6. CASE ~(first < Clamped(playhead, movie) /\ base)
  <2>1. m_playhead' = Clamped(playhead, movie) /\ UNCHANGED <<match, run, gate>>
    BY <1>6 DEF ResyncAfterEdit
  <2>2. RunFits(m_runState', m_playhead', m_scheduledInput', movie)
    BY <2>1 DEF CanEditMovie, IsPlaybackRunning, IsPlaying, RunFits, run
  <2>3. OnScreen(match, Clamped(playhead, movie), movie)
    <3>1. CASE match = Elsewhere BY <3>1 DEF OnScreen
    <3>2. CASE match # Elsewhere
      <4>1. /\ match \in Seq(Input) /\ Len(match) >= m_playhead
            /\ Len(match) = m_playhead => \A i \in 1 .. m_playhead : match[i] = m_movie[i]
        BY <3>2 DEF MovieInv, OnScreen
      <4>2. Clamped(playhead, movie) <= first /\ playhead <= m_playhead
        BY <1>3, <1>6, <3>2, LenProperties DEF MovieInv
      <4>3. Clamped(playhead, movie) <= playhead
        BY LenProperties DEF Clamped
      <4>4. Len(match) \in Nat /\ m_playhead \in Nat
        BY <4>1, LenProperties DEF MovieInv
      <4>5. Len(match) >= Clamped(playhead, movie)
        BY <1>3, <4>1, <4>2, <4>3, <4>4
      <4>6. ASSUME Len(match) = Clamped(playhead, movie), NEW i \in 1 .. Clamped(playhead, movie)
            PROVE  match[i] = movie[i]
        BY <1>3, <4>1, <4>2, <4>3, <4>4, <4>6 DEF SameFrames
      <4> QED BY <4>1, <4>5, <4>6 DEF OnScreen
    <3> QED BY <3>1, <3>2
  <2>4. MovieInv' BY <1>1, <1>2, <1>3, <1>4, <2>1, <2>2, <2>3 DEF MovieInv
  <2>5. ModeInv' BY <1>2, <2>1 DEF ModeInv, live, modes, run, gate
  <2> QED BY <2>4, <2>5
<1> QED BY <1>5, <1>6

LEMMA RevertFits ==
  ASSUME MovieInv, ModeInv, CanEditMovie, NEW state \in Place, Revert(state)
  PROVE  MovieInv' /\ ModeInv'
<1> DEFINE playhead == Clamped(state.playhead, state.movie)
<1>1. state.movie \in Seq(Input) /\ state.playhead \in Nat BY DEF Place
<1>2. playhead \in 0 .. Len(state.movie) BY <1>1, ClampedFits
<1>3. /\ m_movie' = state.movie /\ m_keyframes' = NoKeyframes /\ m_nextKeyframeSlot' = 0
      /\ UNCHANGED <<base, live, modes, deleting>>
  BY DEF Revert, ClearKeyframes, EditLeaves
<1>4. m_active' BY <1>3 DEF CanEditMovie, modes
<1>5. 0 \in 0 .. KeyframeSlots BY SizesArePositive
<1>6. CASE base
  <2>1. SeekTo(state.movie, NoKeyframes, playhead) /\ GateFollowsRun BY <1>6 DEF Revert
  <2>0. playhead \in Nat BY <1>1, <1>2, LenProperties
  <2> HIDE DEF playhead
  <2>2. /\ m_playhead' \in 0 .. Len(state.movie)
        /\ OnScreen(match', m_playhead', state.movie)
        /\ RunFits(m_runState', m_playhead', m_scheduledInput', state.movie)
        /\ m_runState' \in RunState /\ m_runTarget' \in Nat
        /\ m_scheduledInput' \in Input \cup {None} /\ isFrameFrozen' \in BOOLEAN
    BY <1>1, <2>0, <2>1, NoKeyframesFit, SeekFits
  <2>3. reach' \in BOOLEAN BY <2>1, GateType
  <2>4. MovieInv' BY <1>1, <1>3, <1>4, <1>6, <2>2, NoKeyframesFit DEF MovieInv
  <2>5. ModeInv' BY <1>3, <1>5, <2>2, <2>3 DEF ModeInv, live, modes
  <2> QED BY <2>4, <2>5
<1>7. CASE ~base
  <2>1. m_playhead' = playhead /\ UNCHANGED <<match, run, gate>> BY <1>7 DEF Revert
  <2>2. OnScreen(match', m_playhead', m_movie') BY <1>7, <2>1 DEF MovieInv, OnScreen
  <2>3. RunFits(m_runState', m_playhead', m_scheduledInput', m_movie')
    BY <2>1 DEF CanEditMovie, IsPlaybackRunning, IsPlaying, RunFits, run
  <2>4. MovieInv'
    BY <1>1, <1>2, <1>3, <1>4, <1>7, <2>1, <2>2, <2>3, NoKeyframesFit DEF MovieInv
  <2>5. ModeInv' BY <1>3, <1>5, <2>1 DEF ModeInv, live, modes, run, gate
  <2> QED BY <2>4, <2>5
<1> QED BY <1>6, <1>7
-----------------------------------------------------------------------------
(* The session                                                              *)

\* At frame 0 any match will do.
LEMMA StartOnScreen ==
  ASSUME NEW state \in Seq(Input) \cup {Elsewhere}, NEW movie
  PROVE  OnScreen(state, 0, movie)
BY LenProperties DEF OnScreen

LEMMA StartFits ==
  ASSUME NEW movie \in Seq(Input)
  PROVE  /\ OnScreen(<<>>, 0, movie) /\ OnScreen(Elsewhere, 0, movie)
         /\ 0 \in 0 .. Len(movie)
<1>1. <<>> \in Seq(Input) \cup {Elsewhere} /\ Elsewhere \in Seq(Input) \cup {Elsewhere} OBVIOUS
<1>2. OnScreen(<<>>, 0, movie) BY <1>1, StartOnScreen
<1>3. OnScreen(Elsewhere, 0, movie) BY <1>1, StartOnScreen
<1>4. 0 \in 0 .. Len(movie) BY LenProperties
<1> QED BY <1>2, <1>3, <1>4

LEMMA SessionKeeps ==
  ASSUME MovieInv, ModeInv, SessionStep
  PROVE  MovieInv' /\ ModeInv'
<1>0. 0 \in 0 .. KeyframeSlots BY SizesArePositive
<1>a. <<>> \in Seq(Input) /\ OnScreen(Elsewhere, 0, <<>>) /\ OnScreen(<<>>, 0, <<>>)
       /\ 0 \in 0 .. Len(<<>>)
  <2>1. <<>> \in Seq(Input) OBVIOUS
  <2> QED BY <2>1, StartFits
<1>b. OnScreen(<<>>, 0, m_movie) /\ 0 \in 0 .. Len(m_movie) /\ KeysFit(NoKeyframes, m_movie)
  BY StartFits, NoKeyframesFit DEF MovieInv
<1>1. CASE Enter
  <2>1. MovieInv'
    <3>1. KeysFit(m_keyframes', <<>>)
      BY <1>1, NoKeyframesFit DEF Enter, keys, MovieInv
    <3>2. OnScreen(match', 0, <<>>) BY <1>1, StartOnScreen DEF Enter, MovieInv, OnScreen
    <3> QED BY <1>1, <3>1, <3>2 DEF Enter, Reset, Rest, MovieInv, RunFits
  <2>2. ModeInv' BY <1>1 DEF Enter, Reset, Rest, ModeInv, RunState, keys, live
  <2> QED BY <2>1, <2>2
<1>2. CASE Exit
  <2>1. MovieInv'
    BY <1>2, <1>a, NoKeyframesFit DEF Exit, Reset, Rest, ClearKeyframes, MovieInv, RunFits
  <2>2. ModeInv' BY <1>0, <1>2 DEF Exit, Reset, Rest, ClearKeyframes, ModeInv, RunState
  <2> QED BY <2>1, <2>2
<1>3. CASE SaveBaseSnapshot
  <2>1. RunFits(m_runState', 0, None, m_movie)
    BY <1>3, LenProperties DEF SaveBaseSnapshot, MovieInv, RunFits
  <2>2. MovieInv'
    BY <1>3, <1>b, <2>1
    DEF SaveBaseSnapshot, Window, ClearKeyframes, MovieInv, modes
  <2>3. ModeInv' BY <1>0, <1>3 DEF SaveBaseSnapshot, ClearKeyframes, ModeInv, live, modes
  <2> QED BY <2>2, <2>3
<1>4. CASE LoadBaseSnapshot
  <2>1. RunFits(m_runState', 0, None, m_movie)
    BY <1>4, LenProperties DEF LoadBaseSnapshot, MovieInv, RunFits
  <2>2. MovieInv'
    BY <1>4, <1>b, <2>1
    DEF LoadBaseSnapshot, Ready, Window, MovieInv, keys, modes
  <2>3. ModeInv' BY <1>4 DEF LoadBaseSnapshot, ModeInv, keys, live, modes
  <2> QED BY <2>2, <2>3
<1>5. CASE ResumeGame
  <2>1. MovieInv'
    BY <1>5 DEF ResumeGame, Rest, MovieInv, RunFits, list, keys, modes
  <2>2. ModeInv' BY <1>5 DEF ResumeGame, Rest, ModeInv, RunState, keys, live, modes
  <2> QED BY <2>1, <2>2
<1>6. CASE ResetMovie
  <2>1. MovieInv'
    BY <1>6, <1>a, NoKeyframesFit
    DEF ResetMovie, Reset, Rest, ClearKeyframes, Ready, Window, MovieInv, RunFits
  <2>2. ModeInv' BY <1>0, <1>6 DEF ResetMovie, Reset, Rest, ClearKeyframes, ModeInv, RunState, live
  <2> QED BY <2>1, <2>2
<1>7. ASSUME NEW movie \in Movies, ImportMovie(movie) PROVE MovieInv' /\ ModeInv'
  <2>1. movie \in Seq(Input) BY BuiltSeq, MovieBoundType DEF Movies, Count
  <2>2. MovieInv'
    BY <1>7, <2>1, StartFits, NoKeyframesFit
    DEF ImportMovie, Window, Rest, ClearKeyframes, MovieInv, RunFits, modes
  <2>3. ModeInv'
    BY <1>0, <1>7 DEF ImportMovie, Rest, ClearKeyframes, ModeInv, RunState, live, gate, modes
  <2> QED BY <2>2, <2>3
<1> QED BY <1>1, <1>2, <1>3, <1>4, <1>5, <1>6, <1>7 DEF SessionStep
-----------------------------------------------------------------------------
(* Moving through the movie                                                 *)

\* Frames added behind the end disturb nothing that was reached before it.
LEMMA LongerFits ==
  ASSUME MovieInv, NEW movie \in Seq(Input), Len(m_movie) <= Len(movie),
         SameFrames(movie, m_movie, Len(m_movie))
  PROVE  KeysFit(m_keyframes, movie) /\ OnScreen(match, m_playhead, movie)
<1>1. Len(m_movie) \in Nat /\ Len(movie) \in Nat /\ m_playhead \in 0 .. Len(m_movie)
  BY LenProperties DEF MovieInv
<1>2. ASSUME NEW k \in Slot, m_keyframes[k] # None PROVE Fits(m_keyframes[k], movie)
  <2>1. m_keyframes[k] \in Keyframe /\ Fits(m_keyframes[k], m_movie)
    BY <1>2 DEF MovieInv, KeysFit
  <2>2. m_keyframes[k].movieFrame \in Nat BY <2>1 DEF Keyframe
  <2> QED BY <1>1, <2>1, <2>2 DEF Fits, SameFrames
<1>3. KeysFit(m_keyframes, movie) BY <1>2 DEF MovieInv, KeysFit
<1>4. OnScreen(match, m_playhead, movie) BY <1>1 DEF MovieInv, OnScreen, SameFrames
<1> QED BY <1>3, <1>4

\* What BeginMovieRun leaves behind.
LEMMA BeginFits ==
  ASSUME NEW movie \in Seq(Input), NEW from \in Nat, from < Len(movie), NEW target \in Nat,
         BeginMovieRun(movie, from, target)
  PROVE  /\ RunFits(m_runState', from, m_scheduledInput', movie)
         /\ m_runState' \in RunState /\ m_runTarget' \in Nat
         /\ m_scheduledInput' \in Input \cup {None} /\ isFrameFrozen' \in BOOLEAN
<1>1. from + 1 \in 1 .. Len(movie) BY LenProperties
<1>2. movie[from + 1] \in Input BY <1>1, ElementOfSeq
<1> QED BY <1>2 DEF BeginMovieRun, RunFits, RunState

LEMMA ExtendedProperties ==
  ASSUME m_movie \in Seq(Input), NEW target \in Nat
  PROVE  /\ Extended(target) \in Seq(Input) /\ Len(m_movie) <= Len(Extended(target))
         /\ SameFrames(Extended(target), m_movie, Len(m_movie))
         /\ target <= Len(Extended(target))
<1> DEFINE padding  == Neutrals(target - Len(m_movie))
           extended == Spliced(m_movie, Len(m_movie), 0, padding)
<1>1. Len(m_movie) \in Nat /\ Len(m_movie) <= Len(m_movie) BY LenProperties
<1>2. CASE target > Len(m_movie)
  <2>1. target - Len(m_movie) \in Nat BY <1>1, <1>2
  <2>2. padding \in Seq(Input) /\ Len(padding) = target - Len(m_movie)
    BY <2>1, NeutralsType
  <2>3. Extended(target) = extended BY <1>2 DEF Extended
  <2> HIDE DEF padding
  <2>4. /\ extended \in Seq(Input) /\ Len(extended) = Len(m_movie) + Len(padding)
        /\ SameFrames(extended, m_movie, Len(m_movie))
    BY <1>1, <2>2, InsertedProperties
  <2> HIDE DEF extended
  <2>5. Len(extended) = target BY <1>1, <2>2, <2>4
  <2> QED BY <1>1, <1>2, <2>3, <2>4, <2>5
<1>3. CASE ~(target > Len(m_movie))
  <2>1. Extended(target) = m_movie BY <1>3 DEF Extended
  <2> QED BY <1>1, <1>3, <2>1 DEF SameFrames
<1> QED BY <1>2, <1>3

LEMMA MoveKeeps ==
  ASSUME MovieInv, ModeInv, MoveStep
  PROVE  MovieInv' /\ ModeInv'
<1>1. ASSUME NEW target \in 0 .. Len(m_movie), SeekToFrame(target) PROVE MovieInv' /\ ModeInv'
  <2>1. target \in Nat BY LenProperties DEF MovieInv
  <2>2. SeekTo(m_movie, m_keyframes, target) /\ GateFollowsRun BY <1>1 DEF SeekToFrame
  <2>3. /\ m_playhead' \in 0 .. Len(m_movie)
        /\ OnScreen(match', m_playhead', m_movie)
        /\ RunFits(m_runState', m_playhead', m_scheduledInput', m_movie)
        /\ m_runState' \in RunState /\ m_runTarget' \in Nat
        /\ m_scheduledInput' \in Input \cup {None} /\ isFrameFrozen' \in BOOLEAN
    BY <2>1, <2>2, SeekFits DEF MovieInv
  <2>4. reach' \in BOOLEAN BY <2>2, GateType
  <2>5. MovieInv'
    BY <1>1, <2>3 DEF SeekToFrame, Ready, Window, MovieInv, keys, modes
  <2>6. ModeInv' BY <1>1, <2>3, <2>4 DEF SeekToFrame, ModeInv, keys, live, modes
  <2> QED BY <2>5, <2>6
<1>2. ASSUME NEW count \in Count, AdvanceOrExtend(count) PROVE MovieInv' /\ ModeInv'
  <2> DEFINE target   == m_playhead + count
             extended == Extended(target)
  <2>1. /\ m_movie \in Seq(Input) /\ Len(m_movie) \in Nat /\ m_playhead \in Nat
        /\ m_playhead <= Len(m_movie) /\ count \in Nat \ {0} /\ target \in Nat
    BY LenProperties, MovieBoundType DEF MovieInv, Count
  <2>2. /\ extended \in Seq(Input) /\ Len(m_movie) <= Len(extended)
        /\ SameFrames(extended, m_movie, Len(m_movie))
        /\ target <= Len(extended)
    BY <2>1, ExtendedProperties
  <2>3. /\ m_movie' = extended /\ BeginMovieRun(extended, m_playhead, target) /\ GateFollowsRun
        /\ UNCHANGED <<m_playhead, base, keys, live, modes, match, deleting>>
    BY <1>2 DEF AdvanceOrExtend
  <2>4. m_active BY <1>2 DEF AdvanceOrExtend, Window
  <2>5. target \in Nat /\ Len(extended) \in Nat /\ m_playhead < Len(extended)
    BY <2>1, <2>2, LenProperties
  <2> HIDE DEF extended, target
  <2>6. KeysFit(m_keyframes, extended) /\ OnScreen(match, m_playhead, extended)
    BY <2>2, LongerFits
  <2>7. /\ RunFits(m_runState', m_playhead, m_scheduledInput', extended)
        /\ m_runState' \in RunState /\ m_runTarget' \in Nat
        /\ m_scheduledInput' \in Input \cup {None} /\ isFrameFrozen' \in BOOLEAN
    BY <2>1, <2>2, <2>3, <2>5, BeginFits
  <2>8. reach' \in BOOLEAN BY <2>3, GateType
  <2>9. MovieInv'
    BY <2>1, <2>2, <2>3, <2>4, <2>5, <2>6, <2>7 DEF MovieInv, keys, modes
  <2>10. ModeInv' BY <2>3, <2>7, <2>8 DEF ModeInv, keys, live, modes
  <2> QED BY <2>9, <2>10
<1> QED BY <1>1, <1>2 DEF MoveStep
-----------------------------------------------------------------------------
(* Structural edits                                                         *)

LEMMA TypedIsSeq ==
  ASSUME NEW typed \in Movies
  PROVE  typed \in Seq(Input) /\ Len(typed) \in Nat \ {0}
<1>1. PICK n \in Count : typed \in [1 .. n -> Input] BY DEF Movies
<1>2. n \in Nat \ {0} BY MovieBoundType DEF Count
<1> QED BY <1>1, <1>2, BuiltSeq

LEMMA CommitKeeps ==
  ASSUME MovieInv, ModeInv, NEW typed \in Movies, EditAndAdvanceFrames(typed)
  PROVE  MovieInv' /\ ModeInv'
<1> DEFINE end    == m_playhead + Len(typed)
           rest   == Len(m_movie) - m_playhead
           edited == Spliced(m_movie, m_playhead, rest, typed)
<1>1. /\ m_movie \in Seq(Input) /\ Len(m_movie) \in Nat /\ m_playhead \in Nat
      /\ m_playhead <= Len(m_movie)
      /\ typed \in Seq(Input) /\ Len(typed) \in Nat \ {0}
  BY LenProperties, TypedIsSeq DEF MovieInv
<1>2. /\ m_movie' = edited /\ BeginMovieRun(edited, m_playhead, end) /\ GateFollowsRun
      /\ m_keyframes' = InvalidateKeyframesAfter(m_playhead)
      /\ UNCHANGED <<m_playhead, base, m_nextKeyframeSlot, live, modes, match, deleting>>
  BY DEF EditAndAdvanceFrames
<1>3. m_active BY DEF EditAndAdvanceFrames, Ready, Window
<1>4. rest \in Nat /\ m_playhead + rest <= Len(m_movie) /\ end \in Nat /\ m_playhead < end
      /\ Len(m_movie) - rest + Len(typed) = end
  BY <1>1
<1> HIDE DEF rest, end
<1>5. /\ edited \in Seq(Input)
      /\ Len(edited) = Len(m_movie) - rest + Len(typed)
      /\ SameFrames(edited, m_movie, m_playhead)
  BY <1>1, <1>4, SplicedProperties
<1>6. Len(edited) = end BY <1>4, <1>5
<1> HIDE DEF edited
<1>7. m_playhead \in 0 .. Len(edited) BY <1>1, <1>4, <1>6
<1>8. KeysFit(InvalidateKeyframesAfter(m_playhead), edited)
  BY <1>1, <1>5, <1>7, KeptKeysFit DEF MovieInv
<1>9. OnScreen(match, m_playhead, edited) BY <1>5 DEF MovieInv, OnScreen, SameFrames
<1>10. /\ RunFits(m_runState', m_playhead, m_scheduledInput', edited)
       /\ m_runState' \in RunState /\ m_runTarget' \in Nat
       /\ m_scheduledInput' \in Input \cup {None} /\ isFrameFrozen' \in BOOLEAN
  BY <1>1, <1>2, <1>4, <1>5, <1>6, BeginFits
<1>11. reach' \in BOOLEAN BY <1>2, GateType
<1>12. MovieInv' BY <1>2, <1>3, <1>5, <1>7, <1>8, <1>9, <1>10 DEF MovieInv, modes
<1>13. ModeInv' BY <1>2, <1>10, <1>11 DEF ModeInv, live, modes
<1> QED BY <1>12, <1>13

LEMMA InsertKeeps ==
  ASSUME MovieInv, ModeInv, NEW index \in Index, NEW count \in Count,
         InsertNeutralFrames(index, count)
  PROVE  MovieInv' /\ ModeInv'
<1> DEFINE movie    == Spliced(m_movie, index, 0, Neutrals(count))
           playhead == IF index <= m_playhead THEN m_playhead + count ELSE m_playhead
<1>1. /\ m_movie \in Seq(Input) /\ Len(m_movie) \in Nat /\ m_playhead \in Nat
      /\ m_playhead <= Len(m_movie) /\ index \in Nat /\ count \in Nat \ {0}
  BY LenProperties, MovieBoundType DEF MovieInv, Index, Count
<1>2. /\ index <= Len(m_movie) /\ CanEditMovie /\ ResyncAfterEdit(movie, playhead, index)
      /\ UNCHANGED <<base, live, modes, deleting>>
  BY DEF InsertNeutralFrames, Edit, EditLeaves
<1>3. /\ movie \in Seq(Input) /\ Len(movie) = Len(m_movie) + count
      /\ SameFrames(movie, m_movie, index)
  <2>1. Neutrals(count) \in Seq(Input) /\ Len(Neutrals(count)) = count BY <1>1, NeutralsType
  <2>2. index <= Len(m_movie) BY <1>2
  <2>3. Len(movie) = Len(m_movie) + Len(Neutrals(count)) /\ movie \in Seq(Input)
        /\ SameFrames(movie, m_movie, index)
    BY <1>1, <2>1, <2>2, InsertedProperties
  <2> QED BY <2>1, <2>3
<1> HIDE DEF movie
<1>4. playhead \in Nat /\ index \in 0 .. Len(movie) BY <1>1, <1>2, <1>3
<1>5. playhead <= m_playhead \/ index < Clamped(playhead, movie)
  BY <1>1, <1>3 DEF Clamped
<1>6. deleting' \subseteq Nat BY <1>2 DEF ModeInv
<1> HIDE DEF playhead
<1> QED BY <1>2, <1>3, <1>4, <1>5, <1>6, ResyncFits

LEMMA DuplicateKeeps ==
  ASSUME MovieInv, ModeInv, NEW index \in Index, NEW count \in Count,
         DuplicateFrames(index, count)
  PROVE  MovieInv' /\ ModeInv'
<1> DEFINE first == index + count
           movie == Spliced(m_movie, first, 0, Block(index, count))
<1>1. /\ m_movie \in Seq(Input) /\ Len(m_movie) \in Nat /\ m_playhead \in Nat
      /\ index \in Nat /\ count \in Nat \ {0}
  BY LenProperties, MovieBoundType DEF MovieInv, Index, Count
<1>2. /\ first <= Len(m_movie) /\ CanEditMovie /\ ResyncAfterEdit(movie, m_playhead, first)
      /\ UNCHANGED <<base, live, modes, deleting>>
  BY DEF DuplicateFrames, Edit, EditLeaves
<1>3. Block(index, count) \in Seq(Input) /\ Len(Block(index, count)) = count
  BY <1>1, <1>2, BlockType
<1>4. first \in Nat BY <1>1
<1> HIDE DEF first
<1>5. /\ movie \in Seq(Input) /\ Len(movie) = Len(m_movie) + count
      /\ SameFrames(movie, m_movie, first)
  <2>1. first <= Len(m_movie) BY <1>2
  <2>2. Len(movie) = Len(m_movie) + Len(Block(index, count)) /\ movie \in Seq(Input)
        /\ SameFrames(movie, m_movie, first)
    BY <1>1, <1>3, <1>4, <2>1, InsertedProperties
  <2> QED BY <1>3, <2>2
<1> HIDE DEF movie
<1>6. first \in 0 .. Len(movie) /\ m_playhead <= m_playhead BY <1>1, <1>2, <1>4, <1>5
<1>7. deleting' \subseteq Nat BY <1>2 DEF ModeInv
<1> QED BY <1>1, <1>2, <1>5, <1>6, <1>7, ResyncFits

LEMMA SetKeeps ==
  ASSUME MovieInv, ModeInv, NEW index \in Index, NEW input \in Input, SetFrameInput(index, input)
  PROVE  MovieInv' /\ ModeInv'
<1> DEFINE movie == Spliced(m_movie, index, 1, <<input>>)
<1>1. /\ m_movie \in Seq(Input) /\ Len(m_movie) \in Nat /\ m_playhead \in Nat
      /\ index \in Nat
  BY LenProperties, MovieBoundType DEF MovieInv, Index
<1>2. /\ index < Len(m_movie) /\ CanEditMovie /\ ResyncAfterEdit(movie, m_playhead, index)
      /\ UNCHANGED <<base, live, modes, deleting>>
  BY DEF SetFrameInput, Edit, EditLeaves
<1>3. <<input>> \in Seq(Input) /\ Len(<<input>>) = 1 OBVIOUS
<1>4. index + 1 <= Len(m_movie) /\ Len(m_movie) - 1 + 1 = Len(m_movie) /\ 1 \in Nat
  BY <1>1, <1>2
<1>5. /\ movie \in Seq(Input) /\ Len(movie) = Len(m_movie) - 1 + Len(<<input>>)
      /\ SameFrames(movie, m_movie, index)
  BY <1>1, <1>3, <1>4, SplicedProperties
<1> HIDE DEF movie
<1>6. index \in 0 .. Len(movie) /\ m_playhead <= m_playhead BY <1>1, <1>2, <1>3, <1>5
<1>7. deleting' \subseteq Nat BY <1>2 DEF ModeInv
<1> QED BY <1>1, <1>2, <1>5, <1>6, <1>7, ResyncFits

LEMMA MoveFramesKeeps ==
  ASSUME MovieInv, ModeInv, NEW from \in Index, NEW count \in Count, NEW to \in Index,
         MoveFrames(from, count, to)
  PROVE  MovieInv' /\ ModeInv'
<1> DEFINE insertAt == IF to > from THEN to - count ELSE to
           without  == Spliced(m_movie, from, count, <<>>)
           block    == Block(from, count)
           movie    == Spliced(without, insertAt, 0, block)
           first    == IF from < insertAt THEN from ELSE insertAt
<1>1. /\ m_movie \in Seq(Input) /\ Len(m_movie) \in Nat /\ m_playhead \in Nat
      /\ from \in Nat /\ count \in Nat \ {0} /\ to \in Nat
  BY LenProperties, MovieBoundType DEF MovieInv, Index, Count
<1>2. /\ from + count <= Len(m_movie) /\ to <= Len(m_movie) /\ (to < from \/ to > from + count)
      /\ CanEditMovie /\ ResyncAfterEdit(movie, m_playhead, first)
      /\ UNCHANGED <<base, live, modes, deleting>>
  BY DEF MoveFrames, Edit, EditLeaves
<1>3. block \in Seq(Input) /\ Len(block) = count BY <1>1, <1>2, BlockType
<1>4. without \in Seq(Input) /\ Len(without) = Len(m_movie) - count
      /\ SameFrames(without, m_movie, from)
  <2> DEFINE gap == <<>>
  <2>1. gap \in Seq(Input) /\ Len(gap) = 0 OBVIOUS
  <2> HIDE DEF gap
  <2>2. from + count <= Len(m_movie) BY <1>2
  <2>3. /\ Spliced(m_movie, from, count, gap) \in Seq(Input)
        /\ Len(Spliced(m_movie, from, count, gap)) = Len(m_movie) - count + Len(gap)
        /\ SameFrames(Spliced(m_movie, from, count, gap), m_movie, from)
    BY <1>1, <2>1, <2>2, SplicedProperties
  <2>4. Spliced(m_movie, from, count, gap) = without BY DEF gap
  <2> HIDE DEF without
  <2> QED BY <1>1, <2>1, <2>3, <2>4
<1>5. insertAt \in Nat /\ insertAt <= Len(m_movie) - count BY <1>1, <1>2
<1>6. first \in Nat /\ first <= from /\ first <= insertAt BY <1>1, <1>5
<1> HIDE DEF insertAt, without, block, first
<1>7. movie \in Seq(Input) /\ Len(movie) = Len(without) + Len(block)
      /\ SameFrames(movie, without, insertAt)
  <2>1. insertAt <= Len(without) BY <1>4, <1>5
  <2> QED BY <1>3, <1>4, <1>5, <2>1, InsertedProperties
<1> HIDE DEF movie
<1>8. SameFrames(movie, m_movie, first)
  <2>1. ASSUME NEW k \in 1 .. first PROVE movie[k] = m_movie[k]
    <3>1. k \in 1 .. from /\ k \in 1 .. insertAt BY <1>1, <1>5, <1>6
    <3> QED BY <1>4, <1>7, <3>1 DEF SameFrames
  <2> QED BY <2>1 DEF SameFrames
<1>9. first \in 0 .. Len(movie) /\ m_playhead <= m_playhead
  BY <1>1, <1>3, <1>4, <1>5, <1>6, <1>7
<1>10. deleting' \subseteq Nat BY <1>2 DEF ModeInv
<1> QED BY <1>1, <1>2, <1>7, <1>8, <1>9, <1>10, ResyncFits

LEMMA DeleteKeeps ==
  ASSUME MovieInv, ModeInv, NEW index, DeleteNext(index)
  PROVE  MovieInv' /\ ModeInv'
<1>1. /\ index \in Nat /\ deleting' \subseteq Nat
      /\ UNCHANGED <<base, live, modes>>
  BY DEF DeleteNext, ModeInv
<1>2. CASE CanEditMovie /\ index < Len(m_movie)
  <2> DEFINE movie    == Spliced(m_movie, index, 1, <<>>)
             playhead == IF m_playhead > index THEN m_playhead - 1 ELSE m_playhead
  <2>1. ResyncAfterEdit(movie, playhead, index) BY <1>2 DEF DeleteNext, DeleteFrame
  <2>2. m_movie \in Seq(Input) /\ Len(m_movie) \in Nat /\ m_playhead \in Nat
    BY LenProperties DEF MovieInv
  <2>3. movie \in Seq(Input) /\ Len(movie) = Len(m_movie) - 1 /\ SameFrames(movie, m_movie, index)
    <3> DEFINE gap == <<>>
    <3>1. gap \in Seq(Input) /\ Len(gap) = 0 OBVIOUS
    <3> HIDE DEF gap
    <3>2. index + 1 <= Len(m_movie) /\ 1 \in Nat BY <1>1, <1>2, <2>2
    <3>3. /\ Spliced(m_movie, index, 1, gap) \in Seq(Input)
          /\ Len(Spliced(m_movie, index, 1, gap)) = Len(m_movie) - 1 + Len(gap)
          /\ SameFrames(Spliced(m_movie, index, 1, gap), m_movie, index)
      BY <1>1, <2>2, <3>1, <3>2, SplicedProperties
    <3>4. Spliced(m_movie, index, 1, gap) = movie BY DEF gap
    <3> HIDE DEF movie
    <3> QED BY <2>2, <3>1, <3>3, <3>4
  <2> HIDE DEF movie
  <2>4. playhead \in Nat /\ playhead <= m_playhead /\ index \in 0 .. Len(movie)
    BY <1>1, <1>2, <2>2, <2>3
  <2> HIDE DEF playhead
  <2> QED BY <1>1, <1>2, <2>1, <2>3, <2>4, ResyncFits
<1>3. CASE ~(CanEditMovie /\ index < Len(m_movie))
  <2>1. UNCHANGED <<list, stacks, keys, run, gate, match>> BY <1>3 DEF DeleteNext
  <2>2. MovieInv'
    BY <1>1, <2>1 DEF DeleteNext, MovieInv, list, keys, run, modes
  <2>3. ModeInv' BY <1>1, <2>1 DEF ModeInv, keys, run, gate, live, modes
  <2> QED BY <2>2, <2>3
<1> QED BY <1>2, <1>3

LEMMA LastType ==
  ASSUME NEW stack \in Seq(Place), stack # <<>>
  PROVE  Last(stack) \in Place
<1>1. Len(stack) \in 1 .. Len(stack) BY EmptySeq, LenProperties
<1> QED BY <1>1, ElementOfSeq DEF Last

LEMMA EditKeeps ==
  ASSUME MovieInv, StackInv, ModeInv, EditStep
  PROVE  MovieInv' /\ ModeInv'
<1>1. CASE \E typed \in Movies : EditAndAdvanceFrames(typed) BY <1>1, CommitKeeps
<1>2. ASSUME NEW index \in Index, NEW count \in Count, InsertNeutralFrames(index, count)
      PROVE  MovieInv' /\ ModeInv'
  BY <1>2, InsertKeeps
<1>3. ASSUME NEW index \in Index, NEW count \in Count, DuplicateFrames(index, count)
      PROVE  MovieInv' /\ ModeInv'
  BY <1>3, DuplicateKeeps
<1>4. ASSUME NEW index \in Index, NEW input \in Input, SetFrameInput(index, input)
      PROVE  MovieInv' /\ ModeInv'
  BY <1>4, SetKeeps
<1>5. ASSUME NEW index \in Index, NEW count \in Count, NEW to \in Index,
             MoveFrames(index, count, to)
      PROVE  MovieInv' /\ ModeInv'
  BY <1>5, MoveFramesKeeps
<1>6. ASSUME NEW index \in Index, DeleteNext(index) PROVE MovieInv' /\ ModeInv'
  BY <1>6, DeleteKeeps
<1>7. ASSUME NEW rows \in SUBSET (0 .. Len(m_movie) - 1), DeleteSelection(rows)
      PROVE  MovieInv' /\ ModeInv'
  <2>1. rows \subseteq Nat BY LenProperties DEF MovieInv
  <2>2. MovieInv'
    BY <1>7 DEF DeleteSelection, Window, MovieInv, list, keys, run, modes
  <2>3. ModeInv' BY <1>7, <2>1 DEF DeleteSelection, ModeInv, keys, run, live, gate, modes
  <2> QED BY <2>2, <2>3
<1>8. CASE Undo
  <2>1. CanEditMovie /\ Revert(Last(m_undoStack)) /\ m_undoStack # <<>> BY <1>8 DEF Undo, Edit
  <2>2. Last(m_undoStack) \in Place BY <2>1, LastType DEF StackInv
  <2> QED BY <2>1, <2>2, RevertFits
<1>9. CASE Redo
  <2>1. CanEditMovie /\ Revert(Last(m_redoStack)) /\ m_redoStack # <<>> BY <1>9 DEF Redo, Edit
  <2>2. Last(m_redoStack) \in Place BY <2>1, LastType DEF StackInv
  <2> QED BY <2>1, <2>2, RevertFits
<1> QED BY <1>1, <1>2, <1>3, <1>4, <1>5, <1>6, <1>7, <1>8, <1>9 DEF EditStep
-----------------------------------------------------------------------------
(* Playback and recording                                                   *)

LEMMA StartFramesFit ==
  ASSUME MovieInv, NEW from \in Nat, from < Len(m_movie), StartMovieFrames(from)
  PROVE  /\ RunFits(m_runState', from, m_scheduledInput', m_movie)
         /\ m_runState' \in RunState /\ m_runTarget' \in Nat
         /\ m_scheduledInput' \in Input \cup {None}
         /\ isFrameFrozen' \in BOOLEAN /\ reach' \in BOOLEAN
<1>1. from + 1 \in 1 .. Len(m_movie) /\ Len(m_movie) \in Nat BY LenProperties DEF MovieInv
<1>2. m_movie[from + 1] \in Input BY <1>1, ElementOfSeq DEF MovieInv
<1> QED BY <1>1, <1>2 DEF StartMovieFrames, RunFits, RunState

LEMMA StopRecordingKeeps ==
  ASSUME MovieInv, ModeInv, m_active, StopLiveRecording, reach' \in BOOLEAN
  PROVE  MovieInv' /\ ModeInv'
<1>1. /\ m_liveRecording' = FALSE /\ m_liveRecordingReturnFrame' = 0
      /\ UNCHANGED <<m_movie, stacks, base, keys, modes, deleting>>
  BY DEF StopLiveRecording
<1>2. CASE base
  <2>1. SeekTo(m_movie, m_keyframes, m_liveRecordingReturnFrame)
    BY <1>2 DEF StopLiveRecording
  <2>2. /\ m_playhead' \in 0 .. Len(m_movie)
        /\ OnScreen(match', m_playhead', m_movie)
        /\ RunFits(m_runState', m_playhead', m_scheduledInput', m_movie)
        /\ m_runState' \in RunState /\ m_runTarget' \in Nat
        /\ m_scheduledInput' \in Input \cup {None} /\ isFrameFrozen' \in BOOLEAN
    BY <2>1, SeekFits DEF MovieInv, ModeInv
  <2>3. MovieInv' BY <1>1, <1>2, <2>2 DEF MovieInv, keys, modes
  <2>4. ModeInv' BY <1>1, <2>2 DEF ModeInv, keys, modes
  <2> QED BY <2>3, <2>4
<1>3. CASE ~base
  <2>1. /\ m_scheduledInput' = None
        /\ UNCHANGED <<m_playhead, match, m_runState, m_runTarget, isFrameFrozen>>
    BY <1>3 DEF StopLiveRecording
  <2>2. MovieInv' BY <1>1, <2>1 DEF MovieInv, RunFits, keys, modes
  <2>3. ModeInv' BY <1>1, <2>1 DEF ModeInv, keys, modes
  <2> QED BY <2>2, <2>3
<1> QED BY <1>2, <1>3

LEMMA PlayKeeps ==
  ASSUME MovieInv, ModeInv, PlayStep
  PROVE  MovieInv' /\ ModeInv'
<1>1. m_movie \in Seq(Input) /\ Len(m_movie) \in Nat /\ m_playhead \in 0 .. Len(m_movie)
  BY LenProperties DEF MovieInv
<1>2. OnScreen(<<>>, 0, m_movie) /\ 0 \in 0 .. Len(m_movie) BY <1>1, StartFits
<1>3. m_movie # <<>> => 0 < Len(m_movie) BY <1>1, EmptySeq
<1>4. CASE StartPreview
  <2>1. m_movie # <<>> /\ m_active /\ base
        /\ UNCHANGED <<m_movie, stacks, base, keys, live, modes, deleting>>
    BY <1>4 DEF StartPreview, CanPlay, Ready, Window
  <2>2. CASE m_playhead < Len(m_movie)
    <3>1. StartMovieFrames(m_playhead) /\ UNCHANGED <<m_playhead, match>>
      BY <1>4, <2>2 DEF StartPreview
    <3>2. /\ RunFits(m_runState', m_playhead, m_scheduledInput', m_movie)
          /\ m_runState' \in RunState /\ m_runTarget' \in Nat
          /\ m_scheduledInput' \in Input \cup {None}
          /\ isFrameFrozen' \in BOOLEAN /\ reach' \in BOOLEAN
      BY <1>1, <2>2, <3>1, StartFramesFit
    <3>3. MovieInv' BY <2>1, <3>1, <3>2 DEF MovieInv, keys, modes
    <3>4. ModeInv' BY <2>1, <3>2 DEF ModeInv, keys, live, modes
    <3> QED BY <3>3, <3>4
  <2>3. CASE ~(m_playhead < Len(m_movie))
    <3>1. StartMovieFrames(0) /\ m_playhead' = 0 /\ match' = <<>>
      BY <1>4, <2>3 DEF StartPreview
    <3>2. /\ RunFits(m_runState', 0, m_scheduledInput', m_movie)
          /\ m_runState' \in RunState /\ m_runTarget' \in Nat
          /\ m_scheduledInput' \in Input \cup {None}
          /\ isFrameFrozen' \in BOOLEAN /\ reach' \in BOOLEAN
      BY <1>3, <2>1, <3>1, StartFramesFit
    <3>3. MovieInv' BY <1>2, <2>1, <3>1, <3>2 DEF MovieInv, keys, modes
    <3>4. ModeInv' BY <2>1, <3>2 DEF ModeInv, keys, live, modes
    <3> QED BY <3>3, <3>4
  <2> QED BY <2>2, <2>3
<1>5. CASE StartPresentation
  <2>1. m_movie # <<>> /\ m_active /\ base BY <1>5 DEF StartPresentation, CanPlay, Ready, Window
  <2>2. RunFits(m_runState', 0, m_scheduledInput', m_movie)
    BY <1>3, <1>5, <2>1 DEF StartPresentation, HoldNeutral, RunFits
  <2>3. MovieInv' BY <1>2, <1>5, <2>1, <2>2 DEF StartPresentation, MovieInv, keys
  <2>4. ModeInv'
    BY <1>1, <1>5, ConstantAssumption
    DEF StartPresentation, HoldNeutral, ModeInv, RunState, keys, live
  <2> QED BY <2>3, <2>4
<1>6. CASE StopPlayback
  <2>1. MovieInv' BY <1>6 DEF StopPlayback, Rest, MovieInv, RunFits, list, keys
  <2>2. ModeInv' BY <1>6 DEF StopPlayback, Rest, ModeInv, RunState, keys, live
  <2> QED BY <2>1, <2>2
<1>7. CASE StartLiveRecording
  <2>1. MovieInv'
    BY <1>7 DEF StartLiveRecording, MovieInv, RunFits, list, keys, modes
  <2>2. m_playhead \in Nat BY <1>1
  <2>3. ModeInv' BY <1>7, <2>2 DEF StartLiveRecording, ModeInv, list, keys, modes
  <2> QED BY <2>1, <2>3
<1>8. CASE ClickStopRecording
  BY <1>8, StopRecordingKeeps, GateType DEF ClickStopRecording, Window
<1> QED BY <1>4, <1>5, <1>6, <1>7, <1>8 DEF PlayStep

-----------------------------------------------------------------------------
(* Frames                                                                   *)

\* The match after a frame: nothing, or one frame ahead of the playhead.
LEMMA SimulatedFits ==
  ASSUME MovieInv, ModeInv
  PROVE  /\ OnScreen(Simulated, m_playhead, m_movie)
         /\ ~base => Simulated = Elsewhere
         /\ m_playhead < Len(m_movie) /\ m_scheduledInput \in {None, m_movie[m_playhead + 1]}
              => OnScreen(Simulated, m_playhead + 1, m_movie)
         /\ Simulated # Elsewhere => Len(Simulated) = m_playhead + 1
<1>1. m_playhead \in Nat BY LenProperties DEF MovieInv
<1>2. CASE m_scheduledInput = None \/ match = Elsewhere \/ Len(match) # m_playhead
  BY <1>2 DEF Simulated, OnScreen
<1>3. CASE ~(m_scheduledInput = None \/ match = Elsewhere \/ Len(match) # m_playhead)
  <2> DEFINE longer == Append(match, m_scheduledInput)
  <2>1. /\ match \in Seq(Input) /\ Len(match) = m_playhead /\ base
        /\ m_scheduledInput \in Input
        /\ \A i \in 1 .. m_playhead : match[i] = m_movie[i]
    BY <1>3 DEF MovieInv, ModeInv, OnScreen
  <2>2. Simulated = longer BY <1>3 DEF Simulated
  <2>3. /\ longer \in Seq(Input) /\ Len(longer) = m_playhead + 1
        /\ \A i \in 1 .. m_playhead : longer[i] = match[i]
        /\ longer[m_playhead + 1] = m_scheduledInput
    BY <1>1, <2>1, AppendProperties
  <2> HIDE DEF longer
  <2>4. OnScreen(longer, m_playhead, m_movie) BY <1>1, <2>3 DEF OnScreen
  <2>5. ASSUME m_scheduledInput \in {None, m_movie[m_playhead + 1]}
        PROVE  OnScreen(longer, m_playhead + 1, m_movie)
    <3>1. m_scheduledInput = m_movie[m_playhead + 1] BY <1>3, <2>5
    <3>2. ASSUME NEW i \in 1 .. m_playhead + 1 PROVE longer[i] = m_movie[i]
      BY <1>1, <2>1, <2>3, <3>1
    <3> QED BY <2>3, <3>2, <1>1 DEF OnScreen
  <2> QED BY <2>1, <2>2, <2>3, <2>4, <2>5
<1> QED BY <1>2, <1>3

LEMMA CaptureFits ==
  ASSUME MovieInv, ModeInv, m_playhead < Len(m_movie),
         OnScreen(Simulated, m_playhead + 1, m_movie),
         Simulated # Elsewhere => Len(Simulated) = m_playhead + 1,
         CaptureKeyframeIfDue(m_playhead + 1, Simulated)
  PROVE  KeysFit(m_keyframes', m_movie) /\ m_nextKeyframeSlot' \in 0 .. KeyframeSlots
<1>1. CASE UNCHANGED keys BY <1>1 DEF MovieInv, ModeInv, keys
<1>2. CASE ~UNCHANGED keys
  <2> DEFINE slot == m_nextKeyframeSlot % KeyframeSlots
             keyframe == [movieFrame |-> m_playhead + 1, saved |-> Simulated]
  <2>1. /\ m_keyframes' = [m_keyframes EXCEPT ![slot] = keyframe]
        /\ m_nextKeyframeSlot' = slot + 1
    BY <1>2 DEF CaptureKeyframeIfDue
  <2>2. slot \in Slot /\ slot + 1 \in 0 .. KeyframeSlots
    BY SizesArePositive DEF ModeInv, Slot
  <2>3. m_playhead + 1 \in Nat \ {0} /\ m_playhead + 1 <= Len(m_movie)
    BY LenProperties DEF MovieInv
  <2>4. keyframe \in Keyframe BY <2>3 DEF Keyframe, OnScreen
  <2>5. Fits(keyframe, m_movie) BY <2>3 DEF Fits, OnScreen
  <2> HIDE DEF slot, keyframe
  <2>6. m_keyframes' \in [Slot -> Keyframe \cup {None}] BY <2>1, <2>2, <2>4 DEF MovieInv, KeysFit
  <2>7. ASSUME NEW k \in Slot, m_keyframes'[k] # None PROVE Fits(m_keyframes'[k], m_movie)
    <3>1. CASE k = slot BY <2>1, <2>2, <2>5, <3>1 DEF MovieInv, KeysFit
    <3>2. CASE k # slot
      <4>1. m_keyframes'[k] = m_keyframes[k] BY <2>1, <3>2 DEF MovieInv, KeysFit
      <4> QED BY <2>7, <4>1 DEF MovieInv, KeysFit
    <3> QED BY <3>1, <3>2
  <2> QED BY <2>1, <2>2, <2>6, <2>7 DEF KeysFit
<1> QED BY <1>1, <1>2

LEMMA FrameKeeps ==
  ASSUME MovieInv, ModeInv, Frame
  PROVE  MovieInv' /\ ModeInv'
<1>1. /\ m_movie \in Seq(Input) /\ Len(m_movie) \in Nat /\ m_playhead \in Nat
      /\ Neutral \in Input
  BY LenProperties, ConstantAssumption DEF MovieInv
<1>2. OnScreen(<<>>, 0, m_movie) /\ 0 \in 0 .. Len(m_movie) BY <1>1, StartFits
<1>3. OnScreen(Simulated, m_playhead, m_movie) /\ (~base => Simulated = Elsewhere)
  BY SimulatedFits
<1>4. CASE RecordFrame
  <2>1. MovieInv'
    BY <1>3, <1>4 DEF RecordFrame, GateOpen, MovieInv, RunFits, list, keys, modes
  <2>2. ModeInv' BY <1>4 DEF RecordFrame, ModeInv, keys, live, modes
  <2> QED BY <2>1, <2>2
<1>5. CASE RecordingLimit
  BY <1>5, StopRecordingKeeps DEF RecordingLimit, GateOpen
<1>6. CASE FreeFrame
  <2>1. MovieInv'
    BY <1>3, <1>6 DEF FreeFrame, GateOpen, MovieInv, RunFits, list, keys, run, modes
  <2>2. ModeInv' BY <1>6 DEF FreeFrame, ModeInv, keys, run, live, modes
  <2> QED BY <2>1, <2>2
<1>7. CASE LeadInFrame
  <2>1. /\ match' = Simulated /\ m_active /\ m_playhead < Len(m_movie)
        /\ UNCHANGED <<list, stacks, base, keys, live, modes, deleting>>
    BY <1>7 DEF LeadInFrame, GateOpen, MovieInv, RunFits
  <2>2. CASE HoldNeutral("PresentationLeadIn") /\ UNCHANGED m_runTarget
    <3>1. MovieInv'
      BY <1>3, <2>1, <2>2 DEF HoldNeutral, MovieInv, RunFits, list, keys, modes
    <3>2. ModeInv' BY <1>1, <2>1, <2>2 DEF HoldNeutral, ModeInv, RunState, keys, live, modes
    <3> QED BY <3>1, <3>2
  <2>3. CASE StartMovieFrames(m_playhead)
    <3>1. /\ RunFits(m_runState', m_playhead, m_scheduledInput', m_movie)
          /\ m_runState' \in RunState /\ m_runTarget' \in Nat
          /\ m_scheduledInput' \in Input \cup {None}
          /\ isFrameFrozen' \in BOOLEAN /\ reach' \in BOOLEAN
      BY <1>1, <2>1, <2>3, StartFramesFit
    <3>2. MovieInv' BY <1>3, <2>1, <3>1 DEF MovieInv, list, keys, modes
    <3>3. ModeInv' BY <2>1, <3>1 DEF ModeInv, keys, live, modes
    <3> QED BY <3>2, <3>3
  <2> QED BY <1>7, <2>2, <2>3 DEF LeadInFrame
<1>8. CASE LeadOutFrame
  <2>1. m_active /\ UNCHANGED <<m_movie, stacks, base, keys, live, m_active, deleting>>
    BY <1>8 DEF LeadOutFrame, GateOpen
  <2>2. CASE /\ HoldNeutral("PresentationLeadOut") /\ match' = Simulated
             /\ UNCHANGED <<m_playhead, m_runTarget, presenting>>
    <3>1. MovieInv' BY <1>3, <2>1, <2>2 DEF HoldNeutral, MovieInv, RunFits, keys
    <3>2. ModeInv' BY <1>1, <2>1, <2>2 DEF HoldNeutral, ModeInv, RunState, keys, live
    <3> QED BY <3>1, <3>2
  <2>3. CASE /\ presenting' = FALSE /\ Rest("Idle") /\ isFrameFrozen' = FALSE /\ reach' = FALSE
             /\ match' = Simulated /\ UNCHANGED m_playhead
    <3>1. MovieInv' BY <1>3, <2>1, <2>3 DEF Rest, MovieInv, RunFits, keys
    <3>2. ModeInv' BY <2>1, <2>3 DEF Rest, ModeInv, RunState, keys, live
    <3> QED BY <3>1, <3>2
  <2>4. CASE /\ presenting' = FALSE /\ base /\ Rest("PausedAtMovieFrame") /\ reach' = FALSE
             /\ isFrameFrozen' = TRUE /\ m_playhead' = 0 /\ match' = <<>>
    <3>1. MovieInv' BY <1>2, <2>1, <2>4 DEF Rest, MovieInv, RunFits, keys
    <3>2. ModeInv' BY <2>1, <2>4 DEF Rest, ModeInv, RunState, keys, live
    <3> QED BY <3>1, <3>2
  <2> QED BY <1>8, <2>2, <2>3, <2>4 DEF LeadOutFrame
<1>9. CASE MovieFrame
  <2> DEFINE playhead == m_playhead + 1
  <2>1. /\ m_active /\ m_playhead < Len(m_movie)
        /\ m_scheduledInput \in {None, m_movie[m_playhead + 1]}
    BY <1>9 DEF MovieFrame, GateOpen, MovieInv, RunFits
  <2>2. /\ m_playhead' = playhead /\ match' = Simulated
        /\ CaptureKeyframeIfDue(playhead, Simulated)
        /\ UNCHANGED <<m_movie, stacks, base, live, modes, deleting>>
    BY <1>9 DEF MovieFrame
  <2>3. OnScreen(Simulated, playhead, m_movie)
    BY <2>1, SimulatedFits
  <2>4. KeysFit(m_keyframes', m_movie) /\ m_nextKeyframeSlot' \in 0 .. KeyframeSlots
    BY <2>1, <2>2, <2>3, SimulatedFits, CaptureFits
  <2>5. playhead \in 0 .. Len(m_movie) /\ playhead \in Nat BY <1>1, <2>1
  <2> HIDE DEF playhead
  <2>6. /\ RunFits(m_runState', playhead, m_scheduledInput', m_movie)
        /\ m_runState' \in RunState /\ m_runTarget' \in Nat
        /\ m_scheduledInput' \in Input \cup {None}
        /\ isFrameFrozen' \in BOOLEAN /\ reach' \in BOOLEAN
    <3>1. CASE EndRun(playhead)
      <4>1. CASE HoldNeutral("PresentationLeadOut") /\ m_runTarget' = 0
        BY <1>1, <4>1 DEF HoldNeutral, RunFits, RunState
      <4>2. CASE Rest("PausedAtMovieFrame") /\ isFrameFrozen' = TRUE /\ reach' = FALSE
        BY <4>2 DEF Rest, RunFits, RunState
      <4> QED BY <3>1, <4>1, <4>2 DEF EndRun
    <3>2. CASE ContinueRun(playhead) /\ ~(playhead >= Len(m_movie))
      <4>1. playhead + 1 \in 1 .. Len(m_movie) /\ playhead < Len(m_movie) BY <1>1, <2>5, <3>2
      <4>2. m_movie[playhead + 1] \in Input BY <1>1, <4>1, ElementOfSeq
      <4>3. isFrameFrozen' \in BOOLEAN /\ reach' \in BOOLEAN BY <3>2, Zenon DEF ContinueRun
      <4> QED BY <3>2, <4>1, <4>2, <4>3 DEF ContinueRun, RunFits, ModeInv
    <3> QED BY <1>9, <3>1, <3>2 DEF MovieFrame, playhead
  <2>7. MovieInv' BY <1>3, <2>1, <2>2, <2>3, <2>4, <2>5, <2>6 DEF MovieInv, modes
  <2>8. ModeInv' BY <2>2, <2>4, <2>6 DEF ModeInv, live, modes
  <2> QED BY <2>7, <2>8
<1> QED BY <1>4, <1>5, <1>6, <1>7, <1>8, <1>9 DEF Frame

LEMMA FreezeKeeps ==
  ASSUME MovieInv, ModeInv, FreezeControls
  PROVE  MovieInv' /\ ModeInv'
<1>1. MovieInv' BY DEF FreezeControls, MovieInv, list, keys, run, modes
<1>2. isFrameFrozen' \in BOOLEAN /\ reach' \in BOOLEAN
  <2>1. isFrameFrozen \in BOOLEAN /\ reach \in BOOLEAN BY DEF ModeInv
  <2>2. CASE isFrameFrozen' = ~isFrameFrozen /\ UNCHANGED reach BY <2>1, <2>2
  <2>3. CASE reach' = TRUE /\ UNCHANGED isFrameFrozen BY <2>1, <2>3
  <2>4. CASE reach' = FALSE /\ UNCHANGED isFrameFrozen BY <2>1, <2>4
  <2> QED BY <2>2, <2>3, <2>4 DEF FreezeControls
<1>3. ModeInv' BY <1>2 DEF FreezeControls, ModeInv, list, keys, run, live, modes
<1> QED BY <1>1, <1>3
-----------------------------------------------------------------------------
(* The undo stacks                                                          *)

\* What a push leaves: the newest movie is on top, and the oldest may be gone.
LEMMA PushFits ==
  ASSUME StackInv, m_movie \in Seq(Input), m_playhead \in Nat, PushUndoState
  PROVE  /\ StackInv'
         /\ m_undoStack' # <<>> /\ Last(m_undoStack') = Here
<1> DEFINE pushed == Append(m_undoStack, Here)
<1>1. Here \in Place BY DEF Here, Place
<1>2. /\ pushed \in Seq(Place) /\ Len(pushed) = Len(m_undoStack) + 1
      /\ pushed[Len(pushed)] = Here /\ Len(m_undoStack) \in Nat
  BY <1>1, AppendProperties, LenProperties DEF StackInv
<1>3. Len(m_undoStack) <= UndoDepth /\ UndoDepth \in Nat \ {0}
  BY SizesArePositive, LenProperties DEF StackInv, UndoDepthKept
<1>4. /\ m_undoStack' = IF Len(pushed) > UndoDepth THEN Tail(pushed) ELSE pushed
      /\ m_redoStack' = <<>>
  BY DEF PushUndoState
<1> HIDE DEF pushed
<1>5. <<>> \in Seq(Place) /\ Len(<<>>) = 0 OBVIOUS
<1>6. CASE Len(pushed) > UndoDepth
  <2>1. /\ Tail(pushed) \in Seq(Place) /\ Len(Tail(pushed)) = Len(pushed) - 1
        /\ \A i \in 1 .. Len(Tail(pushed)) : Tail(pushed)[i] = pushed[i + 1]
    BY <1>2, <1>3, <1>6, HeadTailProperties, EmptySeq
  <2>2. Len(Tail(pushed)) \in 1 .. UndoDepth BY <1>2, <1>3, <1>6, <2>1
  <2>3. Tail(pushed)[Len(Tail(pushed))] = pushed[Len(pushed)] BY <1>2, <2>1, <2>2
  <2>4. m_undoStack' = Tail(pushed) BY <1>4, <1>6
  <2>5. StackInv' BY <1>3, <1>4, <1>5, <2>1, <2>2, <2>4 DEF StackInv, UndoDepthKept
  <2> QED BY <1>2, <1>5, <2>2, <2>3, <2>4, <2>5 DEF Last
<1>7. CASE ~(Len(pushed) > UndoDepth)
  <2>1. m_undoStack' = pushed BY <1>4, <1>7
  <2>2. StackInv' BY <1>2, <1>3, <1>4, <1>5, <1>7, <2>1 DEF StackInv, UndoDepthKept
  <2> QED BY <1>2, <1>5, <2>1, <2>2 DEF Last
<1> QED BY <1>6, <1>7

\* Undoing and redoing move a movie from one stack to the other.
LEMMA ShiftFits ==
  ASSUME NEW from \in Seq(Place), from # <<>>, NEW to \in Seq(Place), NEW place \in Place
  PROVE  /\ Popped(from) \in Seq(Place) /\ Append(to, place) \in Seq(Place)
         /\ Len(Popped(from)) + Len(Append(to, place)) = Len(from) + Len(to)
         /\ Append(to, place) # <<>> /\ Last(Append(to, place)) = place
<1>1. Len(from) \in Nat \ {0} /\ Len(to) \in Nat BY EmptySeq, LenProperties
<1>2. Popped(from) \in Seq(Place) /\ Len(Popped(from)) = Len(from) - 1
  <2>1. ASSUME NEW i \in 1 .. Len(from) - 1 PROVE from[i] \in Place
    BY <1>1, <2>1, ElementOfSeq
  <2> DEFINE n == Len(from) - 1
  <2>2. 1 \in Int /\ n \in Nat BY <1>1
  <2>3. Popped(from) = SubSeq(from, 1, n) BY DEF Popped
  <2> HIDE DEF n
  <2>4. SubSeq(from, 1, n) \in Seq(Place) /\ Len(SubSeq(from, 1, n)) = IF 1 <= n THEN n - 1 + 1 ELSE 0
    BY <2>1, <2>2, SubSeqProperties DEF n
  <2>5. Len(SubSeq(from, 1, n)) = n BY <2>2, <2>4
  <2> QED BY <2>3, <2>4, <2>5 DEF n
<1>3. /\ Append(to, place) \in Seq(Place) /\ Len(Append(to, place)) = Len(to) + 1
      /\ Append(to, place)[Len(to) + 1] = place
  BY AppendProperties
<1>4. Append(to, place) # <<>> BY <1>1, <1>3, EmptySeq
<1> QED BY <1>1, <1>2, <1>3, <1>4 DEF Last

\* The steps that push what they change.
Pushing ==
  \/ \E typed \in Movies : EditAndAdvanceFrames(typed)
  \/ \E index \in Index, count \in Count :
       \/ InsertNeutralFrames(index, count) \/ DuplicateFrames(index, count)
       \/ \E to \in Index : MoveFrames(index, count, to)
  \/ \E index \in Index, input \in Input : SetFrameInput(index, input)
  \/ \E index \in Index : DeleteNext(index) /\ CanEditMovie /\ index < Len(m_movie)

LEMMA PushingPushes == Pushing => PushUndoState
BY DEF Pushing, EditAndAdvanceFrames, InsertNeutralFrames, DuplicateFrames, MoveFrames,
       SetFrameInput, DeleteNext, DeleteFrame

LEMMA EditPushes ==
  ASSUME EditStep
  PROVE  Pushing \/ Undo \/ Redo \/ UNCHANGED <<m_movie, stacks>>
<1>1. ASSUME NEW index \in Index, DeleteNext(index)
      PROVE  Pushing \/ UNCHANGED <<m_movie, stacks>>
  BY <1>1 DEF DeleteNext, Pushing, list
<1>2. ASSUME NEW rows, DeleteSelection(rows) PROVE UNCHANGED <<m_movie, stacks>>
  BY <1>2 DEF DeleteSelection, list
<1> QED BY <1>1, <1>2 DEF EditStep, Pushing

LEMMA OtherStepsKeepStacks ==
  ASSUME SessionStep \/ MoveStep \/ PlayStep \/ Frame \/ FreezeControls
  PROVE  UNCHANGED stacks \/ ResetMovie
BY DEF SessionStep, Enter, Exit, SaveBaseSnapshot, LoadBaseSnapshot, ResumeGame, ImportMovie,
       MoveStep, SeekToFrame, AdvanceOrExtend,
       PlayStep, StartPreview, StartPresentation, StopPlayback, StartLiveRecording,
       ClickStopRecording, StopLiveRecording,
       Frame, RecordFrame, RecordingLimit, FreeFrame, LeadInFrame, LeadOutFrame, MovieFrame,
       FreezeControls

LEMMA StackKeeps ==
  ASSUME Inv, Next
  PROVE  StackInv'
<1>1. m_movie \in Seq(Input) /\ m_playhead \in Nat /\ Here \in Place
  BY LenProperties DEF Inv, MovieInv, Here, Place
<1>2. StackInv /\ m_undoStack \in Seq(Place) /\ m_redoStack \in Seq(Place) /\ UndoDepthKept
  BY DEF Inv, StackInv
<1>3. CASE UNCHANGED stacks BY <1>2, <1>3 DEF StackInv, UndoDepthKept, stacks
<1>4. CASE Pushing BY <1>1, <1>2, <1>4, PushingPushes, PushFits
<1>5. CASE Undo
  <2>1. /\ m_undoStack # <<>> /\ m_undoStack' = Popped(m_undoStack)
        /\ m_redoStack' = Append(m_redoStack, Here)
    BY <1>5 DEF Undo
  <2>2. /\ Popped(m_undoStack) \in Seq(Place) /\ Append(m_redoStack, Here) \in Seq(Place)
        /\ Len(Popped(m_undoStack)) + Len(Append(m_redoStack, Here))
             = Len(m_undoStack) + Len(m_redoStack)
    BY <1>1, <1>2, <2>1, ShiftFits
  <2> QED BY <1>2, <2>1, <2>2 DEF StackInv, UndoDepthKept
<1>6. CASE Redo
  <2>1. /\ m_redoStack # <<>> /\ m_redoStack' = Popped(m_redoStack)
        /\ m_undoStack' = Append(m_undoStack, Here)
    BY <1>6 DEF Redo
  <2>2. /\ Popped(m_redoStack) \in Seq(Place) /\ Append(m_undoStack, Here) \in Seq(Place)
        /\ Len(Popped(m_redoStack)) + Len(Append(m_undoStack, Here))
             = Len(m_redoStack) + Len(m_undoStack)
    BY <1>1, <1>2, <2>1, ShiftFits
  <2>3. Len(m_redoStack) \in Nat /\ Len(m_undoStack) \in Nat BY <1>2, LenProperties
  <2>4. Len(Popped(m_redoStack)) \in Nat /\ Len(Append(m_undoStack, Here)) \in Nat
    BY <2>2, LenProperties
  <2> QED BY <1>2, <2>1, <2>2, <2>3, <2>4 DEF StackInv, UndoDepthKept
<1>7. CASE ResetMovie
  <2>1. m_undoStack' = <<>> /\ m_redoStack' = <<>> BY <1>7 DEF ResetMovie
  <2>2. <<>> \in Seq(Place) /\ Len(<<>>) = 0 OBVIOUS
  <2> QED BY <2>1, <2>2, SizesArePositive DEF StackInv, UndoDepthKept
<1>8. UNCHANGED <<m_movie, stacks>> => UNCHANGED stacks OBVIOUS
<1> QED BY <1>3, <1>4, <1>5, <1>6, <1>7, <1>8, EditPushes, OtherStepsKeepStacks DEF Next

-----------------------------------------------------------------------------
(* What can be taken back                                                   *)

LEMMA UntouchedExtends ==
  ASSUME m_movie \in Seq(Input), UNCHANGED m_movie
  PROVE  Extends(m_movie', m_movie)
BY LenProperties DEF Extends

\* Only an edit, or giving the movie up, does more to it than lengthen it.
LEMMA OtherStepsExtend ==
  ASSUME MovieInv, SessionStep \/ MoveStep \/ PlayStep \/ Frame \/ FreezeControls
  PROVE  Extends(m_movie', m_movie) \/ Exit \/ ResetMovie \/ ImportMovie(m_movie')
<1>1. m_movie \in Seq(Input) BY DEF MovieInv
<1>2. CASE SessionStep
  <2>1. CASE Enter
    <3>1. m_movie = <<>> /\ m_movie' = <<>> BY <2>1 DEF Enter, Reset, MovieInv
    <3> QED BY <1>1, <3>1, UntouchedExtends
  <2>2. CASE SaveBaseSnapshot BY <1>1, <2>2, UntouchedExtends DEF SaveBaseSnapshot
  <2>3. CASE LoadBaseSnapshot BY <1>1, <2>3, UntouchedExtends DEF LoadBaseSnapshot
  <2>4. CASE ResumeGame BY <1>1, <2>4, UntouchedExtends DEF ResumeGame, list
  <2>5. ASSUME NEW movie \in Movies, ImportMovie(movie) PROVE ImportMovie(m_movie')
    <3>1. m_movie' = movie BY <2>5 DEF ImportMovie
    <3> QED BY <2>5, <3>1
  <2> QED BY <1>2, <2>1, <2>2, <2>3, <2>4, <2>5 DEF SessionStep
<1>3. CASE MoveStep
  <2>1. ASSUME NEW target \in 0 .. Len(m_movie), SeekToFrame(target)
        PROVE  Extends(m_movie', m_movie)
    BY <1>1, <2>1, UntouchedExtends DEF SeekToFrame
  <2>2. ASSUME NEW count \in Count, AdvanceOrExtend(count) PROVE Extends(m_movie', m_movie)
    <3>1. m_playhead + count \in Nat
      BY MovieBoundType, LenProperties DEF Count, MovieInv
    <3>2. m_movie' = Extended(m_playhead + count) BY <2>2 DEF AdvanceOrExtend
    <3> QED BY <1>1, <3>1, <3>2, ExtendedProperties DEF Extends, SameFrames
  <2> QED BY <1>3, <2>1, <2>2 DEF MoveStep
<1>4. CASE PlayStep \/ Frame \/ FreezeControls
  <2>1. UNCHANGED m_movie
    BY <1>4
    DEF PlayStep, StartPreview, StartPresentation, StopPlayback, StartLiveRecording,
        ClickStopRecording, StopLiveRecording,
        Frame, RecordFrame, RecordingLimit, FreeFrame, LeadInFrame, LeadOutFrame, MovieFrame,
        FreezeControls, list
  <2> QED BY <1>1, <2>1, UntouchedExtends
<1> QED BY <1>2, <1>3, <1>4

LEMMA TakenBackStep == Inv /\ Next => CanBeTakenBack
<1> SUFFICES ASSUME Inv, Next PROVE CanBeTakenBack OBVIOUS
<1> USE DEF CanBeTakenBack
<1>1. m_movie \in Seq(Input) /\ m_playhead \in Nat /\ Here \in Place /\ StackInv
      /\ m_undoStack \in Seq(Place) /\ m_redoStack \in Seq(Place)
  BY LenProperties DEF Inv, MovieInv, StackInv, Here, Place
<1>2. CASE UNCHANGED <<m_movie, stacks>> BY <1>1, <1>2, UntouchedExtends
<1>3. CASE Pushing BY <1>1, <1>3, PushingPushes, PushFits
<1>4. CASE Undo BY <1>1, <1>4, ShiftFits DEF Undo
<1>5. CASE Redo BY <1>1, <1>5, ShiftFits DEF Redo
<1>6. CASE SessionStep \/ MoveStep \/ PlayStep \/ Frame \/ FreezeControls
  BY <1>6, OtherStepsExtend DEF Inv
<1> QED BY <1>2, <1>3, <1>4, <1>5, <1>6, EditPushes DEF Next

-----------------------------------------------------------------------------
(* The theorems                                                             *)

LEMMA StepInv == Inv /\ [Next]_vars => Inv'
<1> SUFFICES ASSUME Inv, [Next]_vars PROVE Inv' OBVIOUS
<1> USE DEF Inv
<1>1. CASE SessionStep BY <1>1, SessionKeeps, StackKeeps DEF Next
<1>2. CASE MoveStep BY <1>2, MoveKeeps, StackKeeps DEF Next
<1>3. CASE EditStep BY <1>3, EditKeeps, StackKeeps DEF Next
<1>4. CASE PlayStep BY <1>4, PlayKeeps, StackKeeps DEF Next
<1>5. CASE Frame BY <1>5, FrameKeeps, StackKeeps DEF Next
<1>6. CASE FreezeControls BY <1>6, FreezeKeeps, StackKeeps DEF Next
<1>7. CASE UNCHANGED vars
  <2>1. MovieInv' BY <1>7 DEF vars, list, keys, run, live, gate, modes, MovieInv
  <2>2. StackInv' BY <1>7 DEF vars, stacks, StackInv, UndoDepthKept
  <2>3. ModeInv' BY <1>7 DEF vars, list, keys, run, live, gate, modes, ModeInv
  <2> QED BY <2>1, <2>2, <2>3
<1> QED BY <1>1, <1>2, <1>3, <1>4, <1>5, <1>6, <1>7 DEF Next

LEMMA Invariance == Spec => []Inv
BY InitInv, StepInv, PTL DEF Spec

\* Every variable keeps its type, and the playhead, the keyframes and a run never point
\* behind the end of the movie, whatever is edited, undone, imported or recorded meanwhile.
THEOREM TypeCorrect == Spec => []TypeOK
BY Invariance, InvImplies, PTL

\* A match that has played as many frames as the playhead says has played those of the list.
THEOREM ScreenIsTheList == Spec => []ScreenShowsList
BY Invariance, InvImplies, PTL

\* So has every match saved in a keyframe, after any edits, seeks and undos.
THEOREM KeyframesAreTheList == Spec => []KeyframesShowList
BY Invariance, InvImplies, PTL

\* The undo and the redo stack together never outgrow kUndoDepth.
THEOREM UndoDepthIsKept == Spec => []UndoDepthKept
BY Invariance, InvImplies, PTL

\* No step changes or drops a frame of a movie without leaving the old movie on top of a
\* stack, unless it gives the movie up as a whole.
THEOREM EditsAreUndoable == Spec => EditsCanBeTakenBack
BY Invariance, TakenBackStep, PTL DEF Spec, EditsCanBeTakenBack
=============================================================================
