----------------------------- MODULE MusicShelf -----------------------------
(***************************************************************************)
(* What replacing the game's music promises the player, with no table, no  *)
(* row states, no queue, windows, counters or ini: every track has its own *)
(* music and, once a song has been converted for it, a file on a shelf,    *)
(* and is switched to the one or the other.  A switch may jam, which       *)
(* nobody notices until it is thrown again.  BgmReplacement implements it. *)
(***************************************************************************)
CONSTANTS Track, Song, None

VARIABLES
  wanted,     \* the tracks a song was asked for, and not taken back since
  making,     \* the songs asked for a track that are still to be converted
  shelf,      \* the file of each track
  replaced,   \* the tracks for which the game is to load that file, and does
  jammed      \* the tracks whose switch did not move when it was last thrown: what the
              \* game loads for them is the other of the two

vars == <<wanted, making, shelf, replaced, jammed>>

Init ==
  /\ wanted = {} /\ making = [t \in Track |-> {}]
  /\ shelf = [t \in Track |-> None] /\ replaced = {} /\ jammed = {}

\* Only a switch that is thrown jams or comes free.
Thrown(tracks) == jammed' \in {(jammed \ tracks) \cup jam : jam \in SUBSET tracks}

\* The track has its own music back until the song is there.
Ask(t, song) ==
  /\ wanted' = wanted \cup {t} /\ replaced' = replaced \ {t} /\ Thrown({t})
  /\ making' = [making EXCEPT ![t] = @ \cup {song}]
  /\ UNCHANGED shelf

\* The song is gone: what the game loads stays.
Refuse(t) == wanted' = wanted \cup {t} /\ UNCHANGED <<making, shelf, replaced, jammed>>

\* A conversion ends; the same song may have been asked for again.
Made(t, song) ==
  /\ UNCHANGED <<wanted, replaced, jammed>>
  /\ song \in making[t]
  /\ making' \in {making, [making EXCEPT ![t] = @ \ {song}]}

Convert(t, song) == shelf' = [shelf EXCEPT ![t] = song] /\ Made(t, song)
Fail(t, song)    == UNCHANGED shelf /\ Made(t, song)

SwitchOn(t) ==
  /\ t \in wanted /\ shelf[t] # None
  /\ replaced' = replaced \cup {t} /\ jammed' = jammed \ {t}
  /\ UNCHANGED <<wanted, making, shelf>>

SwitchOff(t) == replaced' = replaced \ {t} /\ Thrown({t}) /\ UNCHANGED <<wanted, making, shelf>>

\* A song that is ready only after its track was taken back is thrown away.
Discard(t) ==
  /\ t \notin wanted
  /\ shelf' = [shelf EXCEPT ![t] = None]
  /\ UNCHANGED <<wanted, making, replaced, jammed>>

\* Of the songs asked for, the one being converted cannot be called back.  Other tracks
\* notice nothing.
TakeBack(tracks) ==
  /\ wanted' = wanted \ tracks /\ replaced' = replaced \ tracks /\ Thrown(tracks)
  /\ \A t \in tracks : \E song \in Song : making'[t] \subseteq making[t] \cap {song}
  /\ making' = [t \in Track |-> IF t \in tracks THEN making'[t] ELSE making[t]]
  /\ \E gone \in SUBSET tracks : shelf' = [t \in Track |-> IF t \in gone THEN None ELSE shelf[t]]

\* The game ends, at any moment, and starts again.  Nothing taken back returns, and what was
\* replaced still is, unless the user has deleted its file in between or its switch jams.
Restart ==
  /\ \E gone \in SUBSET Track : shelf' = [t \in Track |-> IF t \in gone THEN None ELSE shelf[t]]
  /\ \A t \in Track : making'[t] = {}
  /\ wanted' \in SUBSET wanted /\ replaced \subseteq wanted'
  /\ jammed' \in SUBSET {t \in wanted' : shelf'[t] # None}
  /\ replaced' = {t \in wanted' \ jammed' : shelf'[t] # None}

Next ==
  \/ Restart
  \/ \E t \in Track, song \in Song : Ask(t, song) \/ Convert(t, song) \/ Fail(t, song)
  \/ \E t \in Track : Refuse(t) \/ SwitchOn(t) \/ SwitchOff(t) \/ Discard(t)
  \/ \E tracks \in SUBSET Track : TakeBack(tracks)

Spec == Init /\ [][Next]_vars
=============================================================================
