------------------------------ MODULE Costumes ------------------------------
(***************************************************************************)
(* What custom palettes promise the players of a match, with no colour     *)
(* byte, switch indices, character memory, backups, queues or frames: each *)
(* begins in the colour that was picked or in a palette of whoever plays   *)
(* it, and changes only when the player at this machine dresses or         *)
(* undresses it or the opponent's palette comes.  The one thing that may   *)
(* come between is a palette the last opponent left in the lobby, and it   *)
(* is gone with the match.  MatchPalettes implements it.                   *)
(***************************************************************************)
CONSTANTS Slot, Color, Local, Remote, None

VARIABLES
  playing,    \* a match is on
  yours,      \* the slots whose palettes are chosen at this machine
  guest,      \* the palette of the opponent, if there is one
  left,       \* the palette each slot will find that was sent for the match before, if any
  pick,       \* the colour each player has picked, if any
  worn        \* what is promised to be seen of each slot; None: nothing is

vars == <<playing, yours, guest, left, pick, worn>>

Init ==
  /\ playing = FALSE /\ yours \subseteq Slot /\ guest = None
  /\ left = [s \in Slot |-> None]
  /\ pick = [s \in Slot |-> None] /\ worn = [s \in Slot |-> None]

\* Between matches: players meet, and pick.
Between ==
  /\ ~playing
  /\ yours' \subseteq Slot /\ guest' \in Remote \cup {None}
  /\ left' \in [Slot -> Remote \cup {None}] /\ pick' \in [Slot -> Color \cup {None}]
  /\ UNCHANGED <<playing, worn>>

\* What was left may be found, or forgotten over something newer, and is not found twice.
Found(still) == still \in [Slot -> Remote \cup {None}] /\ \A s \in Slot : still[s] \in {left[s], None}

\* Nobody begins in what another player's palettes are, or in what the match before showed.
Begin ==
  /\ ~playing /\ playing' = TRUE
  /\ worn' \in [Slot -> Color \cup Local \cup Remote \cup {None}]
  /\ \A s \in Slot :
       worn'[s] \in {None, pick[s], left[s]} \cup IF s \in yours THEN Local ELSE {guest}
  /\ Found(left')
  /\ UNCHANGED <<yours, guest, pick>>

Dress(s, palette) ==
  /\ playing /\ s \in yours /\ worn[s] # None
  /\ worn' = [worn EXCEPT ![s] = palette]
  /\ UNCHANGED <<playing, yours, guest, left, pick>>

Undress(s) ==
  /\ playing /\ worn[s] # None
  /\ worn' = [worn EXCEPT ![s] = pick[s]]
  /\ UNCHANGED <<playing, yours, guest, left, pick>>

\* The opponent's palette comes, or what was left in the lobby is found; both slots may
\* change at once.
Receive ==
  /\ playing
  /\ worn' \in [Slot -> Color \cup Local \cup Remote \cup {None}]
  /\ \A s \in Slot :
       worn'[s] # worn[s] =>
         /\ worn[s] # None
         /\ (s \notin yours /\ worn'[s] = guest) \/ (worn'[s] = left[s] /\ left'[s] = None)
  /\ Found(left')
  /\ UNCHANGED <<playing, yours, guest, pick>>

\* The next match finds nothing that was left for this one.
End ==
  /\ playing /\ playing' = FALSE
  /\ yours' \subseteq Slot /\ guest' \in {guest, None} /\ worn' = [s \in Slot |-> None]
  /\ left' = [s \in Slot |-> None]
  /\ UNCHANGED pick

Next ==
  \/ Between \/ Begin \/ Receive \/ End
  \/ \E s \in Slot : Undress(s) \/ \E palette \in Local : Dress(s, palette)

Spec == Init /\ [][Next]_vars
=============================================================================
