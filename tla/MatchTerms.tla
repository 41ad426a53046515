----------------------------- MODULE MatchTerms -----------------------------
(***************************************************************************)
(* What the mods of a match's players and watchers agree on, with no       *)
(* packets, seats, lists of members, screens or rooms: a machine plays a   *)
(* custom mode only when both players have picked it, and takes a player's *)
(* palettes to be free to keep, or not, only when that player says so.     *)
(* OnlineMatch implements it.                                              *)
(***************************************************************************)
EXTENDS Integers

CONSTANTS Member, Mode, None, Sharing

VARIABLES
  place,      \* the game's: who is in the match, and on which side or watching
  picked,     \* the custom modes a member has picked since the lobby
  playing,    \* the members whose machines are in the match
  mode,       \* the mode each of them plays, None for the normal one
  allowed     \* what each of them knows of the permission of each side

vars == <<place, picked, playing, mode, allowed>>

Side == {0, 1}
Plays(m) == place[m].match = 1 /\ place[m].index \in Side
Nothing == [s \in Side |-> None]

Init ==
  /\ place = [m \in Member |-> [match |-> 0, index |-> 0]]
  /\ picked = [m \in Member |-> {}] /\ playing = {}
  /\ mode = [m \in Member |-> None] /\ allowed = [m \in Member |-> Nothing]

\* The game pairs members that are in no match, one to a side; others may watch.
Meet ==
  /\ \A m \in Member : place[m].match = 0
  /\ \A s \in Side : \E player \in Member :
       {m \in Member : place'[m] = [match |-> 1, index |-> s]} = {player}
  /\ \A m \in Member : place'[m] = place[m] \/ place'[m].match = 1
  /\ place' \in [Member -> [match : {0, 1}, index : 0 .. 2]]
  /\ UNCHANGED <<picked, playing, mode, allowed>>

Pick(m, new) ==
  /\ m \notin playing /\ Plays(m)
  /\ picked' = [picked EXCEPT ![m] = @ \cup {new}]
  /\ UNCHANGED <<place, playing, mode, allowed>>

\* Whoever has left the match has no say any more.
Begin(m) ==
  /\ place[m].match = 1 /\ m \notin playing /\ playing' = playing \cup {m}
  /\ \E new \in {None} \cup {x \in Mode : \A o \in Member : Plays(o) => x \in picked[o]} :
       mode' = [mode EXCEPT ![m] = new]
  /\ UNCHANGED <<place, picked, allowed>>

Learn(m, player) ==
  /\ m \in playing /\ Plays(player)
  /\ allowed' = [allowed EXCEPT ![m][place[player].index] = player \in Sharing]
  /\ UNCHANGED <<place, picked, playing, mode>>

\* Between two matches against each other nothing is known, and what was picked stays picked.
Stops(m) ==
  /\ playing' = playing \ {m}
  /\ mode' = [mode EXCEPT ![m] = None] /\ allowed' = [allowed EXCEPT ![m] = Nothing]

Stop(m) == m \in playing /\ Stops(m) /\ UNCHANGED <<place, picked>>

Leave(m) ==
  /\ \E i \in 0 .. 2 : place' = [place EXCEPT ![m] = [match |-> 0, index |-> i]]
  /\ picked' = [picked EXCEPT ![m] = {}]
  /\ Stops(m)

Next ==
  \/ Meet
  \/ \E m \in Member : \/ Begin(m) \/ Stop(m) \/ Leave(m)
                       \/ \E new \in Mode : Pick(m, new)
                       \/ \E player \in Member : Learn(m, player)

Spec == Init /\ [][Next]_vars
=============================================================================
