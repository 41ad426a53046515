--------------------------- MODULE UpdateHandover ---------------------------
(***************************************************************************)
(* What the game's side of an update promises, with no snapshot, window,   *)
(* thread or stage folder: a game session applies one release at a time;   *)
(* an apply ends in a failure that leaves the session as it was, or in the *)
(* exit of the game together with the handing over of that one release.    *)
(* UpdateCoordinator implements it.                                        *)
(***************************************************************************)
CONSTANT Release

VARIABLES
  phase,     \* of the game: "off", "playing" or "applying"
  handed     \* the releases whose files the updater is given: one, or none

vars == <<phase, handed>>

Init == phase = "off" /\ handed = {}

StartGame == phase = "off" /\ handed = {} /\ phase' = "playing" /\ UNCHANGED handed
CloseGame == phase' = "off" /\ UNCHANGED handed
Begin     == phase = "playing" /\ phase' = "applying" /\ UNCHANGED handed
Fail      == phase = "applying" /\ phase' = "playing" /\ UNCHANGED handed

HandOver(release) ==
  /\ phase = "applying" /\ phase' = "off"
  /\ handed' = {release}

Install == phase = "off" /\ handed' = {} /\ UNCHANGED phase

Next ==
  \/ StartGame \/ CloseGame \/ Begin \/ Fail \/ Install
  \/ \E release \in Release : HandOver(release)

Spec == Init /\ [][Next]_vars
=============================================================================
