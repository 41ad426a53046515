----------------------------- MODULE OnlineMatch -----------------------------
(***************************************************************************)
(* The mods of a room's members and the packets between them:              *)
(* Network/RoomManager and NetworkManager, with the three managers that    *)
(* exchange something about a match over them: OnlinePaletteManager's      *)
(* download permissions, OnlineGameModeManager's choices and               *)
(* ReplayUploadManager's vetoes, as Game/MatchState drives them.           *)
(*                                                                         *)
(* The game keeps the room: who has which seat, who plays whom.  All       *)
(* members see the same table, at once, and at most one match is on at a   *)
(* time, in a room that is no free-for-all.  A member leaves the match in  *)
(* that table when its own game goes back to the lobby; what the table     *)
(* then says of its match index is not known, and stays as it was.         *)
(* Packets are sent unreliably: lost, delivered in any order, but not kept *)
(* from one match to the next, nor until sender or receiver is back from   *)
(* another room.                                                           *)
(*                                                                         *)
(* The voice choice takes the permission's path and is left out; palettes  *)
(* themselves are MatchPalettes'.                                          *)
(***************************************************************************)
EXTENDS Integers, FiniteSets

CONSTANTS
  Member,      \* machines with the mod
  Seat,        \* indices of the room's table
  Mode,        \* custom game modes
  None,        \* the normal mode, nobody, nothing said
  Sharing,     \* the members whose palettes may be saved
  Uploading,   \* the members who let replays be uploaded
  MaxPackets   \* bound on the packets in flight

ASSUME NoneAssumption == None \notin Member \cup Mode \cup BOOLEAN
ASSUME SettingsAssumption == Sharing \subseteq Member /\ Uploading \subseteq Member

Slot   == {0, 1}
Choice == Mode \cup {None}

VARIABLES
  room,        \* external: who sits where
  place,       \* external: matchId and matchPlayerIndex of every member
  scene,       \* "out", "room", "select", "match" or "victory", per machine
  known,       \* m_imPlayers: the members known to have the mod, by seat
  choice,      \* m_player1GameModeChoice and m_player2GameModeChoice
  active,      \* m_activeGameMode
  permission,  \* m_playerPaletteDownloadPermissions
  pending,     \* m_matchInitPending
  veto,        \* uploadReplayDataVeto
  packets,     \* what is in flight
  lost,        \* history: whether an announcement or acknowledgement was lost
  picked,      \* history: the custom modes a member chose since it left the lobby
  heard        \* history: whose refusal reached a member since they were paired

table   == <<room, place>>
modes   == <<choice, active>>
history == <<lost, picked, heard>>
vars    == <<table, scene, known, modes, permission, pending, veto, packets, history>>

-----------------------------------------------------------------------------
(* RoomManager                                                              *)

Here(m)       == {i \in Seat : room[i] = m}
SeatOf(m)     == CHOOSE i \in Seat : room[i] = m
SameMatch(a, b) == place[a].match = place[b].match
Spectating(m) == place[m].index > 1

\* The table's rows in the own match that a known member is said to sit in.
Rows(m) == {i \in Seat : /\ known[m][i] # None /\ room[i] # None
                         /\ SameMatch(room[i], m)}

\* Who a packet to the same match goes to: strangers who have taken a known seat are struck
\* off the list instead.  The replay packet is for those who play.
Recipients(m)    == {room[i] : i \in {j \in Rows(m) : room[j] = known[m][j]}} \ {m}
NonSpectating(s) == {m \in s : ~Spectating(m)}
Pruned(m, rows) ==
  [known EXCEPT ![m] =
     [i \in Seat |-> IF i \in rows /\ room[i] # known[m][i] THEN None ELSE known[m][i]]]

\* SendPacket.  One packet of each kind may be on its way between two members.
Packet(kind, from, to, says) ==
  [kind |-> kind, from |-> from, seat |-> SeatOf(from), to |-> to, says |-> says]
Sent(kind, from, recipients, says) == {Packet(kind, from, to, says) : to \in recipients}
InFlight(s) == packets' = s /\ Cardinality(s) <= MaxPackets

Nobody == [i \in Seat |-> None]
NoPlace == [match |-> 0, index |-> 0]
NoPermissions == [s \in Slot |-> None]
NoChoices == [s \in Slot |-> None]

Init ==
  /\ room = Nobody
  /\ place = [m \in Member |-> NoPlace]
  /\ scene = [m \in Member |-> "out"]
  /\ known = [m \in Member |-> Nobody]
  /\ choice = [m \in Member |-> NoChoices] /\ active = [m \in Member |-> None]
  /\ permission = [m \in Member |-> NoPermissions]
  /\ pending = [m \in Member |-> FALSE] /\ veto = [m \in Member |-> FALSE]
  /\ packets = {} /\ lost = FALSE
  /\ picked = [m \in Member |-> {}] /\ heard = [m \in Member |-> {}]

\* GetRoomOne, GetRoomTwo: JoinRoom and SendAnnounce.
JoinRoom(m, i) ==
  /\ scene[m] = "out" /\ room[i] = None
  /\ room' = [room EXCEPT ![i] = m] /\ scene' = [scene EXCEPT ![m] = "room"]
  /\ known' = [known EXCEPT ![m] = [Nobody EXCEPT ![i] = m]]
  /\ InFlight(packets \cup
       {[kind |-> "announce", from |-> m, seat |-> i, to |-> room[j], says |-> None] :
          j \in {j \in Seat : room[j] # None}})
  /\ UNCHANGED <<place, modes, permission, pending, veto, history>>

-----------------------------------------------------------------------------
(* Into and out of a match                                                  *)

\* The game pairs two members; others may watch.
Pair(a, b, watchers) ==
  LET players == {a, b} \cup watchers IN
  /\ a # b /\ \A m \in players : scene[m] = "room"
  /\ \A m \in Member : place[m].match = 0
  /\ place' = [m \in Member |->
       IF m \notin players THEN place[m]
       ELSE [match |-> 1, index |-> CASE m = a -> 0 [] m = b -> 1 [] OTHER -> 2]]
  /\ packets' = {p \in packets : p.kind \in {"announce", "acknowledge"}}
  /\ heard' = [m \in Member |-> IF m \in players THEN {} ELSE heard[m]]
  /\ UNCHANGED <<room, scene, known, modes, permission, pending, veto, lost, picked>>

EnterCharacterSelect(m) ==
  /\ scene[m] = "victory" \/ (scene[m] = "room" /\ place[m].match = 1)
  /\ scene' = [scene EXCEPT ![m] = "select"]
  /\ UNCHANGED <<table, known, modes, permission, pending, veto, packets, history>>

\* GameModeSelectWidget: SetThisPlayerGameMode and SendGameModePacket.
SelectGameMode(m, mode) ==
  /\ scene[m] = "select" /\ ~Spectating(m)
  /\ active' = [active EXCEPT ![m] = mode]
  /\ choice' = [choice EXCEPT ![m][place[m].index] = mode]
  /\ InFlight(packets \cup Sent("mode", m, Recipients(m), mode))
  /\ known' = Pruned(m, Rows(m))
  /\ picked' = [picked EXCEPT ![m] = @ \cup ({mode} \ {None})]
  /\ UNCHANGED <<table, scene, permission, pending, veto, lost, heard>>

\* Slip: one player's choice is taken when the other's has not come.
EitherGameModeChoice(m) == IF choice[m][0] # None THEN choice[m][0] ELSE choice[m][1]

\* What a match starts in: both choices, if they are the same.
GetSettledGameModeChoice(m) ==
  IF choice[m][0] = choice[m][1] THEN choice[m][0] ELSE None

\* Of the veto nothing is forgotten here: the other player may have been faster.
VetoForgotten(m) == veto' = [veto EXCEPT ![m] = FALSE]
VetoKept(m) == UNCHANGED veto

KeepPermissions(m) == UNCHANGED permission
ForgetPermissions(m) == permission' = [permission EXCEPT ![m] = NoPermissions]

\* MatchState::OnMatchInit, with OnlinePaletteManager, OnlineGameModeManager and, from those
\* who play, ReplayUploadManager.  The palette packets wait until the handle is ready.
OnMatchInit(m) ==
  LET told == NonSpectating(Recipients(m)) IN
  /\ scene[m] \in {"select", "victory"} /\ scene' = [scene EXCEPT ![m] = "match"]
  /\ ForgetPermissions(m)
  /\ pending' = [pending EXCEPT ![m] = ~Spectating(m)]
  /\ active' = [active EXCEPT ![m] = GetSettledGameModeChoice(m)]
  /\ VetoKept(m)
  /\ IF Spectating(m)
     THEN UNCHANGED <<known, packets>>
     ELSE /\ InFlight(packets \cup Sent("upload", m, told, m \in Uploading))
          /\ known' = Pruned(m, {i \in Rows(m) : ~Spectating(room[i])})
  /\ UNCHANGED <<table, choice, history>>

\* OnUpdate, once the own handle is ready: SendPalettePackets.
OnUpdate(m) ==
  /\ pending[m] /\ pending' = [pending EXCEPT ![m] = FALSE]
  /\ InFlight(packets \cup Sent("permission", m, Recipients(m), m \in Sharing))
  /\ known' = Pruned(m, Rows(m))
  /\ UNCHANGED <<table, scene, modes, permission, veto, history>>

NothingCleared(m) == KeepPermissions(m) /\ UNCHANGED pending
ClearSavedPalettePacketQueues(m) ==
  ForgetPermissions(m) /\ pending' = [pending EXCEPT ![m] = FALSE]

\* MatchState::OnMatchRematch
EnterVictory(m) ==
  /\ scene[m] = "match" /\ scene' = [scene EXCEPT ![m] = "victory"]
  /\ ClearSavedPalettePacketQueues(m)
  /\ UNCHANGED <<table, known, modes, veto, packets, history>>

ChoicesKept(m) == UNCHANGED choice
ClearPlayerGameModeChoices(m) == choice' = [choice EXCEPT ![m] = NoChoices]

OnMatchEnd(m) ==
  /\ active' = [active EXCEPT ![m] = None]
  /\ ClearSavedPalettePacketQueues(m)
  /\ ClearPlayerGameModeChoices(m)
  /\ VetoForgotten(m)
  /\ picked' = [picked EXCEPT ![m] = {}] /\ heard' = [heard EXCEPT ![m] = {}]

\* GetGameStateLobby
EnterLobby(m) ==
  /\ scene[m] \in {"select", "match", "victory"}
  /\ scene' = [scene EXCEPT ![m] = "room"]
  /\ place' = [place EXCEPT ![m].match = 0]
  /\ OnMatchEnd(m)
  /\ UNCHANGED <<room, known, packets, lost>>

\* The main menu, whatever the machine was at.  Packets still on their way from it or to it
\* would be dropped by the first gate; the list of members stays until the next room is
\* joined, and is not read before: the model empties it here.
LeaveRoom(m) ==
  /\ scene[m] # "out" /\ scene' = [scene EXCEPT ![m] = "out"]
  /\ room' = [i \in Seat |-> IF room[i] = m THEN None ELSE room[i]]
  /\ place' = [place EXCEPT ![m] = NoPlace] /\ known' = [known EXCEPT ![m] = Nobody]
  /\ packets' = {p \in packets : m \notin {p.from, p.to}}
  /\ OnMatchEnd(m)
  /\ UNCHANGED lost

-----------------------------------------------------------------------------
(* NetworkManager::RecvPacket                                               *)

IsPacketFromSameRoom(p) == scene[p.to] # "out" /\ room[p.seat] = p.from
IsPacketFromSameMatchNonSpectator(p) == SameMatch(p.from, p.to) /\ ~Spectating(p.from)

\* AddIMPlayerToRoom
StrangerAnswered(m, p) == UNCHANGED known
Knows(m, p) == known' = [known EXCEPT ![m][p.seat] = p.from]

RecvAnnounce(p) ==
  /\ p.kind = "announce" /\ IsPacketFromSameRoom(p)
  /\ Knows(p.to, p)
  /\ InFlight((packets \ {p}) \cup Sent("acknowledge", p.to, {p.from}, None))
  /\ UNCHANGED <<table, scene, modes, permission, pending, veto, history>>

RecvAcknowledge(p) ==
  /\ p.kind = "acknowledge" /\ IsPacketFromSameRoom(p)
  /\ Knows(p.to, p)
  /\ packets' = packets \ {p}
  /\ UNCHANGED <<table, scene, modes, permission, pending, veto, history>>

RecvPaletteDownloadPermissionPacket(p) ==
  /\ p.kind = "permission" /\ IsPacketFromSameRoom(p) /\ IsPacketFromSameMatchNonSpectator(p)
  /\ permission' = [permission EXCEPT ![p.to][place[p.from].index] = p.says]
  /\ packets' = packets \ {p}
  /\ UNCHANGED <<table, scene, known, modes, pending, veto, history>>

\* Only on the character select: a choice made before the other is there is dropped.
RecvGameModePacket(p) ==
  /\ p.kind = "mode" /\ IsPacketFromSameRoom(p) /\ IsPacketFromSameMatchNonSpectator(p)
  /\ scene[p.to] = "select"
  /\ choice' = [choice EXCEPT ![p.to][place[p.from].index] = p.says]
  /\ packets' = packets \ {p}
  /\ UNCHANGED <<table, scene, known, active, permission, pending, veto, history>>

RecvReplayUploadEnabledBroadcastPacket(p) ==
  /\ p.kind = "upload" /\ IsPacketFromSameRoom(p) /\ IsPacketFromSameMatchNonSpectator(p)
  /\ veto' = IF p.says THEN veto ELSE [veto EXCEPT ![p.to] = TRUE]
  /\ heard' = IF p.says \/ place[p.to].match = 0 THEN heard
              ELSE [heard EXCEPT ![p.to] = @ \cup {p.from}]
  /\ packets' = packets \ {p}
  /\ UNCHANGED <<table, scene, known, modes, permission, pending, lost, picked>>

\* Not of this room, not of this match, or not on this screen.
Ignore(p) ==
  /\ \/ ~IsPacketFromSameRoom(p)
     \/ p.kind \notin {"announce", "acknowledge"} /\ ~IsPacketFromSameMatchNonSpectator(p)
     \/ p.kind = "mode" /\ scene[p.to] # "select"
  /\ packets' = packets \ {p}
  /\ UNCHANGED <<table, scene, known, modes, permission, pending, veto, history>>

Lose(p) ==
  /\ packets' = packets \ {p}
  /\ lost' = (lost \/ p.kind \in {"announce", "acknowledge"})
  /\ UNCHANGED <<table, scene, known, modes, permission, pending, veto, picked, heard>>

RecvPacket(p) ==
  \/ RecvAnnounce(p) \/ RecvAcknowledge(p) \/ RecvPaletteDownloadPermissionPacket(p)
  \/ RecvGameModePacket(p) \/ RecvReplayUploadEnabledBroadcastPacket(p) \/ Ignore(p)

Next ==
  \/ \E m \in Member, i \in Seat : JoinRoom(m, i)
  \/ \E a, b \in Member : \E w \in SUBSET (Member \ {a, b}) : Pair(a, b, w)
  \/ \E m \in Member, mode \in Choice : SelectGameMode(m, mode)
  \/ \E m \in Member : \/ EnterCharacterSelect(m) \/ OnMatchInit(m) \/ OnUpdate(m)
                       \/ EnterVictory(m) \/ EnterLobby(m) \/ LeaveRoom(m)
  \/ \E p \in packets : RecvPacket(p) \/ Lose(p)

Spec == Init /\ [][Next]_vars

-----------------------------------------------------------------------------
(* Properties                                                               *)

PacketsOf(kinds, says) ==
  [kind : kinds, from : Member, seat : Seat, to : Member, says : says]
PacketRecord ==
  PacketsOf({"announce", "acknowledge"}, {None}) \cup PacketsOf({"mode"}, Choice)
    \cup PacketsOf({"permission", "upload"}, BOOLEAN)

\* Whoever is in the room has one seat, and only a match waits for its handle.
TypeOK ==
  /\ room \in [Seat -> Member \cup {None}]
  /\ place \in [Member -> [match : {0, 1}, index : 0 .. 2]]
  /\ scene \in [Member -> {"out", "room", "select", "match", "victory"}]
  /\ known \in [Member -> [Seat -> Member \cup {None}]]
  /\ choice \in [Member -> [Slot -> Choice]] /\ active \in [Member -> Choice]
  /\ permission \in [Member -> [Slot -> BOOLEAN \cup {None}]]
  /\ pending \in [Member -> BOOLEAN] /\ veto \in [Member -> BOOLEAN]
  /\ packets \subseteq PacketRecord /\ lost \in BOOLEAN
  /\ picked \in [Member -> SUBSET Mode] /\ heard \in [Member -> SUBSET Member]
  /\ \A m \in Member : /\ scene[m] = "out" <=> Here(m) = {}
                       /\ \A i, j \in Here(m) : i = j
                       /\ pending[m] => scene[m] = "match"

\* Two members of a room come to know each other, at their seats, whoever sat there before
\* and whatever was joined or left meanwhile, unless one of their packets is lost.
EveryoneIsKnown ==
  ~lost /\ (\A p \in packets : p.kind \notin {"announce", "acknowledge"}) =>
    \A i, j \in Seat : room[i] # None /\ room[j] # None => known[room[i]][j] = room[j]

\* In a match, what is recorded of a player's permission is what that player allows, not
\* what one who had the seat or the side before did.
PermissionIsTheirs ==
  \A m, o \in Member :
    scene[m] = "match" /\ SameMatch(m, o) /\ place[m].match = 1 /\ ~Spectating(o) =>
      LET recorded == permission[m][place[o].index] IN
      recorded # None => recorded = (o \in Sharing)

\* A custom mode is started only by players and watchers of a match whose two players have
\* both chosen it since they left the lobby.
ModeNeedsBoth ==
  \A m, o \in Member :
    scene[m] = "match" /\ active[m] # None /\ SameMatch(m, o) /\ ~Spectating(o) =>
      active[m] \in picked[o]

\* A refusal that has reached a machine, though its own match had not started yet, keeps it
\* from uploading as long as it stays in the match.
RefusalIsKept ==
  \A m \in Member : heard[m] # {} => veto[m]

\* What is left of all this between the machines of a match: MatchTerms.  Packets that are
\* lost, late or from a match before, seats taken over by strangers, and lists of members come
\* down to this: what a machine knows of the others it learns from those who play now, a mode
\* is settled once for each match and by both players, and a match that ends takes it all away.
Playing == {m \in Member : scene[m] = "match"}
PlayedMode == [m \in Member |-> IF scene[m] = "match" THEN active[m] ELSE None]
KnownPermissions == [m \in Member |-> IF scene[m] = "match" THEN permission[m] ELSE NoPermissions]

Terms == INSTANCE MatchTerms WITH
  playing <- Playing, mode <- PlayedMode, allowed <- KnownPermissions

ImplementsTerms == Terms!Spec
=============================================================================
