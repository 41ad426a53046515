---------------------------- MODULE MatchPalettes ----------------------------
(***************************************************************************)
(* The palettes of a match on one machine: Palette/CharPaletteHandle and   *)
(* the match hooks of PaletteManager, Network/OnlinePaletteManager, and    *)
(* the calls Game/MatchState and the scene hooks make to them.             *)
(*                                                                         *)
(* The game keeps a colour byte per player, written by character select    *)
(* and read when the match loads.  The mod overwrites the storage of two   *)
(* colours with a custom palette and flips the byte between them, which    *)
(* makes the game redraw the character; it must have put the player's own  *)
(* colour back before the byte is read again.                              *)
(*                                                                         *)
(* The eight files of a palette are one; its name and author are left out, *)
(* and so are the packets this machine sends.  Loading foreign palettes is *)
(* switched on: switched off, packets are as good as lost.  The colour     *)
(* bytes' addresses are known since the first versus screen, before        *)
(* anything is loaded, and the switch indices, zero before the first       *)
(* match, are always in range: IsPaletteDataReady comes down to the        *)
(* storage being there.  Of the packets that wait for a slot only the last *)
(* is kept, since all of them are applied in one frame, in order.          *)
(***************************************************************************)
EXTENDS Integers

CONSTANTS
  MaxColor,    \* MAX_PAL_INDEX
  Local,       \* the palettes of this machine's folders
  Remote,      \* the palettes of the opponents, one each
  Seat         \* the match player indices this machine may have

Slot  == {0, 1}
Color == 0 .. MaxColor
\* What a colour's storage holds as loaded is that colour; elsewhere: no palette, no packet, no
\* colour, a backup never made, and the palettes.ini entry that names the "Default" palette.
None     == 0 - 1
Original == 0 - 2
Custom   == Local \cup Remote
Content  == Color \cup Custom

ASSUME MaxColorAssumption == MaxColor \in Nat \ {0}
ASSUME PaletteAssumption == Local \cap Remote = {} /\ Custom \cap Int = {}
ASSUME SeatAssumption == Seat \subseteq 0 .. 2

VARIABLES
  scene,      \* "menu" (lobbies too), "select", "loading" (versus screen too), "match", "victory"
  online,     \* RoomManager::IsRoomFunctional; true in a room's lobby as well
  me,         \* the match player index of this machine; 2, a spectator
  rival,      \* the palette of the opponent, in a lobby of the last one
  handle,     \* the CharPaletteHandle of each slot, with the memory it points to
  queue,      \* m_unprocessedPaletteFiles: what waits for each slot
  pending,    \* m_matchInitPending
  pick,       \* history: the colour each player picked last
  early,      \* history: the slots whose byte a packet flipped before the match read it
  chosen,     \* history: what each slot of a match loaded in time was last told to show
  left        \* history: what waits for each slot and was sent for the match before

setting == <<online, me, rival>>
history == <<pick, early, chosen, left>>
vars    == <<scene, setting, handle, queue, pending, history>>

Spectating == me = 2
Others == IF Spectating THEN Slot ELSE Slot \ {me}

-----------------------------------------------------------------------------
(* CharPaletteHandle.  colour is *m_pCurPalIndex, orig m_origPalIndex, sw1   *)
(* and sw2 the switch indices, loaded a base address that is not null.       *)

Natives == [c \in Color |-> c]
NewHandle == [colour |-> 0, orig |-> None, sw1 |-> 0, sw2 |-> 0, locked |-> FALSE,
              loaded |-> FALSE, store |-> Natives, backup |-> None]

\* Not switched more than once per frame.
UpdatePalette(h) ==
  IF h.locked THEN h
  ELSE [h EXCEPT !.colour = IF @ = h.sw1 THEN h.sw2 ELSE h.sw1, !.locked = TRUE]

WrittenOnce(h, content) ==
  IF content = None THEN h.store ELSE [h.store EXCEPT ![h.sw1] = content]
Written(h, content) ==
  IF content = None THEN h.store
  ELSE [c \in Color |-> IF c \in {h.sw1, h.sw2} THEN content ELSE h.store[c]]

\* ReplacePalData and ReplaceSinglePalFile.  The blocks of a backup never made are skipped.
Replace(h, content) ==
  IF h.loaded THEN UpdatePalette([h EXCEPT !.store = Written(h, content)]) ELSE h

RestoreOrigPal(h) == Replace(h, h.backup)

RestoreNativePalIndex(h) == IF h.orig = None THEN h ELSE [h EXCEPT !.colour = h.orig]

NextColor(c) == c + 1
SecondOf(c) == IF c = MaxColor THEN c - 1 ELSE c + 1

\* The backup is of the colour just read; whether it can be made is tested with the switch
\* indices of the match before.
InitHandle(h) ==
  [h EXCEPT !.orig = h.colour, !.backup = IF h.loaded THEN h.store[h.colour] ELSE @,
            !.sw1 = h.colour, !.sw2 = SecondOf(h.colour)]

ApplyDefaultCustomPalette(h, palette) ==
  CASE palette = None     -> h
    [] palette = Original -> RestoreOrigPal(h)
    [] OTHER              -> Replace(h, palette)

Unloaded(h) == [h EXCEPT !.loaded = FALSE, !.store = Natives]

-----------------------------------------------------------------------------
(* OnlinePaletteManager                                                     *)

\* Slip: what waits for one player is put on the other.
ProcessSavedCrosswise(hs, q) ==
  [s \in Slot |-> IF q[1 - s] = None THEN hs[s] ELSE Replace(hs[s], q[1 - s])]
ProcessSaved(hs, q) ==
  [s \in Slot |-> IF q[s] = None THEN hs[s] ELSE Replace(hs[s], q[s])]
StillWaiting(hs, q) == [s \in Slot |-> IF hs[s].loaded THEN None ELSE q[s]]

EmptyQueue == [s \in Slot |-> None]
NothingWaits(q) == q = EmptyQueue

\* Giving up on the opponent's packets when the own handle has sent its own.
IdleUnlessPending(hs, q, isPending) == ~hs[me].loaded \/ ~isPending
Idle(hs, q, isPending) == ~hs[me].loaded \/ (~isPending /\ NothingWaits(q))

\* OnUpdate.  The permission, voice and palette packets go out when pending falls.
Flushes(hs, q, isPending) == online /\ ~Spectating /\ ~Idle(hs, q, isPending)

OnUpdate(hs, q, isPending) ==
  IF Flushes(hs, q, isPending)
  THEN /\ handle' = ProcessSaved(hs, q) /\ queue' = StillWaiting(hs, q)
       /\ pending' = FALSE
  ELSE /\ handle' = hs /\ queue' = q
       /\ pending' = (isPending /\ ~(online /\ Spectating))

\* What such a flush shows in each slot.
Flushed(hs, q, isPending) ==
  [s \in Slot |-> IF Flushes(hs, q, isPending) /\ hs[s].loaded THEN q[s] ELSE None]

QueueKept == UNCHANGED queue /\ pending' = FALSE
ClearSavedPalettePacketQueues == queue' = EmptyQueue /\ pending' = FALSE

\* A packet that is applied in the match is what its slot shows from then on.  Before the
\* match has read the byte, it flips it all the same.
Seen(shown) ==
  /\ chosen' = [s \in Slot |-> IF None \in {shown[s], chosen[s]} THEN chosen[s] ELSE shown[s]]
  /\ early' = early \cup IF scene = "loading" THEN {s \in Slot : shown[s] # None} ELSE {}

\* What waits no longer is no longer left from before.
LeftWaits == left' = [s \in Slot |-> IF queue'[s] = None THEN None ELSE left[s]]

NothingChosen == chosen' = [s \in Slot |-> None]

-----------------------------------------------------------------------------
(* The scenes                                                               *)

Init ==
  /\ scene = "menu" /\ online = FALSE /\ me \in Seat /\ rival = None
  /\ handle = [s \in Slot |-> NewHandle] /\ queue = EmptyQueue /\ pending = FALSE
  /\ pick = [s \in Slot |-> None] /\ early = {} /\ chosen = [s \in Slot |-> None]
  /\ left = EmptyQueue

\* GetGameStateCharacterSelect
OnCharacterSelectIdle == UNCHANGED handle
OnCharacterSelect == handle' = [s \in Slot |-> RestoreNativePalIndex(handle[s])]

\* From a lobby, against whom the room has paired this player with.
EnterCharacterSelect ==
  /\ scene = "menu" /\ scene' = "select"
  /\ IF online THEN me' \in Seat /\ rival' \in Remote ELSE UNCHANGED <<me, rival>>
  /\ OnCharacterSelect
  /\ UNCHANGED <<online, queue, pending, history>>

\* Offline a match can also be left for character select from the pause menu.
ReturnToCharacterSelect ==
  /\ scene = "victory" \/ (scene = "match" /\ ~online)
  /\ scene' = "select"
  /\ OnCharacterSelect /\ NothingChosen
  /\ UNCHANGED <<setting, queue, pending, pick, early, left>>

\* The block the cursor writes is the one the mod's pointers lead to.
Pick(s, color) ==
  /\ scene = "select"
  /\ handle' = [handle EXCEPT ![s].colour = color]
  /\ pick' = [pick EXCEPT ![s] = color] /\ early' = early \ {s}
  /\ UNCHANGED <<scene, setting, queue, pending, chosen, left>>

\* GetGameStateVersusScreen, and the game commits the bytes: whoever has not picked goes
\* with the colour that was offered.
EnterVersus ==
  /\ scene = "select" /\ scene' = "loading"
  /\ handle' = [s \in Slot |-> Unloaded(handle[s])]
  /\ pick' = [s \in Slot |-> IF pick[s] = None THEN handle[s].colour ELSE pick[s]]
  /\ early' = {s \in early : pick[s] # None}
  /\ UNCHANGED <<setting, queue, pending, chosen, left>>

\* GetPalBaseAddresses is called for player one, then for player two, as their characters
\* are loaded; the mod is prepared for a match that starts before.
LoadCharacter(s) ==
  /\ scene \in {"loading", "match"} /\ ~handle[s].loaded /\ \A r \in 0 .. s - 1 : handle[r].loaded
  /\ handle' = [handle EXCEPT ![s].loaded = TRUE, ![s].store = Natives]
  /\ UNCHANGED <<scene, setting, queue, pending, history>>

\* On opponents and spectated players, palettes.ini is undone again.
NotSpared(h, s) == h
Spared(h, s) == IF online /\ s \in Others THEN RestoreOrigPal(h) ELSE h

\* GetMatchVariables, MatchState::OnMatchInit: default is what palettes.ini has for each.
MatchInit(default) ==
  LET read    == [s \in Slot |-> InitHandle(handle[s])]
      applied == [s \in Slot |-> ApplyDefaultCustomPalette(read[s], default[s])]
      own     == [s \in Slot |-> Spared(applied[s], s)]
      shown   == Flushed(own, queue, online \/ pending)
  IN
  /\ scene = "loading" /\ scene' = "match"
  /\ OnUpdate(own, queue, online \/ pending)
  /\ chosen' = [s \in Slot |->
       IF ~handle[s].loaded THEN None
       ELSE IF shown[s] # None THEN shown[s]
       ELSE IF default[s] \in Local /\ ~(online /\ s \in Others) THEN default[s]
       ELSE read[s].backup]
  /\ LeftWaits
  /\ UNCHANGED <<setting, pick, early>>

\* GetGameStateVictoryScreen, MatchState::OnMatchRematch
EnterVictory ==
  /\ scene = "match" /\ scene' = "victory"
  /\ handle' = [s \in Slot |-> Unloaded(RestoreNativePalIndex(handle[s]))]
  /\ ClearSavedPalettePacketQueues /\ NothingChosen /\ left' = EmptyQueue
  /\ UNCHANGED <<setting, pick, early>>

\* A rematch is loaded without another character select.
Rematch ==
  /\ scene = "victory" /\ scene' = "loading"
  /\ UNCHANGED <<setting, handle, queue, pending, history>>

\* MatchState::OnMatchEnd.
LeaveMatch ==
  /\ handle' = [s \in Slot |-> Unloaded(handle[s])]
  /\ ClearSavedPalettePacketQueues

\* The main menu or the replay menu, and the lobby: of the room the match was in, or of one
\* that is entered from a menu, where nobody has been an opponent yet.  A pick that comes to
\* nothing is no pick.
EnterMenu ==
  /\ scene' = "menu"
  /\ online' \in IF scene = "menu" THEN {~online} ELSE {online, FALSE}
  /\ rival' = IF online' THEN rival ELSE None
  /\ LeaveMatch /\ NothingChosen /\ left' = EmptyQueue
  /\ pick' = IF scene \in {"select", "loading"} THEN [s \in Slot |-> None] ELSE pick
  /\ UNCHANGED <<me, early>>

-----------------------------------------------------------------------------
(* A frame, a packet, the user                                              *)

\* MatchState::OnUpdate
Frame ==
  LET unlocked == [s \in Slot |-> [handle[s] EXCEPT !.locked = FALSE]] IN
  /\ UNCHANGED <<scene, setting, pick>>
  /\ OnUpdate(unlocked, queue, pending) /\ LeftWaits
  /\ Seen(Flushed(unlocked, queue, pending))

\* RecvPaletteDataPacket: of the opponent, or of either player a spectator watches.  It comes
\* as soon as the sender's own match has started, whatever scene this machine is in.  Back in
\* the lobby all members have the same match id, none, so that a late packet of the last
\* opponent is still let in, for the slot of whatever index the table has for its sender.
RecvPalette(s) ==
  /\ online /\ rival # None
  /\ scene = "menu" \/ s \in Others
  /\ IF handle[s].loaded
     THEN /\ handle' = [handle EXCEPT ![s] = Replace(@, rival)]
          /\ Seen([r \in Slot |-> IF r = s THEN rival ELSE None])
          /\ UNCHANGED <<queue, left>>
     ELSE /\ queue' = [queue EXCEPT ![s] = rival]
          /\ left' = [left EXCEPT ![s] = IF scene = "menu" THEN rival ELSE None]
          /\ UNCHANGED <<handle, early, chosen>>
  /\ UNCHANGED <<scene, setting, pending, pick>>

\* The palette lists and the editor: the own slot when online.
SelectPalette(s, palette) ==
  /\ scene = "match" /\ (online => s = me)
  /\ handle' = [handle EXCEPT ![s] = Replace(@, palette)]
  /\ chosen' = [chosen EXCEPT ![s] = IF handle[s].loaded /\ @ # None THEN palette ELSE @]
  /\ UNCHANGED <<scene, setting, queue, pending, pick, early, left>>

ResetPalette(s) ==
  /\ scene = "match"
  /\ handle' = [handle EXCEPT ![s] = RestoreOrigPal(@)]
  /\ chosen' = [chosen EXCEPT ![s] = IF handle[s].loaded /\ @ # None THEN handle[s].backup ELSE @]
  /\ UNCHANGED <<scene, setting, queue, pending, pick, early, left>>

Load == \E s \in Slot : LoadCharacter(s)

Next ==
  \/ EnterCharacterSelect \/ ReturnToCharacterSelect \/ EnterVersus \/ Load
  \/ \E s \in Slot, color \in Color : Pick(s, color)
  \/ \E default \in [Slot -> Local \cup {None, Original}] : MatchInit(default)
  \/ EnterVictory \/ Rematch \/ EnterMenu \/ Frame
  \/ \E s \in Slot : RecvPalette(s) \/ ResetPalette(s)
  \/ \E s \in Slot, palette \in Local : SelectPalette(s, palette)

Spec == Init /\ [][Next]_vars
\* The game draws frames, and loads what it needs for a match.
FairSpec == Spec /\ WF_vars(Frame) /\ WF_vars(Load)

-----------------------------------------------------------------------------
(* Properties                                                               *)

\* The byte lies on one of the switch indices once a match has set them.
HandleRecord ==
  {h \in [colour : Color, orig : Color \cup {None}, sw1 : Color, sw2 : Color, locked : BOOLEAN,
           loaded : BOOLEAN, store : [Color -> Content], backup : Content \cup {None}] :
     h.orig # None => h.orig = h.sw1 /\ h.sw2 = SecondOf(h.sw1)}

TypeOK ==
  /\ scene \in {"menu", "select", "loading", "match", "victory"}
  /\ online \in BOOLEAN /\ me \in Seat /\ rival \in Remote \cup {None}
  /\ handle \in [Slot -> HandleRecord]
  /\ queue \in [Slot -> Remote \cup {None}] /\ left \in [Slot -> Remote \cup {None}]
  /\ pending \in BOOLEAN
  /\ pick \in [Slot -> Color \cup {None}] /\ early \subseteq Slot
  /\ chosen \in [Slot -> Content \cup {None}]

\* A match reads the colour the player picked, and backs up that colour's palette: however
\* many matches, rematches and palettes came before, none of the mod's flips of the byte is
\* left in it.  A slot whose byte was flipped while the match loaded is not held to this.
ReadsThePick ==
  scene = "match" =>
    \A s \in Slot \ early :
      /\ handle[s].orig = pick[s]
      /\ chosen[s] # None => handle[s].backup = pick[s]

\* What the code relies on, "no artifact of ours can still be in it", with no exception.
NeverReadsArtifact == scene = "match" => \A s \in Slot : handle[s].orig = pick[s]

\* Through all the flips, the storage the byte points to holds what was chosen last: by
\* palettes.ini, by the user, by the opponent's packets or by a reset.
ShownIsChosen ==
  scene = "match" =>
    \A s \in Slot : chosen[s] # None => handle[s].store[handle[s].colour] = chosen[s]

\* Online nobody's palettes but the player's own are replaced by palettes of this machine.
OpponentIsSpared ==
  online /\ scene = "match" =>
    \A s \in Others, c \in Color : handle[s].store[c] \notin Local

\* Whatever waits for the handles to be ready was sent by the opponent who plays now, for the
\* slot that opponent plays in, or else was left there by the last opponent in the lobby that
\* this match was entered from; nothing older, and nothing at all outside rooms.
QueueIsRivals ==
  \A s \in Slot :
    queue[s] # None =>
      /\ online
      /\ queue[s] = left[s] \/ (scene # "menu" /\ s \in Others /\ queue[s] = rival)

\* What is left of all this for the players: Costumes.  What a slot wears is read where the
\* game reads it, through the byte.  Nothing is promised of a slot whose characters are loaded
\* after the match has begun, or whose byte was flipped before.  Backups, queues, redraws and
\* the order of packets, loading and clicks come down to one outfit for each slot, which only
\* its own player's side changes, or a palette left for it in the lobby, and which is the
\* picked colour again when it is reset.
OwnSlots == IF online THEN Slot \ Others ELSE Slot
Worn ==
  [s \in Slot |-> IF scene = "match" /\ s \notin early /\ chosen[s] # None
                  THEN handle[s].store[handle[s].colour] ELSE None]

Costume == INSTANCE Costumes WITH
  playing <- scene = "match", yours <- OwnSlots, guest <- rival, left <- left, worn <- Worn

ImplementsCostumes == Costume!Spec

\* No online match waits for ever, though the characters may be loaded late and in either order
\* with the packets: a player's palette is sent, and the opponent's, if it came, is shown.
ExchangeEnds ==
  []<>(scene = "match" /\ online /\ ~Spectating => ~pending /\ queue = EmptyQueue)
=============================================================================
