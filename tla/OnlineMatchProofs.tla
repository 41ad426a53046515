------------------------- MODULE OnlineMatchProofs -------------------------
(***************************************************************************)
(* Proofs about OnlineMatch, for any members, seats and modes, with any    *)
(* number of watchers and of packets in flight.                            *)
(***************************************************************************)
EXTENDS OnlineMatch, TLAPS

-----------------------------------------------------------------------------
(* The inductive invariant                                                  *)

Matched(m) == place[m].match = 1
Paired(m, o) == Matched(m) /\ Matched(o) /\ ~Spectating(o)
AtMatch(m) == scene[m] \in {"select", "match", "victory"}

\* A side of the match belongs to one player, and only those in the match leave the lobby.
Sides ==
  /\ \A m, o \in Member : Paired(m, o) /\ Paired(o, m) /\ place[m].index = place[o].index => m = o
  /\ \A m \in Member : AtMatch(m) => Matched(m)

\* What is on its way is still true: a permission is its sender's, and a mode is one that its
\* sender, if still in the match, has chosen in it.
Truthful ==
  \A p \in packets :
    /\ p.kind = "permission" => p.says = (p.from \in Sharing)
    /\ p.kind = "mode" /\ Matched(p.from) => p.says \in picked[p.from] \cup {None}

\* The choices recorded at a match are its players'; what is played is both of them.
ChosenByPlayers ==
  \A m \in Member :
    /\ ~AtMatch(m) => choice[m] = NoChoices
    /\ \A o \in Member : AtMatch(m) /\ Paired(m, o) =>
         choice[m][place[o].index] \in picked[o] \cup {None}
    /\ scene[m] = "match" /\ active[m] # None => \A s \in Slot : choice[m][s] = active[m]

\* The member at seat j is known to the one at seat i, or an announcement or acknowledgement
\* on its way will see to it.
Greeting(kind, j, i) ==
  [kind |-> kind, from |-> room[j], seat |-> j, to |-> room[i], says |-> None]
Acquainted(i, j) ==
  room[i] # None /\ room[j] # None =>
    \/ known[room[i]][j] = room[j]
    \/ Greeting("announce", j, i) \in packets
    \/ Greeting("acknowledge", j, i) \in packets
    \/ Greeting("announce", i, j) \in packets
AllAcquainted == ~lost => \A i, j \in Seat : Acquainted(i, j)

Inv ==
  /\ TypeOK /\ Sides /\ Truthful /\ ChosenByPlayers
  /\ PermissionIsTheirs /\ RefusalIsKept /\ AllAcquainted

-----------------------------------------------------------------------------
(* The room's table and the packets                                         *)

LEMMA SeatOfMember ==
  ASSUME TypeOK, NEW m \in Member, scene[m] # "out"
  PROVE  SeatOf(m) \in Seat /\ room[SeatOf(m)] = m
<1>1. \E i \in Seat : room[i] = m BY DEF TypeOK, Here
<1> QED BY <1>1 DEF SeatOf

LEMMA SeatedMember ==
  ASSUME TypeOK, NEW i \in Seat, room[i] # None
  PROVE  room[i] \in Member /\ scene[room[i]] # "out" /\ SeatOf(room[i]) = i
<1>1. room[i] \in Member BY DEF TypeOK
<1>2. scene[room[i]] # "out" BY <1>1 DEF TypeOK, Here
<1>3. SeatOf(room[i]) \in Seat /\ room[SeatOf(room[i])] = room[i] BY <1>1, <1>2, SeatOfMember
<1> QED BY <1>1, <1>2, <1>3 DEF TypeOK, Here

LEMMA RecipientsAreMembers ==
  ASSUME TypeOK, NEW m \in Member
  PROVE  Recipients(m) \subseteq Member /\ NonSpectating(Recipients(m)) \subseteq Recipients(m)
BY DEF TypeOK, Recipients, Rows, NonSpectating

\* What is sent is a packet of its sender that says what it was given to say.
LEMMA SentPackets ==
  ASSUME TypeOK, NEW m \in Member, scene[m] # "out", NEW to, to \subseteq Member,
         NEW kind, NEW says,
         \/ kind = "acknowledge" /\ says = None
         \/ kind = "mode" /\ says \in Choice
         \/ kind \in {"permission", "upload"} /\ says \in BOOLEAN
  PROVE  /\ Sent(kind, m, to, says) \subseteq PacketRecord
         /\ \A p \in Sent(kind, m, to, says) : p.kind = kind /\ p.from = m /\ p.says = says
<1>1. SeatOf(m) \in Seat BY SeatOfMember
<1> QED BY <1>1 DEF Sent, Packet, PacketRecord, PacketsOf

\* Pruning strikes off only those who are not there.
LEMMA PrunedKnown ==
  ASSUME TypeOK, NEW m \in Member, NEW rows
  PROVE  /\ Pruned(m, rows) \in [Member -> [Seat -> Member \cup {None}]]
         /\ \A o \in Member, i \in Seat :
              known[o][i] = room[i] => Pruned(m, rows)[o][i] = room[i]
BY DEF TypeOK, Pruned

LEMMA ModesAndNone == None \in Choice /\ (\A mode \in Mode : mode # None)
BY NoneAssumption DEF Choice

-----------------------------------------------------------------------------
(* Type correctness                                                         *)

LEMMA InitInv == Init => Inv
<1> SUFFICES ASSUME Init PROVE Inv OBVIOUS
<1> USE DEF Init, Nobody, NoPlace, NoPermissions, NoChoices, Slot, Choice
<1>1. TypeOK
  <2>1. None \notin Member BY NoneAssumption
  <2>2. \A m \in Member : Here(m) = {} BY <2>1 DEF Here
  <2>3. /\ room \in [Seat -> Member \cup {None}] /\ known \in [Member -> [Seat -> Member \cup {None}]]
        /\ place \in [Member -> [match : {0, 1}, index : 0 .. 2]]
        /\ scene \in [Member -> {"out", "room", "select", "match", "victory"}]
    OBVIOUS
  <2>4. /\ choice \in [Member -> [Slot -> Choice]] /\ active \in [Member -> Choice]
        /\ permission \in [Member -> [Slot -> BOOLEAN \cup {None}]]
    OBVIOUS
  <2>5. /\ pending \in [Member -> BOOLEAN] /\ veto \in [Member -> BOOLEAN]
        /\ packets \subseteq PacketRecord /\ lost \in BOOLEAN
    OBVIOUS
  <2>6. picked \in [Member -> SUBSET Mode] /\ heard \in [Member -> SUBSET Member] OBVIOUS
  <2>7. \A m \in Member : scene[m] = "out" /\ ~pending[m] OBVIOUS
  <2> QED BY <2>2, <2>3, <2>4, <2>5, <2>6, <2>7 DEF TypeOK
<1>2. Sides BY DEF Sides, Paired, Matched, AtMatch, Spectating
<1>3. Truthful /\ RefusalIsKept /\ PermissionIsTheirs BY DEF Truthful, RefusalIsKept, PermissionIsTheirs
<1>4. ChosenByPlayers BY DEF ChosenByPlayers, AtMatch
<1>5. AllAcquainted BY DEF AllAcquainted, Acquainted
<1> QED BY <1>1, <1>2, <1>3, <1>4, <1>5 DEF Inv

\* The part of the type that says who sits where, which most actions leave alone.
LEMMA SeatsUntouched ==
  ASSUME TypeOK, UNCHANGED room, NEW m \in Member, scene[m] # "out", NEW to,
         to \in {"room", "select", "match", "victory"}, scene' = [scene EXCEPT ![m] = to]
  PROVE  /\ scene' \in [Member -> {"out", "room", "select", "match", "victory"}]
         /\ \A o \in Member : /\ scene'[o] = "out" <=> Here(o)' = {}
                              /\ \A i, j \in Here(o)' : i = j
BY DEF TypeOK, Here

LEMMA TypeStep == TypeOK /\ [Next]_vars => TypeOK'
<1> SUFFICES ASSUME TypeOK, [Next]_vars PROVE TypeOK'
  OBVIOUS
<1>0. CASE UNCHANGED vars BY <1>0 DEF TypeOK, vars, table, modes, history, Here
<1>1. ASSUME NEW m \in Member, NEW i \in Seat, JoinRoom(m, i) PROVE TypeOK'
  <2>1. /\ room' \in [Seat -> Member \cup {None}]
        /\ scene' \in [Member -> {"out", "room", "select", "match", "victory"}]
        /\ known' \in [Member -> [Seat -> Member \cup {None}]]
    BY <1>1 DEF JoinRoom, TypeOK, Nobody
  <2>2. packets' \subseteq PacketRecord
    BY <1>1 DEF JoinRoom, TypeOK, InFlight, PacketRecord, PacketsOf
  <2>3. \A o \in Member : /\ scene'[o] = "out" <=> Here(o)' = {}
                          /\ \A k, l \in Here(o)' : k = l
    <3>1. m # None /\ Here(m) = {} BY <1>1, NoneAssumption DEF JoinRoom, TypeOK
    <3>2. Here(m)' = {i} BY <1>1, <3>1 DEF JoinRoom, TypeOK, Here
    <3>3. ASSUME NEW o \in Member, o # m PROVE Here(o)' = Here(o) /\ scene'[o] = scene[o]
      BY <1>1, <3>3, NoneAssumption DEF JoinRoom, TypeOK, Here
    <3>4. scene'[m] = "room" BY <1>1 DEF JoinRoom, TypeOK
    <3>5. ASSUME NEW o \in Member
          PROVE  /\ scene'[o] = "out" <=> Here(o)' = {}
                 /\ \A k, l \in Here(o)' : k = l
      <4>1. CASE o = m BY <3>2, <3>4, <4>1
      <4>2. CASE o # m BY <3>3, <4>2 DEF TypeOK
      <4> QED BY <4>1, <4>2
    <3> QED BY <3>5
  <2>4. \A o \in Member : pending[o] => scene'[o] = "match"
    BY <1>1 DEF JoinRoom, TypeOK
  <2> QED BY <1>1, <2>1, <2>2, <2>3, <2>4 DEF JoinRoom, TypeOK, modes, history
<1>2. ASSUME NEW a \in Member, NEW b \in Member, NEW w \in SUBSET (Member \ {a, b}), Pair(a, b, w)
      PROVE  TypeOK'
  <2>1. place' \in [Member -> [match : {0, 1}, index : 0 .. 2]] BY <1>2 DEF Pair, TypeOK
  <2>2. packets' \subseteq PacketRecord /\ heard' \in [Member -> SUBSET Member]
    BY <1>2 DEF Pair, TypeOK
  <2> QED BY <1>2, <2>1, <2>2 DEF Pair, TypeOK, modes, Here
<1>3. ASSUME NEW m \in Member, NEW mode \in Choice, SelectGameMode(m, mode) PROVE TypeOK'
  <2>1. active' \in [Member -> Choice] /\ choice' \in [Member -> [Slot -> Choice]]
    BY <1>3 DEF SelectGameMode, TypeOK
  <2>2. picked' \in [Member -> SUBSET Mode] BY <1>3 DEF SelectGameMode, TypeOK, Choice
  <2>3. packets' \subseteq PacketRecord
    BY <1>3, SentPackets, RecipientsAreMembers DEF SelectGameMode, TypeOK, InFlight
  <2>4. known' \in [Member -> [Seat -> Member \cup {None}]]
    BY <1>3, PrunedKnown DEF SelectGameMode
  <2> QED BY <1>3, <2>1, <2>2, <2>3, <2>4 DEF SelectGameMode, TypeOK, table, Here
<1>4. ASSUME NEW m \in Member, EnterCharacterSelect(m) PROVE TypeOK'
  <2>1. ~pending[m] BY <1>4 DEF EnterCharacterSelect, TypeOK
  <2> QED BY <1>4, <2>1, SeatsUntouched
          DEF EnterCharacterSelect, TypeOK, table, modes, history
<1>5. ASSUME NEW m \in Member, OnMatchInit(m) PROVE TypeOK'
  <2>1. permission' \in [Member -> [Slot -> BOOLEAN \cup {None}]]
    BY <1>5 DEF OnMatchInit, ForgetPermissions, NoPermissions, TypeOK
  <2>2. active' \in [Member -> Choice]
    BY <1>5, ModesAndNone DEF OnMatchInit, GetSettledGameModeChoice, TypeOK, Slot
  <2>3. /\ known' \in [Member -> [Seat -> Member \cup {None}]]
        /\ packets' \subseteq PacketRecord
    <3>1. CASE Spectating(m) BY <1>5, <3>1 DEF OnMatchInit, TypeOK
    <3>2. CASE ~Spectating(m)
      <4> DEFINE told == NonSpectating(Recipients(m))
      <4>1. told \subseteq Member BY RecipientsAreMembers
      <4>2. Sent("upload", m, told, m \in Uploading) \subseteq PacketRecord
        <5>1. scene[m] # "out" BY <1>5 DEF OnMatchInit
        <5>2. (m \in Uploading) \in BOOLEAN OBVIOUS
        <5> HIDE DEF told
        <5> QED BY <4>1, <5>1, <5>2, SentPackets
      <4>3. packets' = packets \cup Sent("upload", m, told, m \in Uploading)
        BY <1>5, <3>2 DEF OnMatchInit, InFlight
      <4> HIDE DEF told
      <4> QED BY <1>5, <3>2, <4>2, <4>3, PrunedKnown DEF OnMatchInit, TypeOK
    <3> QED BY <3>1, <3>2
  <2>4. pending' \in [Member -> BOOLEAN] /\ \A o \in Member : pending'[o] => scene'[o] = "match"
    BY <1>5 DEF OnMatchInit, TypeOK
  <2> QED BY <1>5, <2>1, <2>2, <2>3, <2>4, SeatsUntouched
          DEF OnMatchInit, VetoKept, TypeOK, table, history
<1>6. ASSUME NEW m \in Member, OnUpdate(m) PROVE TypeOK'
  <2>1. scene[m] # "out" BY <1>6 DEF OnUpdate, TypeOK
  <2>2. packets' \subseteq PacketRecord /\ known' \in [Member -> [Seat -> Member \cup {None}]]
    <3>1. Sent("permission", m, Recipients(m), m \in Sharing) \subseteq PacketRecord
      <4>1. (m \in Sharing) \in BOOLEAN OBVIOUS
      <4> QED BY <2>1, <4>1, SentPackets, RecipientsAreMembers
    <3> QED BY <1>6, <3>1, PrunedKnown DEF OnUpdate, TypeOK, InFlight
  <2>3. pending' \in [Member -> BOOLEAN] /\ \A o \in Member : pending'[o] => pending[o]
    BY <1>6 DEF OnUpdate, TypeOK
  <2> QED BY <1>6, <2>2, <2>3 DEF OnUpdate, TypeOK, table, modes, history, Here
<1>7. ASSUME NEW m \in Member, EnterVictory(m) PROVE TypeOK'
  <2>1. /\ permission' \in [Member -> [Slot -> BOOLEAN \cup {None}]]
        /\ pending' \in [Member -> BOOLEAN]
        /\ \A o \in Member : pending'[o] => o # m /\ scene[o] = "match"
    BY <1>7 DEF EnterVictory, ClearSavedPalettePacketQueues, ForgetPermissions, NoPermissions, TypeOK
  <2> QED BY <1>7, <2>1, SeatsUntouched DEF EnterVictory, TypeOK, table, modes, history
<1> DEFINE Ended(m) ==
      /\ permission' \in [Member -> [Slot -> BOOLEAN \cup {None}]]
      /\ pending' \in [Member -> BOOLEAN]
      /\ \A o \in Member : pending'[o] => o # m /\ scene[o] = "match"
      /\ choice' \in [Member -> [Slot -> Choice]] /\ active' \in [Member -> Choice]
      /\ veto' \in [Member -> BOOLEAN]
      /\ picked' \in [Member -> SUBSET Mode] /\ heard' \in [Member -> SUBSET Member]
<1>8. ASSUME NEW m \in Member, OnMatchEnd(m) PROVE Ended(m)
  <2>1. /\ permission' \in [Member -> [Slot -> BOOLEAN \cup {None}]]
        /\ pending' \in [Member -> BOOLEAN]
        /\ \A o \in Member : pending'[o] => o # m /\ scene[o] = "match"
    BY <1>8 DEF OnMatchEnd, ClearSavedPalettePacketQueues, ForgetPermissions, NoPermissions, TypeOK
  <2>2. choice' \in [Member -> [Slot -> Choice]] /\ active' \in [Member -> Choice]
    BY <1>8, ModesAndNone DEF OnMatchEnd, ClearPlayerGameModeChoices, NoChoices, TypeOK
  <2>3. /\ veto' \in [Member -> BOOLEAN]
        /\ picked' \in [Member -> SUBSET Mode] /\ heard' \in [Member -> SUBSET Member]
    BY <1>8 DEF OnMatchEnd, VetoForgotten, TypeOK
  <2> QED BY <2>1, <2>2, <2>3
<1> HIDE DEF Ended
<1>9. ASSUME NEW m \in Member, EnterLobby(m) PROVE TypeOK'
  <2>1. Ended(m) BY <1>8, <1>9 DEF EnterLobby
  <2>2. place' \in [Member -> [match : {0, 1}, index : 0 .. 2]] 
    <3>1. place' = [place EXCEPT ![m].match = 0] BY <1>9 DEF EnterLobby
    <3>2. place[m] \in [match : {0, 1}, index : 0 .. 2] BY DEF TypeOK
    <3>3. [place[m] EXCEPT !.match = 0] \in [match : {0, 1}, index : 0 .. 2] BY <3>2
    <3> QED BY <3>1, <3>3 DEF TypeOK
  <2>3. /\ scene' \in [Member -> {"out", "room", "select", "match", "victory"}]
        /\ \A o \in Member : /\ scene'[o] = "out" <=> Here(o)' = {}
                             /\ \A k, l \in Here(o)' : k = l
        /\ \A o \in Member : o # m => scene'[o] = scene[o]
    BY <1>9, SeatsUntouched DEF EnterLobby, TypeOK
  <2> QED BY <1>9, <2>1, <2>2, <2>3 DEF EnterLobby, TypeOK, Ended
<1>10. ASSUME NEW m \in Member, LeaveRoom(m) PROVE TypeOK'
  <2>1. Ended(m) BY <1>8, <1>10 DEF LeaveRoom
  <2>2. /\ place' \in [Member -> [match : {0, 1}, index : 0 .. 2]]
        /\ room' \in [Seat -> Member \cup {None}]
        /\ known' \in [Member -> [Seat -> Member \cup {None}]]
    BY <1>10 DEF LeaveRoom, TypeOK, NoPlace, Nobody
  <2>3. packets' \subseteq PacketRecord BY <1>10 DEF LeaveRoom, TypeOK
  <2>4. scene' = [scene EXCEPT ![m] = "out"] BY <1>10 DEF LeaveRoom
  <2>5. Here(m)' = {} BY <1>10, NoneAssumption DEF LeaveRoom, TypeOK, Here
  <2>6. \A o \in Member : o # m => Here(o)' = Here(o)
    BY <1>10, NoneAssumption DEF LeaveRoom, TypeOK, Here
  <2> QED BY <1>10, <2>1, <2>2, <2>3, <2>4, <2>5, <2>6 DEF LeaveRoom, TypeOK, Ended
<1>11. ASSUME NEW p \in packets, RecvAnnounce(p) PROVE TypeOK'
  <2>1. /\ p.to \in Member /\ p.from \in Member /\ p.seat \in Seat
        /\ scene[p.to] # "out"
    BY <1>11 DEF RecvAnnounce, IsPacketFromSameRoom, TypeOK, PacketRecord, PacketsOf
  <2>2. known' \in [Member -> [Seat -> Member \cup {None}]]
    BY <1>11, <2>1 DEF RecvAnnounce, Knows, TypeOK
  <2>3. packets' \subseteq PacketRecord
    BY <1>11, <2>1, SentPackets, ModesAndNone DEF RecvAnnounce, TypeOK, InFlight
  <2> QED BY <1>11, <2>2, <2>3 DEF RecvAnnounce, TypeOK, table, modes, history, Here
<1>12. ASSUME NEW p \in packets, RecvAcknowledge(p) PROVE TypeOK'
  <2>1. known' \in [Member -> [Seat -> Member \cup {None}]]
    BY <1>12 DEF RecvAcknowledge, Knows, TypeOK, PacketRecord, PacketsOf
  <2>2. packets' \subseteq PacketRecord BY <1>12 DEF RecvAcknowledge, TypeOK
  <2> QED BY <1>12, <2>1, <2>2 DEF RecvAcknowledge, TypeOK, table, modes, history, Here
<1>13. ASSUME NEW p \in packets, RecvPaletteDownloadPermissionPacket(p) PROVE TypeOK'
  <2>1. permission' \in [Member -> [Slot -> BOOLEAN \cup {None}]]
    <3>1. p.says \in BOOLEAN
      BY <1>13 DEF RecvPaletteDownloadPermissionPacket, TypeOK, PacketRecord, PacketsOf
    <3> QED BY <1>13, <3>1 DEF RecvPaletteDownloadPermissionPacket, TypeOK, PacketRecord, PacketsOf
  <2>2. packets' \subseteq PacketRecord BY <1>13 DEF RecvPaletteDownloadPermissionPacket, TypeOK
  <2> QED BY <1>13, <2>1, <2>2
          DEF RecvPaletteDownloadPermissionPacket, TypeOK, table, modes, history, Here
<1>14. ASSUME NEW p \in packets, RecvGameModePacket(p) PROVE TypeOK'
  <2>1. choice' \in [Member -> [Slot -> Choice]]
    <3>1. p.says \in Choice
      BY <1>14 DEF RecvGameModePacket, TypeOK, PacketRecord, PacketsOf
    <3> QED BY <1>14, <3>1 DEF RecvGameModePacket, TypeOK
  <2>2. packets' \subseteq PacketRecord BY <1>14 DEF RecvGameModePacket, TypeOK
  <2> QED BY <1>14, <2>1, <2>2 DEF RecvGameModePacket, TypeOK, table, history, Here
<1>15. ASSUME NEW p \in packets, RecvReplayUploadEnabledBroadcastPacket(p) PROVE TypeOK'
  <2>1. p.to \in Member /\ p.from \in Member
    BY DEF TypeOK, PacketRecord, PacketsOf
  <2>2. veto' \in [Member -> BOOLEAN] /\ heard' \in [Member -> SUBSET Member]
    BY <1>15, <2>1 DEF RecvReplayUploadEnabledBroadcastPacket, TypeOK
  <2>3. packets' \subseteq PacketRecord
    BY <1>15 DEF RecvReplayUploadEnabledBroadcastPacket, TypeOK
  <2> QED BY <1>15, <2>2, <2>3
          DEF RecvReplayUploadEnabledBroadcastPacket, TypeOK, table, modes, Here
<1>16. ASSUME NEW p \in packets, Ignore(p) PROVE TypeOK'
  BY <1>16 DEF Ignore, TypeOK, table, modes, history, Here
<1>17. ASSUME NEW p \in packets, Lose(p) PROVE TypeOK'
  <2>1. lost' \in BOOLEAN BY <1>17 DEF Lose, TypeOK
  <2> QED BY <1>17, <2>1 DEF Lose, TypeOK, table, modes, Here
<1> QED
  BY <1>0, <1>1, <1>2, <1>3, <1>4, <1>5, <1>6, <1>7, <1>9, <1>10, <1>11, <1>12, <1>13,
     <1>14, <1>15, <1>16, <1>17 DEF Next, RecvPacket

-----------------------------------------------------------------------------
(* Who is on which side                                                     *)

LEMMA NobodyAtMatch ==
  ASSUME Sides, NEW a, NEW b, NEW w, Pair(a, b, w)
  PROVE  \A m \in Member : ~AtMatch(m)
BY DEF Sides, Pair, Matched

\* Of the table, an action that ends a match changes only that the member is in none.
LEMMA GoneFromMatch ==
  ASSUME TypeOK, NEW m \in Member, EnterLobby(m) \/ LeaveRoom(m)
  PROVE  /\ ~Matched(m)' /\ ~AtMatch(m)'
         /\ \A o \in Member : o # m =>
              place'[o] = place[o] /\ scene'[o] = scene[o]
BY DEF TypeOK, EnterLobby, LeaveRoom, NoPlace, Matched, AtMatch

LEMMA SidesStep == TypeOK /\ Sides /\ [Next]_vars => Sides'
<1> SUFFICES ASSUME TypeOK, Sides, [Next]_vars PROVE Sides'
  OBVIOUS
<1> USE DEF Sides, Paired, Matched, Spectating
<1>0. CASE UNCHANGED <<place, scene>> BY <1>0 DEF AtMatch
<1>1. ASSUME NEW m \in Member, NEW i \in Seat, JoinRoom(m, i) PROVE Sides'
  BY <1>1 DEF JoinRoom, AtMatch, TypeOK
<1>2. ASSUME NEW a \in Member, NEW b \in Member, NEW w \in SUBSET (Member \ {a, b}), Pair(a, b, w)
      PROVE  Sides'
  <2>1. \A m \in Member : ~AtMatch(m)' BY <1>2, NobodyAtMatch DEF Pair, AtMatch
  <2>2. ASSUME NEW m \in Member, NEW o \in Member, Paired(m, o)', Paired(o, m)',
               place'[m].index = place'[o].index
        PROVE  m = o
    <3>1. \A x \in Member : place'[x].match = 1 /\ place'[x].index <= 1 =>
            \/ x = a /\ place'[x].index = 0
            \/ x = b /\ place'[x].index = 1
      BY <1>2 DEF Pair
    <3>2. place'[m].index <= 1 /\ place'[o].index <= 1
      <4>1. place' \in [Member -> [match : {0, 1}, index : 0 .. 2]] BY <1>2 DEF Pair, TypeOK
      <4> QED BY <2>2, <4>1
    <3> QED BY <2>2, <3>1, <3>2
  <2> QED BY <2>1, <2>2
<1>3. ASSUME NEW m \in Member, EnterCharacterSelect(m) PROVE Sides'
  BY <1>3 DEF EnterCharacterSelect, AtMatch, TypeOK, table
<1>4. ASSUME NEW m \in Member, OnMatchInit(m) \/ EnterVictory(m) PROVE Sides'
  BY <1>4 DEF OnMatchInit, EnterVictory, AtMatch, TypeOK, table
<1>5. ASSUME NEW m \in Member, EnterLobby(m) \/ LeaveRoom(m) PROVE Sides'
  <2>1. ~Matched(m)' /\ ~AtMatch(m)' BY <1>5, GoneFromMatch
  <2>2. \A o \in Member : o # m => place'[o] = place[o] /\ scene'[o] = scene[o]
    BY <1>5, GoneFromMatch
  <2> QED BY <2>1, <2>2 DEF AtMatch
<1>6. ASSUME NEW m \in Member, NEW mode \in Choice, SelectGameMode(m, mode) PROVE Sides'
  BY <1>0, <1>6 DEF SelectGameMode, table
<1>7. ASSUME NEW m \in Member, OnUpdate(m) PROVE Sides'
  BY <1>0, <1>7 DEF OnUpdate, table
<1>8. ASSUME NEW p \in packets, RecvPacket(p) \/ Lose(p) PROVE Sides'
  BY <1>0, <1>8 DEF RecvPacket, RecvAnnounce, RecvAcknowledge, RecvGameModePacket,
     RecvPaletteDownloadPermissionPacket, RecvReplayUploadEnabledBroadcastPacket, Ignore, Lose, table
<1>9. CASE UNCHANGED vars BY <1>0, <1>9 DEF vars, table
<1> QED BY <1>1, <1>2, <1>3, <1>4, <1>5, <1>6, <1>7, <1>8, <1>9 DEF Next

-----------------------------------------------------------------------------
(* What packets say                                                         *)

LEMMA TruthfulStep == TypeOK /\ Sides /\ Truthful /\ [Next]_vars => Truthful'
<1> SUFFICES ASSUME TypeOK, Sides, Truthful, [Next]_vars PROVE Truthful'
  OBVIOUS
<1> USE DEF Truthful
<1>0. CASE packets' \subseteq packets /\ UNCHANGED <<place, picked>>
  BY <1>0 DEF Matched
<1>1. ASSUME NEW m \in Member, NEW i \in Seat, JoinRoom(m, i) PROVE Truthful'
  <2>1. \A p \in packets' : p \in packets \/ p.kind = "announce"
    BY <1>1 DEF JoinRoom, InFlight
  <2>2. UNCHANGED <<place, picked>> BY <1>1 DEF JoinRoom, history
  <2> QED BY <2>1, <2>2 DEF Matched
<1>2. ASSUME NEW a \in Member, NEW b \in Member, NEW w, Pair(a, b, w) PROVE Truthful'
  BY <1>2 DEF Pair
<1>3. ASSUME NEW m \in Member, NEW mode \in Choice, SelectGameMode(m, mode) PROVE Truthful'
  <2>1. \A p \in packets' : p \in packets \/ (p.kind = "mode" /\ p.from = m /\ p.says = mode)
    <3>1. packets' = packets \cup Sent("mode", m, Recipients(m), mode)
      BY <1>3 DEF SelectGameMode, InFlight
    <3>2. \A p \in Sent("mode", m, Recipients(m), mode) :
            p.kind = "mode" /\ p.from = m /\ p.says = mode
      BY DEF Sent, Packet
    <3> QED BY <3>1, <3>2
  <2>2. mode \in picked'[m] \cup {None} /\ \A o \in Member : picked[o] \subseteq picked'[o]
    BY <1>3 DEF SelectGameMode, TypeOK, Choice
  <2>3. \A p \in packets : p.from \in Member BY DEF TypeOK, PacketRecord, PacketsOf
  <2>4. UNCHANGED place BY <1>3 DEF SelectGameMode, table
  <2> QED BY <2>1, <2>2, <2>3, <2>4 DEF Matched
<1>4. ASSUME NEW m \in Member, OnMatchInit(m) PROVE Truthful'
  <2>1. CASE Spectating(m) BY <1>0, <1>4, <2>1 DEF OnMatchInit, table, history
  <2>2. CASE ~Spectating(m)
    <3> DEFINE told == NonSpectating(Recipients(m))
    <3>1. told \subseteq Member BY RecipientsAreMembers
    <3>2. packets' = packets \cup Sent("upload", m, told, m \in Uploading)
      BY <1>4, <2>2 DEF OnMatchInit, InFlight
    <3>3. \A p \in Sent("upload", m, told, m \in Uploading) : p.kind = "upload"
      BY DEF Sent, Packet
    <3>4. UNCHANGED <<place, picked>> BY <1>4 DEF OnMatchInit, table, history
    <3> HIDE DEF told
    <3> QED BY <3>2, <3>3, <3>4 DEF Matched
  <2> QED BY <2>1, <2>2
<1>5. ASSUME NEW m \in Member, OnUpdate(m) PROVE Truthful'
  <2>1. packets' = packets \cup Sent("permission", m, Recipients(m), m \in Sharing)
    BY <1>5 DEF OnUpdate, InFlight
  <2>2. \A p \in Sent("permission", m, Recipients(m), m \in Sharing) :
          p.kind = "permission" /\ p.from = m /\ p.says = (m \in Sharing)
    BY DEF Sent, Packet
  <2>3. UNCHANGED <<place, picked>> BY <1>5 DEF OnUpdate, table, history
  <2> QED BY <2>1, <2>2, <2>3 DEF Matched
<1>6. ASSUME NEW m \in Member, EnterLobby(m) \/ LeaveRoom(m) PROVE Truthful'
  <2>1. ~Matched(m)' /\ \A o \in Member : o # m => place'[o] = place[o]
    BY <1>6, GoneFromMatch
  <2>2. packets' \subseteq packets BY <1>6 DEF EnterLobby, LeaveRoom
  <2>3. \A o \in Member : o # m => picked'[o] = picked[o]
    BY <1>6 DEF EnterLobby, LeaveRoom, OnMatchEnd, TypeOK
  <2>4. \A p \in packets : p.from \in Member BY DEF TypeOK, PacketRecord, PacketsOf
  <2> QED BY <2>1, <2>2, <2>3, <2>4 DEF Matched
<1>7. ASSUME NEW p \in packets, RecvAnnounce(p) PROVE Truthful'
  <2>1. \A q \in packets' : q \in packets \/ q.kind = "acknowledge"
    BY <1>7 DEF RecvAnnounce, InFlight, Sent, Packet
  <2>2. UNCHANGED <<place, picked>> BY <1>7 DEF RecvAnnounce, table, history
  <2> QED BY <2>1, <2>2 DEF Matched
<1>8. ASSUME NEW p \in packets,
             \/ RecvAcknowledge(p) \/ RecvPaletteDownloadPermissionPacket(p)
             \/ RecvGameModePacket(p) \/ RecvReplayUploadEnabledBroadcastPacket(p)
             \/ Ignore(p) \/ Lose(p)
      PROVE  Truthful'
  BY <1>0, <1>8 DEF RecvAcknowledge, RecvGameModePacket, RecvPaletteDownloadPermissionPacket,
     RecvReplayUploadEnabledBroadcastPacket, Ignore, Lose, table, history
<1>9. ASSUME NEW m \in Member, EnterCharacterSelect(m) \/ EnterVictory(m) PROVE Truthful'
  BY <1>0, <1>9 DEF EnterCharacterSelect, EnterVictory, table, history
<1>10. CASE UNCHANGED vars BY <1>0, <1>10 DEF vars, table, history
<1> QED BY <1>1, <1>2, <1>3, <1>4, <1>5, <1>6, <1>7, <1>8, <1>9, <1>10 DEF Next, RecvPacket

-----------------------------------------------------------------------------
(* Choices and permissions                                                  *)

LEMMA ChosenStep ==
  TypeOK /\ Sides /\ Truthful /\ ChosenByPlayers /\ [Next]_vars => ChosenByPlayers'
<1> SUFFICES ASSUME TypeOK, Sides, Truthful, ChosenByPlayers, [Next]_vars PROVE ChosenByPlayers'
  OBVIOUS
<1> USE DEF Paired, Matched, Spectating
<1>0. CASE UNCHANGED <<choice, active, place, scene, picked>>
  BY <1>0 DEF ChosenByPlayers, AtMatch
<1>1. ASSUME NEW m \in Member, NEW i \in Seat, JoinRoom(m, i) PROVE ChosenByPlayers'
  BY <1>1 DEF JoinRoom, modes, history, ChosenByPlayers, AtMatch, TypeOK
<1>2. ASSUME NEW a \in Member, NEW b \in Member, NEW w, Pair(a, b, w) PROVE ChosenByPlayers'
  <2>1. \A m \in Member : ~AtMatch(m) BY <1>2, NobodyAtMatch
  <2> QED BY <1>2, <2>1 DEF Pair, modes, ChosenByPlayers, AtMatch
<1>3. ASSUME NEW m \in Member, EnterCharacterSelect(m) PROVE ChosenByPlayers'
  <2>1. UNCHANGED <<choice, active, place, picked>>
    BY <1>3 DEF EnterCharacterSelect, modes, table, history
  <2>2. AtMatch(m)' /\ scene'[m] # "match" BY <1>3 DEF EnterCharacterSelect, AtMatch, TypeOK
  <2>3. \A o \in Member : o # m => scene'[o] = scene[o]
    BY <1>3 DEF EnterCharacterSelect, TypeOK
  <2>4. AtMatch(m) \/ choice[m] = NoChoices BY DEF ChosenByPlayers
  <2>5. \A o \in Member : Paired(m, o) => place[o].index \in Slot
    BY DEF TypeOK, Slot
  <2> QED BY <2>1, <2>2, <2>3, <2>4, <2>5 DEF ChosenByPlayers, AtMatch, NoChoices
<1>4. ASSUME NEW m \in Member, NEW mode \in Choice, SelectGameMode(m, mode) PROVE ChosenByPlayers'
  <2>1. UNCHANGED <<place, scene>> /\ scene[m] = "select" /\ ~Spectating(m)
    BY <1>4 DEF SelectGameMode, table
  <2>2. Matched(m) /\ place[m].index \in Slot
    BY <2>1 DEF Sides, AtMatch, TypeOK, Slot
  <2>3. mode \in picked'[m] \cup {None} /\ \A o \in Member : picked[o] \subseteq picked'[o]
    BY <1>4 DEF SelectGameMode, TypeOK, Choice
  <2>4. /\ choice'[m][place[m].index] = mode
        /\ \A s \in Slot : s # place[m].index => choice'[m][s] = choice[m][s]
        /\ \A o \in Member : o # m => choice'[o] = choice[o] /\ active'[o] = active[o]
    BY <1>4, <2>2 DEF SelectGameMode, TypeOK
  <2>5. \A o \in Member : o # m /\ Paired(m, o) => place[o].index # place[m].index
    BY <2>1, <2>2 DEF Sides
  <2>6. \A o \in Member : Paired(m, o) => place[o].index \in Slot
    BY DEF TypeOK, Slot
  <2>7. ASSUME NEW o \in Member, AtMatch(m), Paired(m, o)
        PROVE  choice'[m][place[o].index] \in picked'[o] \cup {None}
    <3>1. CASE o = m BY <2>3, <2>4, <3>1
    <3>2. CASE o # m BY <2>3, <2>4, <2>5, <2>6, <2>7, <3>2 DEF ChosenByPlayers
    <3> QED BY <3>1, <3>2
  <2> QED BY <2>1, <2>3, <2>4, <2>7 DEF ChosenByPlayers, AtMatch
<1>5. ASSUME NEW m \in Member, OnMatchInit(m) PROVE ChosenByPlayers'
  <2>1. UNCHANGED <<choice, place, picked>> /\ AtMatch(m) /\ AtMatch(m)'
    BY <1>5 DEF OnMatchInit, table, history, AtMatch, TypeOK
  <2>2. \A o \in Member : o # m => scene'[o] = scene[o] /\ active'[o] = active[o]
    BY <1>5 DEF OnMatchInit, TypeOK
  <2>3. active'[m] # None => \A s \in Slot : choice[m][s] = active'[m]
    BY <1>5 DEF OnMatchInit, GetSettledGameModeChoice, TypeOK, Slot
  <2> QED BY <2>1, <2>2, <2>3 DEF ChosenByPlayers, AtMatch
<1>6. ASSUME NEW m \in Member, EnterVictory(m) PROVE ChosenByPlayers'
  BY <1>6 DEF EnterVictory, table, modes, history, ChosenByPlayers, AtMatch, TypeOK
<1>7. ASSUME NEW m \in Member, EnterLobby(m) \/ LeaveRoom(m) PROVE ChosenByPlayers'
  <2>1. /\ ~Matched(m)' /\ ~AtMatch(m)'
        /\ \A o \in Member : o # m => place'[o] = place[o] /\ scene'[o] = scene[o]
    BY <1>7, GoneFromMatch
  <2>2. /\ choice'[m] = NoChoices
        /\ \A o \in Member : o # m =>
             choice'[o] = choice[o] /\ active'[o] = active[o] /\ picked'[o] = picked[o]
    BY <1>7 DEF EnterLobby, LeaveRoom, OnMatchEnd, ClearPlayerGameModeChoices, TypeOK
  <2> QED BY <2>1, <2>2 DEF ChosenByPlayers, AtMatch
<1>8. ASSUME NEW p \in packets, RecvGameModePacket(p) PROVE ChosenByPlayers'
  <2>1. p.to \in Member /\ p.from \in Member BY DEF TypeOK, PacketRecord, PacketsOf
  <2>2. /\ UNCHANGED <<place, scene, active, picked>>
        /\ scene[p.to] = "select" /\ place[p.from].match = place[p.to].match /\ ~Spectating(p.from)
        /\ p.kind = "mode"
    BY <1>8 DEF RecvGameModePacket, table, history, IsPacketFromSameMatchNonSpectator, SameMatch
  <2>3. Matched(p.to) /\ Matched(p.from) BY <2>1, <2>2 DEF Sides, AtMatch
  <2>4. p.says \in picked[p.from] \cup {None} BY <2>2, <2>3 DEF Truthful
  <2>5. place[p.from].index \in Slot BY <2>1, <2>2 DEF TypeOK, Slot
  <2>6. /\ choice'[p.to][place[p.from].index] = p.says
        /\ \A s \in Slot : s # place[p.from].index => choice'[p.to][s] = choice[p.to][s]
        /\ \A o \in Member : o # p.to => choice'[o] = choice[o]
    BY <1>8, <2>1, <2>5 DEF RecvGameModePacket, TypeOK
  <2>7. ASSUME NEW o \in Member, Paired(p.to, o)
        PROVE  choice'[p.to][place[o].index] \in picked[o] \cup {None}
    <3>1. CASE o = p.from BY <2>4, <2>6, <3>1
    <3>2. CASE o # p.from
      <4>1. place[o].index # place[p.from].index BY <2>1, <2>2, <2>3, <2>7, <3>2 DEF Sides
      <4>2. place[o].index \in Slot BY <2>7 DEF TypeOK, Slot
      <4> QED BY <2>1, <2>2, <2>6, <2>7, <4>1, <4>2 DEF ChosenByPlayers, AtMatch
    <3> QED BY <3>1, <3>2
  <2> QED BY <2>1, <2>2, <2>6, <2>7 DEF ChosenByPlayers, AtMatch
<1>9. ASSUME NEW p \in packets,
             \/ RecvAnnounce(p) \/ RecvAcknowledge(p) \/ RecvPaletteDownloadPermissionPacket(p)
             \/ RecvReplayUploadEnabledBroadcastPacket(p) \/ Ignore(p) \/ Lose(p)
      PROVE  ChosenByPlayers'
  BY <1>0, <1>9 DEF RecvAnnounce, RecvAcknowledge, RecvPaletteDownloadPermissionPacket,
     RecvReplayUploadEnabledBroadcastPacket, Ignore, Lose, table, modes, history
<1>10. ASSUME NEW m \in Member, OnUpdate(m) PROVE ChosenByPlayers'
  BY <1>0, <1>10 DEF OnUpdate, table, modes, history
<1>11. CASE UNCHANGED vars BY <1>0, <1>11 DEF vars, table, modes, history
<1> QED
  BY <1>1, <1>2, <1>3, <1>4, <1>5, <1>6, <1>7, <1>8, <1>9, <1>10, <1>11 DEF Next, RecvPacket

\* PermissionIsTheirs of one machine and one player.
TheirPermission(m, o) ==
  scene[m] = "match" /\ SameMatch(m, o) /\ place[m].match = 1 /\ ~Spectating(o) =>
    (permission[m][place[o].index] # None => permission[m][place[o].index] = (o \in Sharing))

LEMMA PermissionStep ==
  TypeOK /\ Sides /\ Truthful /\ PermissionIsTheirs /\ [Next]_vars => PermissionIsTheirs'
<1> SUFFICES ASSUME TypeOK, Sides, Truthful, PermissionIsTheirs, [Next]_vars
             PROVE  PermissionIsTheirs'
  OBVIOUS
<1> USE DEF PermissionIsTheirs, SameMatch, Spectating
<1>0. CASE UNCHANGED <<permission, place, scene>> BY <1>0
<1>1. ASSUME NEW m \in Member, NEW i \in Seat, JoinRoom(m, i) PROVE PermissionIsTheirs'
  BY <1>1 DEF JoinRoom, TypeOK
<1>2. ASSUME NEW a \in Member, NEW b \in Member, NEW w, Pair(a, b, w) PROVE PermissionIsTheirs'
  <2>1. \A m \in Member : ~AtMatch(m) BY <1>2, NobodyAtMatch
  <2>2. UNCHANGED scene BY <1>2 DEF Pair
  <2> QED BY <2>1, <2>2 DEF AtMatch
<1>3. ASSUME NEW m \in Member, EnterCharacterSelect(m) PROVE PermissionIsTheirs'
  BY <1>3 DEF EnterCharacterSelect, table, TypeOK
<1>4. ASSUME NEW m \in Member, OnMatchInit(m) PROVE PermissionIsTheirs'
  <2>1. /\ UNCHANGED place /\ permission'[m] = NoPermissions
        /\ \A o \in Member : o # m => permission'[o] = permission[o] /\ scene'[o] = scene[o]
    BY <1>4 DEF OnMatchInit, ForgetPermissions, table, TypeOK
  <2>2. \A o \in Member : ~Spectating(o) => place[o].index \in Slot
    BY DEF TypeOK, Slot
  <2>3. \A o \in Member : ~Spectating(o) => permission'[m][place[o].index] = None
    BY <2>1, <2>2 DEF NoPermissions
  <2>4. ASSUME NEW x \in Member, NEW o \in Member PROVE TheirPermission(x, o)'
    <3>1. CASE x = m BY <2>1, <2>3, <3>1 DEF TheirPermission
    <3>2. CASE x # m
      <4>1. TheirPermission(x, o) BY DEF PermissionIsTheirs, TheirPermission
      <4> QED BY <2>1, <3>2, <4>1 DEF TheirPermission
    <3> QED BY <3>1, <3>2
  <2> QED BY <2>4 DEF TheirPermission
<1>5. ASSUME NEW m \in Member, EnterVictory(m) PROVE PermissionIsTheirs'
  BY <1>5 DEF EnterVictory, ClearSavedPalettePacketQueues, ForgetPermissions, table, TypeOK
<1>6. ASSUME NEW m \in Member, EnterLobby(m) \/ LeaveRoom(m) PROVE PermissionIsTheirs'
  <2>1. /\ ~Matched(m)' /\ ~AtMatch(m)'
        /\ \A o \in Member : o # m => place'[o] = place[o] /\ scene'[o] = scene[o]
    BY <1>6, GoneFromMatch
  <2>2. \A o \in Member : o # m => permission'[o] = permission[o]
    BY <1>6 DEF EnterLobby, LeaveRoom, OnMatchEnd, ClearSavedPalettePacketQueues,
       ForgetPermissions, TypeOK
  <2>3. ASSUME NEW x \in Member, NEW o \in Member PROVE TheirPermission(x, o)'
    <3>1. CASE x = m \/ o = m BY <2>1, <3>1 DEF TheirPermission, Matched, AtMatch
    <3>2. CASE x # m /\ o # m
      <4>1. TheirPermission(x, o) BY DEF PermissionIsTheirs, TheirPermission
      <4> QED BY <2>1, <2>2, <3>2, <4>1 DEF TheirPermission
    <3> QED BY <3>1, <3>2
  <2> QED BY <2>3 DEF TheirPermission
<1>7. ASSUME NEW p \in packets, RecvPaletteDownloadPermissionPacket(p) PROVE PermissionIsTheirs'
  <2>1. p.to \in Member /\ p.from \in Member BY DEF TypeOK, PacketRecord, PacketsOf
  <2>2. /\ UNCHANGED <<place, scene>>
        /\ place[p.from].match = place[p.to].match /\ ~Spectating(p.from)
        /\ p.kind = "permission"
    BY <1>7 DEF RecvPaletteDownloadPermissionPacket, table, IsPacketFromSameMatchNonSpectator
  <2>3. p.says = (p.from \in Sharing) BY <2>2 DEF Truthful
  <2>4. place[p.from].index \in Slot BY <2>1, <2>2 DEF TypeOK, Slot
  <2>5. /\ permission'[p.to][place[p.from].index] = p.says
        /\ \A s \in Slot : s # place[p.from].index => permission'[p.to][s] = permission[p.to][s]
        /\ \A o \in Member : o # p.to => permission'[o] = permission[o]
    BY <1>7, <2>1, <2>4 DEF RecvPaletteDownloadPermissionPacket, TypeOK
  <2>6. ASSUME NEW o \in Member, SameMatch(p.to, o), place[p.to].match = 1, ~Spectating(o),
               scene[p.to] = "match", permission'[p.to][place[o].index] # None
        PROVE  permission'[p.to][place[o].index] = (o \in Sharing)
    <3>1. CASE o = p.from BY <2>3, <2>5, <3>1
    <3>2. CASE o # p.from
      <4>1. place[o].index # place[p.from].index
        BY <2>1, <2>2, <2>6, <3>2 DEF Sides, Paired, Matched
      <4>2. place[o].index \in Slot BY <2>6 DEF TypeOK, Slot
      <4>3. permission'[p.to][place[o].index] = permission[p.to][place[o].index]
        BY <2>5, <4>1, <4>2
      <4> QED BY <2>1, <2>6, <4>3
    <3> QED BY <3>1, <3>2
  <2>7. ASSUME NEW x \in Member, NEW o \in Member PROVE TheirPermission(x, o)'
    <3>1. CASE x = p.to BY <2>2, <2>6, <3>1 DEF TheirPermission
    <3>2. CASE x # p.to
      <4>1. TheirPermission(x, o) BY DEF PermissionIsTheirs, TheirPermission
      <4> QED BY <2>2, <2>5, <3>2, <4>1 DEF TheirPermission
    <3> QED BY <3>1, <3>2
  <2> QED BY <2>7 DEF TheirPermission
<1>8. ASSUME NEW p \in packets,
             \/ RecvAnnounce(p) \/ RecvAcknowledge(p) \/ RecvGameModePacket(p)
             \/ RecvReplayUploadEnabledBroadcastPacket(p) \/ Ignore(p) \/ Lose(p)
      PROVE  PermissionIsTheirs'
  BY <1>0, <1>8 DEF RecvAnnounce, RecvAcknowledge, RecvGameModePacket,
     RecvReplayUploadEnabledBroadcastPacket, Ignore, Lose, table
<1>9. ASSUME NEW m \in Member, OnUpdate(m) \/ \E mode \in Choice : SelectGameMode(m, mode)
      PROVE  PermissionIsTheirs'
  BY <1>0, <1>9 DEF OnUpdate, SelectGameMode, table
<1>10. CASE UNCHANGED vars BY <1>0, <1>10 DEF vars, table
<1> QED BY <1>1, <1>2, <1>3, <1>4, <1>5, <1>6, <1>7, <1>8, <1>9, <1>10 DEF Next, RecvPacket

-----------------------------------------------------------------------------
(* Refusals                                                                 *)

LEMMA RefusalStep == TypeOK /\ RefusalIsKept /\ [Next]_vars => RefusalIsKept'
<1> SUFFICES ASSUME TypeOK, RefusalIsKept, [Next]_vars PROVE RefusalIsKept'
  OBVIOUS
<1> USE DEF RefusalIsKept
<1>0. CASE UNCHANGED <<veto, heard>> BY <1>0
<1>1. ASSUME NEW a \in Member, NEW b \in Member, NEW w, Pair(a, b, w) PROVE RefusalIsKept'
  BY <1>1 DEF Pair
<1>2. ASSUME NEW m \in Member, EnterLobby(m) \/ LeaveRoom(m) PROVE RefusalIsKept'
  <2>1. /\ heard'[m] = {}
        /\ \A o \in Member : o # m => heard'[o] = heard[o] /\ veto'[o] = veto[o]
    BY <1>2 DEF EnterLobby, LeaveRoom, OnMatchEnd, VetoForgotten, TypeOK
  <2> QED BY <2>1
<1>3. ASSUME NEW p \in packets, RecvReplayUploadEnabledBroadcastPacket(p) PROVE RefusalIsKept'
  <2>1. p.to \in Member BY DEF TypeOK, PacketRecord, PacketsOf
  <2>2. CASE p.says
    BY <1>3, <2>2 DEF RecvReplayUploadEnabledBroadcastPacket
  <2>3. CASE ~p.says
    <3>1. veto' = [veto EXCEPT ![p.to] = TRUE]
      BY <1>3, <2>3 DEF RecvReplayUploadEnabledBroadcastPacket
    <3>2. \A o \in Member : o # p.to => heard'[o] = heard[o]
      BY <1>3, <2>1 DEF RecvReplayUploadEnabledBroadcastPacket, TypeOK
    <3> QED BY <2>1, <3>1, <3>2 DEF TypeOK
  <2> QED BY <2>2, <2>3
<1>4. ASSUME NEW m \in Member, NEW i \in Seat, JoinRoom(m, i) PROVE RefusalIsKept'
  BY <1>4 DEF JoinRoom, history
<1>5. ASSUME NEW m \in Member,
             \/ EnterCharacterSelect(m) \/ OnMatchInit(m) \/ OnUpdate(m) \/ EnterVictory(m)
             \/ \E mode \in Choice : SelectGameMode(m, mode)
      PROVE  RefusalIsKept'
  BY <1>0, <1>5 DEF EnterCharacterSelect, OnMatchInit, VetoKept, OnUpdate, EnterVictory,
     SelectGameMode, history
<1>6. ASSUME NEW p \in packets,
             \/ RecvAnnounce(p) \/ RecvAcknowledge(p) \/ RecvPaletteDownloadPermissionPacket(p)
             \/ RecvGameModePacket(p) \/ Ignore(p) \/ Lose(p)
      PROVE  RefusalIsKept'
  BY <1>0, <1>6 DEF RecvAnnounce, RecvAcknowledge, RecvPaletteDownloadPermissionPacket,
     RecvGameModePacket, Ignore, Lose, history
<1>7. CASE UNCHANGED vars BY <1>0, <1>7 DEF vars, history
<1> QED BY <1>1, <1>2, <1>3, <1>4, <1>5, <1>6, <1>7 DEF Next, RecvPacket

-----------------------------------------------------------------------------
(* Acquaintance                                                             *)

\* As long as the room stays the same, it is enough that no one who is there is struck off
\* and that no greeting between two who are there disappears.
LEMMA StillAcquainted ==
  ASSUME AllAcquainted, UNCHANGED room, ~lost' => ~lost,
         \A i, j \in Seat : room[i] # None /\ room[j] # None =>
           /\ known[room[i]][j] = room[j] => known'[room[i]][j] = room[j]
           /\ \A kind \in {"announce", "acknowledge"} :
                Greeting(kind, i, j) \in packets => Greeting(kind, i, j) \in packets'
  PROVE  AllAcquainted'
BY DEF AllAcquainted, Acquainted, Greeting

\* So does every action that sends, and prunes, and receives nothing.
LEMMA PruningAcquainted ==
  ASSUME TypeOK, AllAcquainted, UNCHANGED <<room, lost>>, packets \subseteq packets',
         \/ UNCHANGED known
         \/ \E m \in Member : \E rows \in SUBSET Seat : known' = Pruned(m, rows)
  PROVE  AllAcquainted'
<1>1. ASSUME NEW i \in Seat, NEW j \in Seat, room[i] # None, known[room[i]][j] = room[j]
      PROVE  known'[room[i]][j] = room[j]
  BY <1>1, SeatedMember, PrunedKnown
<1> QED BY <1>1, StillAcquainted

\* And every action by which a packet of another kind, or a greeting of someone who is not
\* there, disappears.
LEMMA DroppingAcquainted ==
  ASSUME TypeOK, AllAcquainted, UNCHANGED <<room, known>>, ~lost' => ~lost,
         NEW p \in packets, packets' = packets \ {p},
         p.kind \notin {"announce", "acknowledge"} \/ ~IsPacketFromSameRoom(p) \/ lost'
  PROVE  AllAcquainted'
<1>1. CASE lost' BY <1>1 DEF AllAcquainted
<1>2. CASE ~lost'
  <2>1. ASSUME NEW i \in Seat, NEW j \in Seat, room[i] # None, room[j] # None,
               NEW kind \in {"announce", "acknowledge"}
        PROVE  Greeting(kind, i, j) # p
    BY <1>2, <2>1, SeatedMember DEF Greeting, IsPacketFromSameRoom
  <2> QED BY <2>1, StillAcquainted
<1> QED BY <1>1, <1>2

LEMMA AcquaintedStep == TypeOK /\ AllAcquainted /\ [Next]_vars => AllAcquainted'
<1> SUFFICES ASSUME TypeOK, AllAcquainted, [Next]_vars PROVE AllAcquainted'
  OBVIOUS
<1>0. \A m : Rows(m) \in SUBSET Seat /\ {i \in Rows(m) : ~Spectating(room[i])} \in SUBSET Seat
  BY DEF Rows
<1>1. ASSUME NEW m \in Member, NEW s \in Seat, JoinRoom(m, s) PROVE AllAcquainted'
  <2>1. /\ room[s] = None /\ room' = [room EXCEPT ![s] = m]
        /\ known' = [known EXCEPT ![m] = [Nobody EXCEPT ![s] = m]]
        /\ UNCHANGED lost /\ packets \subseteq packets'
        /\ \A j \in Seat : room[j] # None =>
             [kind |-> "announce", from |-> m, seat |-> s, to |-> room[j], says |-> None] \in packets'
    BY <1>1 DEF JoinRoom, InFlight, history
  <2>2. \A i \in Seat : room[i] # m /\ (i # s => room'[i] = room[i])
    BY <1>1, <2>1 DEF JoinRoom, TypeOK, Here
  <2>3. room'[s] = m BY <2>1 DEF TypeOK
  <2>4. ASSUME NEW i \in Seat, NEW j \in Seat, ~lost' PROVE Acquainted(i, j)'
    <3>1. CASE i = s /\ j = s
      BY <2>1, <2>3, <3>1 DEF Acquainted, TypeOK, Nobody
    <3>2. CASE i = s /\ j # s BY <2>1, <2>2, <2>3, <3>2 DEF Acquainted, Greeting
    <3>3. CASE i # s /\ j = s BY <2>1, <2>2, <2>3, <3>3 DEF Acquainted, Greeting
    <3>4. CASE i # s /\ j # s
      <4>1. known'[room[i]] = known[room[i]] BY <2>1, <2>2 DEF TypeOK
      <4> QED BY <2>1, <2>2, <2>4, <3>4, <4>1 DEF AllAcquainted, Acquainted, Greeting
    <3> QED BY <3>1, <3>2, <3>3, <3>4
  <2> QED BY <2>4 DEF AllAcquainted
<1>2. ASSUME NEW m \in Member, LeaveRoom(m) PROVE AllAcquainted'
  <2>1. /\ room' = [i \in Seat |-> IF room[i] = m THEN None ELSE room[i]]
        /\ known' = [known EXCEPT ![m] = Nobody]
        /\ packets' = {p \in packets : m \notin {p.from, p.to}}
        /\ UNCHANGED lost
    BY <1>2 DEF LeaveRoom
  <2>2. ASSUME NEW i \in Seat, NEW j \in Seat, ~lost', room'[i] # None, room'[j] # None
        PROVE  Acquainted(i, j)'
    <3>1. room'[i] = room[i] /\ room[i] # m /\ room'[j] = room[j] /\ room[j] # m
      BY <2>1, <2>2
    <3>2. known'[room[i]] = known[room[i]] BY <2>1, <3>1 DEF TypeOK
    <3>3. \A kind : /\ Greeting(kind, i, j) \in packets => Greeting(kind, i, j)' \in packets'
                    /\ Greeting(kind, j, i) \in packets => Greeting(kind, j, i)' \in packets'
      BY <2>1, <3>1 DEF Greeting
    <3>4. Acquainted(i, j) BY <2>1, <2>2 DEF AllAcquainted
    <3> QED BY <2>2, <3>1, <3>2, <3>3, <3>4 DEF Acquainted
  <2> QED BY <2>2 DEF AllAcquainted, Acquainted
<1>3. ASSUME NEW p \in packets, RecvAnnounce(p) PROVE AllAcquainted'
  <2>1. /\ p.to \in Member /\ p.from \in Member /\ p.seat \in Seat
        /\ scene[p.to] # "out" /\ room[p.seat] = p.from
    BY <1>3 DEF RecvAnnounce, IsPacketFromSameRoom, TypeOK, PacketRecord, PacketsOf
  <2>2. /\ UNCHANGED <<room, lost>>
        /\ known' = [known EXCEPT ![p.to][p.seat] = p.from]
        /\ packets' = (packets \ {p}) \cup {Packet("acknowledge", p.to, p.from, None)}
    BY <1>3 DEF RecvAnnounce, Knows, InFlight, Sent, table, history
  <2>3. ASSUME NEW i \in Seat, NEW j \in Seat, ~lost', room[i] # None, room[j] # None
        PROVE  Acquainted(i, j)'
    <3>1. known[room[i]][j] = room[j] => known'[room[i]][j] = room[j]
      BY <2>1, <2>2, <2>3, SeatedMember DEF TypeOK
    <3>2. p = Greeting("announce", j, i) => known'[room[i]][j] = room[j]
      <4>1. p = Greeting("announce", j, i) => p.to = room[i] /\ p.seat = j /\ p.from = room[j]
        BY DEF Greeting
      <4> QED BY <2>1, <2>2, <4>1 DEF TypeOK
    <3>3. p = Greeting("announce", i, j) => Greeting("acknowledge", j, i) \in packets'
      <4>1. p = Greeting("announce", i, j) => p.to = room[j] /\ p.from = room[i]
        BY DEF Greeting
      <4>2. SeatOf(room[j]) = j BY <2>3, SeatedMember
      <4>3. p = Greeting("announce", i, j) =>
              Packet("acknowledge", p.to, p.from, None) = Greeting("acknowledge", j, i)
        BY <4>1, <4>2 DEF Packet, Greeting
      <4> QED BY <2>2, <4>3
    <3>4. Greeting("acknowledge", j, i) # p BY <1>3 DEF RecvAnnounce, Greeting
    <3>5. Acquainted(i, j) BY <2>2, <2>3 DEF AllAcquainted
    <3> QED BY <2>2, <3>1, <3>2, <3>3, <3>4, <3>5 DEF Acquainted, Greeting
  <2> QED BY <2>2, <2>3 DEF AllAcquainted, Acquainted
<1>4. ASSUME NEW p \in packets, RecvAcknowledge(p) PROVE AllAcquainted'
  <2>1. /\ p.to \in Member /\ p.from \in Member /\ p.seat \in Seat /\ room[p.seat] = p.from
    BY <1>4 DEF RecvAcknowledge, IsPacketFromSameRoom, TypeOK, PacketRecord, PacketsOf
  <2>2. /\ UNCHANGED <<room, lost>> /\ packets' = packets \ {p}
        /\ known' = [known EXCEPT ![p.to][p.seat] = p.from]
    BY <1>4 DEF RecvAcknowledge, Knows, table, history
  <2>3. ASSUME NEW i \in Seat, NEW j \in Seat, ~lost', room[i] # None, room[j] # None
        PROVE  Acquainted(i, j)'
    <3>1. known[room[i]][j] = room[j] => known'[room[i]][j] = room[j]
      BY <2>1, <2>2, <2>3, SeatedMember DEF TypeOK
    <3>2. p = Greeting("acknowledge", j, i) => known'[room[i]][j] = room[j]
      <4>1. p = Greeting("acknowledge", j, i) => p.to = room[i] /\ p.seat = j /\ p.from = room[j]
        BY DEF Greeting
      <4> QED BY <2>1, <2>2, <4>1 DEF TypeOK
    <3>3. Greeting("announce", j, i) # p /\ Greeting("announce", i, j) # p
      BY <1>4 DEF RecvAcknowledge, Greeting
    <3>4. Acquainted(i, j) BY <2>2, <2>3 DEF AllAcquainted
    <3> QED BY <2>2, <3>1, <3>2, <3>3, <3>4 DEF Acquainted, Greeting
  <2> QED BY <2>2, <2>3 DEF AllAcquainted, Acquainted
<1>5. ASSUME NEW a \in Member, NEW b \in Member, NEW w, Pair(a, b, w) PROVE AllAcquainted'
  <2>1. /\ UNCHANGED <<room, known, lost>>
        /\ packets' = {p \in packets : p.kind \in {"announce", "acknowledge"}}
    BY <1>5 DEF Pair
  <2>2. \A i, j \in Seat : \A kind \in {"announce", "acknowledge"} :
          Greeting(kind, i, j) \in packets => Greeting(kind, i, j) \in packets'
    BY <2>1 DEF Greeting
  <2> QED BY <2>1, <2>2, StillAcquainted
<1>6. ASSUME NEW m \in Member, NEW mode \in Choice, SelectGameMode(m, mode) PROVE AllAcquainted'
  BY <1>0, <1>6, PruningAcquainted DEF SelectGameMode, InFlight, table
<1>7. ASSUME NEW m \in Member, OnMatchInit(m) PROVE AllAcquainted'
  <2>1. UNCHANGED <<room, lost>> BY <1>7 DEF OnMatchInit, table, history
  <2>2. packets \subseteq packets'
    BY <1>7 DEF OnMatchInit, InFlight
  <2>3. UNCHANGED known \/ known' = Pruned(m, {i \in Rows(m) : ~Spectating(room[i])})
    BY <1>7 DEF OnMatchInit
  <2> QED BY <1>0, <2>1, <2>2, <2>3, PruningAcquainted
<1>8. ASSUME NEW m \in Member, OnUpdate(m) PROVE AllAcquainted'
  BY <1>0, <1>8, PruningAcquainted DEF OnUpdate, InFlight, table, history
<1>9. ASSUME NEW m \in Member, EnterCharacterSelect(m) \/ EnterVictory(m) \/ EnterLobby(m)
      PROVE  AllAcquainted'
  BY <1>9, PruningAcquainted DEF EnterCharacterSelect, EnterVictory, EnterLobby, table, history
<1>10. ASSUME NEW p \in packets,
              \/ RecvPaletteDownloadPermissionPacket(p) \/ RecvGameModePacket(p)
              \/ RecvReplayUploadEnabledBroadcastPacket(p)
       PROVE  AllAcquainted'
  <2>1. UNCHANGED <<room, known, lost>> /\ packets' = packets \ {p}
    BY <1>10 DEF RecvPaletteDownloadPermissionPacket, RecvGameModePacket,
       RecvReplayUploadEnabledBroadcastPacket, table, history
  <2>2. p.kind \notin {"announce", "acknowledge"}
    BY <1>10 DEF RecvPaletteDownloadPermissionPacket, RecvGameModePacket,
       RecvReplayUploadEnabledBroadcastPacket
  <2> QED BY <2>1, <2>2, DroppingAcquainted
<1>11. ASSUME NEW p \in packets, Ignore(p) PROVE AllAcquainted'
  BY <1>11, DroppingAcquainted DEF Ignore, table, history
<1>12. ASSUME NEW p \in packets, Lose(p) PROVE AllAcquainted'
  BY <1>12, DroppingAcquainted DEF Lose, table
<1>13. CASE UNCHANGED vars
  BY <1>13, PruningAcquainted DEF vars, table, history
<1> QED
  BY <1>1, <1>2, <1>3, <1>4, <1>5, <1>6, <1>7, <1>8, <1>9, <1>10, <1>11, <1>12, <1>13
     DEF Next, RecvPacket

-----------------------------------------------------------------------------
(* The terms of a match                                                     *)

\* Outside a match, and for what others do, nothing of the terms changes.
LEMMA TermsUntouched ==
  ASSUME UNCHANGED <<place, picked>>,
         \A m \in Member : scene'[m] = "match" <=> scene[m] = "match",
         \A m \in Member : scene[m] = "match" =>
           active'[m] = active[m] /\ permission'[m] = permission[m]
  PROVE  UNCHANGED <<place, picked, Playing, PlayedMode, KnownPermissions>>
<1>1. UNCHANGED Playing BY DEF Playing
<1>2. \A m \in Member : PlayedMode'[m] = PlayedMode[m] /\ KnownPermissions'[m] = KnownPermissions[m]
  BY DEF PlayedMode, KnownPermissions, NoPermissions
<1>3. UNCHANGED PlayedMode BY <1>2 DEF PlayedMode
<1>4. UNCHANGED KnownPermissions BY <1>2 DEF KnownPermissions
<1> QED BY <1>1, <1>3, <1>4

LEMMA PairMeets ==
  ASSUME Inv, Inv', NEW a \in Member, NEW b \in Member, NEW w \in SUBSET (Member \ {a, b}),
         Pair(a, b, w)
  PROVE  Terms!Meet
<1>1. /\ a # b /\ UNCHANGED <<scene, active, permission, picked>>
      /\ \A m \in Member : place[m].match = 0
      /\ place' = [m \in Member |->
           IF m \notin {a, b} \cup w THEN place[m]
           ELSE [match |-> 1, index |-> CASE m = a -> 0 [] m = b -> 1 [] OTHER -> 2]]
  BY DEF Pair, modes
<1>2. \A m \in Member : place'[m] =
        IF m = a THEN [match |-> 1, index |-> 0]
        ELSE IF m = b THEN [match |-> 1, index |-> 1]
        ELSE IF m \in w THEN [match |-> 1, index |-> 2] ELSE place[m]
  BY <1>1
<1>3. {m \in Member : place'[m] = [match |-> 1, index |-> 0]} = {a}
  <2>1. \A m \in Member : place'[m] = [match |-> 1, index |-> 0] <=> m = a
    <3> SUFFICES ASSUME NEW m \in Member
                 PROVE  place'[m] = [match |-> 1, index |-> 0] <=> m = a
      OBVIOUS
    <3>1. m # a => place'[m].index # 0 \/ place'[m].match = 0 BY <1>1, <1>2
    <3> QED BY <1>2, <3>1
  <2> QED BY <2>1
<1>4. {m \in Member : place'[m] = [match |-> 1, index |-> 1]} = {b}
  <2>1. \A m \in Member : place'[m] = [match |-> 1, index |-> 1] <=> m = b
    <3> SUFFICES ASSUME NEW m \in Member
                 PROVE  place'[m] = [match |-> 1, index |-> 1] <=> m = b
      OBVIOUS
    <3>1. m # b => place'[m].index # 1 \/ place'[m].match = 0 BY <1>1, <1>2
    <3> QED BY <1>1, <1>2, <3>1
  <2> QED BY <2>1
<1>5. \A s \in {0, 1} : \E player \in Member :
        {m \in Member : place'[m] = [match |-> 1, index |-> s]} = {player}
  BY <1>3, <1>4
<1>6. \A m \in Member : place'[m] = place[m] \/ place'[m].match = 1 BY <1>2
<1>7. place' \in [Member -> [match : {0, 1}, index : 0 .. 2]] BY DEF Inv, TypeOK
<1>8. UNCHANGED <<Playing, PlayedMode, KnownPermissions>>
  BY <1>1 DEF Playing, PlayedMode, KnownPermissions, NoPermissions
<1> QED BY <1>1, <1>5, <1>6, <1>7, <1>8 DEF Terms!Meet, Terms!Side

LEMMA SelectPicks ==
  ASSUME Inv, NEW m \in Member, NEW mode \in Choice, SelectGameMode(m, mode)
  PROVE  \/ mode \in Mode /\ Terms!Pick(m, mode)
         \/ UNCHANGED Terms!vars
<1>1. /\ scene[m] = "select" /\ ~Spectating(m) /\ UNCHANGED <<place, scene, permission>>
      /\ active' = [active EXCEPT ![m] = mode]
      /\ picked' = [picked EXCEPT ![m] = @ \cup ({mode} \ {None})]
  BY DEF SelectGameMode, table
<1>2. \A o \in Member : scene[o] = "match" => active'[o] = active[o]
  BY <1>1 DEF Inv, TypeOK
<1>3. UNCHANGED <<Playing, PlayedMode, KnownPermissions>>
  <2>1. UNCHANGED Playing BY <1>1 DEF Playing
  <2>2. \A o \in Member : PlayedMode'[o] = PlayedMode[o] BY <1>1, <1>2 DEF PlayedMode
  <2>3. UNCHANGED PlayedMode BY <2>2 DEF PlayedMode
  <2>4. UNCHANGED KnownPermissions BY <1>1 DEF KnownPermissions, NoPermissions
  <2> QED BY <2>1, <2>3, <2>4
<1>4. CASE mode = None
  <2>1. UNCHANGED picked BY <1>1, <1>4 DEF Inv, TypeOK
  <2> QED BY <1>1, <1>3, <2>1 DEF Terms!vars
<1>5. CASE mode # None
  <2>1. mode \in Mode BY <1>5 DEF Choice
  <2>2. picked' = [picked EXCEPT ![m] = @ \cup {mode}]
    <3>1. {mode} \ {None} = {mode} BY <1>5
    <3> QED BY <1>1, <3>1
  <2>3. place[m].match = 1 BY <1>1 DEF Inv, Sides, AtMatch, Matched
  <2>4. place[m].index \in {0, 1} BY <1>1 DEF Inv, TypeOK, Spectating
  <2>5. m \notin Playing BY <1>1 DEF Playing
  <2> QED BY <1>1, <1>3, <2>1, <2>2, <2>3, <2>4, <2>5 DEF Terms!Pick, Terms!Plays, Terms!Side
<1> QED BY <1>4, <1>5

\* A machine that changes scene enters the match or leaves it, alone.
LEMMA OnlyOnePlays ==
  ASSUME TypeOK, NEW m \in Member, NEW to, scene' = [scene EXCEPT ![m] = to]
  PROVE  Playing' = IF to = "match" THEN Playing \cup {m} ELSE Playing \ {m}
BY DEF TypeOK, Playing

LEMMA InitBegins ==
  ASSUME Inv, NEW m \in Member, OnMatchInit(m)
  PROVE  Terms!Begin(m)
<1> DEFINE settled == GetSettledGameModeChoice(m)
<1>1. /\ scene[m] \in {"select", "victory"} /\ scene' = [scene EXCEPT ![m] = "match"]
      /\ permission' = [permission EXCEPT ![m] = NoPermissions]
      /\ active' = [active EXCEPT ![m] = settled]
      /\ UNCHANGED <<place, picked>>
  BY DEF OnMatchInit, ForgetPermissions, table, history
<1>2. place[m].match = 1 /\ AtMatch(m) /\ m \notin Playing
  BY <1>1 DEF Inv, Sides, AtMatch, Matched, Playing
<1>3. Playing' = Playing \cup {m} BY <1>1, OnlyOnePlays DEF Inv
<1>4. settled \in {None} \cup {x \in Mode : \A o \in Member : Terms!Plays(o) => x \in picked[o]}
  <2>1. settled \in Choice
    BY ModesAndNone DEF GetSettledGameModeChoice, Inv, TypeOK, Slot
  <2>2. ASSUME settled # None, NEW o \in Member, Terms!Plays(o) PROVE settled \in picked[o]
    <3>1. place[o].match = 1 /\ place[o].index \in {0, 1} BY <2>2 DEF Terms!Plays, Terms!Side
    <3>2. Paired(m, o) BY <1>2, <3>1 DEF Paired, Matched, Spectating
    <3>3. choice[m][place[o].index] \in picked[o] \cup {None}
      BY <1>2, <3>2 DEF Inv, ChosenByPlayers
    <3>4. choice[m][0] = settled /\ choice[m][1] = settled
      BY <2>2 DEF GetSettledGameModeChoice
    <3> QED BY <2>2, <3>1, <3>3, <3>4
  <2> HIDE DEF settled
  <2> QED BY <2>1, <2>2 DEF Choice
<1> HIDE DEF settled
<1>5. PlayedMode' = [PlayedMode EXCEPT ![m] = settled]
  <2>1. \A o \in Member : PlayedMode'[o] = IF o = m THEN settled ELSE PlayedMode[o]
    BY <1>1 DEF Inv, TypeOK, PlayedMode
  <2> QED BY <2>1 DEF PlayedMode
<1>6. UNCHANGED KnownPermissions
  <2>1. \A o \in Member : KnownPermissions'[o] = KnownPermissions[o]
    BY <1>1 DEF Inv, TypeOK, KnownPermissions, NoPermissions
  <2> QED BY <2>1 DEF KnownPermissions
<1> QED BY <1>1, <1>2, <1>3, <1>4, <1>5, <1>6 DEF Terms!Begin

LEMMA EndStops ==
  ASSUME Inv, NEW m \in Member, NEW to \in {"out", "room", "victory"},
         scene' = [scene EXCEPT ![m] = to], NEW mode,
         active' = [active EXCEPT ![m] = mode],
         permission' = [permission EXCEPT ![m] = NoPermissions]
  PROVE  Terms!Stops(m)
<1>1. Playing' = Playing \ {m} BY OnlyOnePlays DEF Inv
<1>2. PlayedMode' = [PlayedMode EXCEPT ![m] = None]
  <2>1. \A o \in Member : PlayedMode'[o] = IF o = m THEN None ELSE PlayedMode[o]
    BY DEF Inv, TypeOK, PlayedMode
  <2> QED BY <2>1 DEF PlayedMode
<1>3. KnownPermissions' = [KnownPermissions EXCEPT ![m] = NoPermissions]
  <2>1. \A o \in Member :
          KnownPermissions'[o] = IF o = m THEN NoPermissions ELSE KnownPermissions[o]
    BY DEF Inv, TypeOK, KnownPermissions, NoPermissions
  <2> QED BY <2>1 DEF KnownPermissions
<1>4. NoPermissions = Terms!Nothing BY DEF NoPermissions, Slot, Terms!Nothing, Terms!Side
<1> QED BY <1>1, <1>2, <1>3, <1>4 DEF Terms!Stops

LEMMA VictoryStops ==
  ASSUME Inv, NEW m \in Member, EnterVictory(m)
  PROVE  Terms!Stop(m)
<1>1. /\ scene[m] = "match" /\ scene' = [scene EXCEPT ![m] = "victory"]
      /\ permission' = [permission EXCEPT ![m] = NoPermissions]
      /\ UNCHANGED <<place, picked, active>>
  BY DEF EnterVictory, ClearSavedPalettePacketQueues, ForgetPermissions, table, modes, history
<1>2. active' = [active EXCEPT ![m] = active[m]] BY <1>1 DEF Inv, TypeOK
<1>3. Terms!Stops(m) BY <1>1, <1>2, EndStops
<1> QED BY <1>1, <1>3 DEF Terms!Stop, Playing

LEMMA LobbyLeaves ==
  ASSUME Inv, NEW m \in Member, EnterLobby(m) \/ LeaveRoom(m)
  PROVE  Terms!Leave(m)
<1>1. /\ \E to \in {"out", "room"} : scene' = [scene EXCEPT ![m] = to]
      /\ active' = [active EXCEPT ![m] = None]
      /\ permission' = [permission EXCEPT ![m] = NoPermissions]
      /\ picked' = [picked EXCEPT ![m] = {}]
  BY DEF EnterLobby, LeaveRoom, OnMatchEnd, ClearSavedPalettePacketQueues, ForgetPermissions
<1>2. Terms!Stops(m) BY <1>1, EndStops
<1>3. \E i \in 0 .. 2 : place' = [place EXCEPT ![m] = [match |-> 0, index |-> i]]
  <2>1. CASE EnterLobby(m)
    <3>1. place' = [place EXCEPT ![m].match = 0] BY <2>1 DEF EnterLobby
    <3>2. place[m] \in [match : {0, 1}, index : 0 .. 2] BY DEF Inv, TypeOK
    <3>3. [place[m] EXCEPT !.match = 0] = [match |-> 0, index |-> place[m].index] BY <3>2
    <3>4. place' = [place EXCEPT ![m] = [match |-> 0, index |-> place[m].index]]
      BY <3>1, <3>3
    <3> QED BY <3>2, <3>4
  <2>2. CASE LeaveRoom(m) BY <2>2 DEF LeaveRoom, NoPlace
  <2> QED BY <2>1, <2>2
<1> QED BY <1>1, <1>2, <1>3 DEF Terms!Leave

LEMMA PermissionLearned ==
  ASSUME Inv, NEW p \in packets, RecvPaletteDownloadPermissionPacket(p)
  PROVE  \/ \E m, player \in Member : Terms!Learn(m, player)
         \/ UNCHANGED Terms!vars
<1>1. p.to \in Member /\ p.from \in Member BY DEF Inv, TypeOK, PacketRecord, PacketsOf
<1>2. /\ place[p.from].match = place[p.to].match /\ ~Spectating(p.from)
      /\ permission' = [permission EXCEPT ![p.to][place[p.from].index] = p.says]
      /\ UNCHANGED <<place, scene, active, picked>>
  BY DEF RecvPaletteDownloadPermissionPacket, IsPacketFromSameMatchNonSpectator, SameMatch,
     table, modes, history
<1>3. UNCHANGED <<Playing, PlayedMode>> BY <1>2 DEF Playing, PlayedMode
<1>4. CASE scene[p.to] = "match"
  <2>1. place[p.from].match = 1 BY <1>1, <1>2, <1>4 DEF Inv, Sides, AtMatch, Matched
  <2>2. place[p.from].index \in {0, 1} BY <1>1, <1>2 DEF Inv, TypeOK, Spectating
  <2>3. p.says = (p.from \in Sharing)
    BY DEF RecvPaletteDownloadPermissionPacket, Inv, Truthful
  <2>4. KnownPermissions' =
          [KnownPermissions EXCEPT ![p.to][place[p.from].index] = p.from \in Sharing]
    <3> DEFINE index == place[p.from].index
               says  == p.from \in Sharing
    <3>1. permission' = [permission EXCEPT ![p.to] = [@ EXCEPT ![index] = says]]
      BY <1>2, <2>3
    <3> HIDE DEF index, says
    <3>2. \A o \in Member : KnownPermissions'[o] =
            IF o = p.to THEN [KnownPermissions[o] EXCEPT ![index] = says] ELSE KnownPermissions[o]
      <4>1. \A o \in Member : permission'[o] =
              IF o = p.to THEN [permission[o] EXCEPT ![index] = says] ELSE permission[o]
        BY <3>1 DEF Inv, TypeOK
      <4>2. \A o \in Member : /\ KnownPermissions[o] = IF scene[o] = "match" THEN permission[o]
                                                       ELSE [s \in Slot |-> None]
                              /\ KnownPermissions'[o] = IF scene[o] = "match" THEN permission'[o]
                                                        ELSE [s \in Slot |-> None]
        BY <1>2 DEF KnownPermissions, NoPermissions
      <4> QED BY <1>4, <4>1, <4>2
    <3>3. KnownPermissions' = [KnownPermissions EXCEPT ![p.to] = [@ EXCEPT ![index] = says]]
      BY <1>1, <3>2 DEF KnownPermissions
    <3> QED BY <3>3 DEF index, says
  <2>5. Terms!Learn(p.to, p.from)
    BY <1>1, <1>2, <1>3, <1>4, <2>1, <2>2, <2>4
    DEF Terms!Learn, Terms!Plays, Terms!Side, Playing
  <2> QED BY <1>1, <2>5
<1>5. CASE scene[p.to] # "match"
  <2>1. \A o \in Member : scene[o] = "match" => permission'[o] = permission[o]
    BY <1>2, <1>5 DEF Inv, TypeOK
  <2> QED BY <1>2, <2>1, TermsUntouched DEF Terms!vars
<1> QED BY <1>4, <1>5

LEMMA TermsStep == Inv /\ Inv' /\ [Next]_vars => [Terms!Next]_(Terms!vars)
<1> SUFFICES ASSUME Inv, Inv', [Next]_vars PROVE Terms!Next \/ UNCHANGED Terms!vars
  OBVIOUS
<1>1. ASSUME NEW a \in Member, NEW b \in Member, NEW w \in SUBSET (Member \ {a, b}), Pair(a, b, w)
      PROVE  Terms!Next
  BY <1>1, PairMeets DEF Terms!Next
<1>2. ASSUME NEW m \in Member, NEW mode \in Choice, SelectGameMode(m, mode)
      PROVE  Terms!Next \/ UNCHANGED Terms!vars
  BY <1>2, SelectPicks DEF Terms!Next
<1>3. ASSUME NEW m \in Member, OnMatchInit(m) PROVE Terms!Next
  BY <1>3, InitBegins DEF Terms!Next
<1>4. ASSUME NEW m \in Member, EnterVictory(m) PROVE Terms!Next
  BY <1>4, VictoryStops DEF Terms!Next
<1>5. ASSUME NEW m \in Member, EnterLobby(m) \/ LeaveRoom(m) PROVE Terms!Next
  BY <1>5, LobbyLeaves DEF Terms!Next
<1>6. ASSUME NEW p \in packets, RecvPaletteDownloadPermissionPacket(p)
      PROVE  Terms!Next \/ UNCHANGED Terms!vars
  BY <1>6, PermissionLearned DEF Terms!Next
<1>7. ASSUME UNCHANGED <<place, picked, active, permission>>,
             \/ UNCHANGED scene
             \/ \E m \in Member : EnterCharacterSelect(m)
             \/ \E m \in Member, i \in Seat : JoinRoom(m, i)
      PROVE  UNCHANGED Terms!vars
  <2>1. \A m \in Member : scene'[m] = "match" <=> scene[m] = "match"
    <3>1. ASSUME NEW o \in Member, EnterCharacterSelect(o)
          PROVE  \A m \in Member : scene'[m] = "match" <=> scene[m] = "match"
      BY <3>1 DEF EnterCharacterSelect, Inv, TypeOK
    <3>2. ASSUME NEW o \in Member, NEW i \in Seat, JoinRoom(o, i)
          PROVE  \A m \in Member : scene'[m] = "match" <=> scene[m] = "match"
      BY <3>2 DEF JoinRoom, Inv, TypeOK
    <3> QED BY <1>7, <3>1, <3>2
  <2> QED BY <1>7, <2>1, TermsUntouched DEF Terms!vars
<1>8. ASSUME NEW m \in Member, \/ EnterCharacterSelect(m) \/ OnUpdate(m)
                               \/ \E i \in Seat : JoinRoom(m, i)
      PROVE  UNCHANGED Terms!vars
  <2>1. UNCHANGED <<place, picked, active, permission>>
    BY <1>8 DEF EnterCharacterSelect, OnUpdate, JoinRoom, table, modes, history
  <2>2. \/ UNCHANGED scene
        \/ \E o \in Member : EnterCharacterSelect(o)
        \/ \E o \in Member, i \in Seat : JoinRoom(o, i)
    BY <1>8 DEF OnUpdate
  <2> QED BY <1>7, <2>1, <2>2
<1>9. ASSUME NEW p \in packets,
             \/ RecvAnnounce(p) \/ RecvAcknowledge(p) \/ RecvGameModePacket(p)
             \/ RecvReplayUploadEnabledBroadcastPacket(p) \/ Ignore(p) \/ Lose(p)
      PROVE  UNCHANGED Terms!vars
  <2>1. UNCHANGED <<place, picked, active, permission, scene>>
    BY <1>9 DEF RecvAnnounce, RecvAcknowledge, RecvGameModePacket,
       RecvReplayUploadEnabledBroadcastPacket, Ignore, Lose, table, modes, history
  <2> QED BY <1>7, <2>1
<1>10. CASE UNCHANGED vars BY <1>7, <1>10 DEF vars, table, modes, history
<1> QED
  BY <1>1, <1>2, <1>3, <1>4, <1>5, <1>6, <1>8, <1>9, <1>10 DEF Next, RecvPacket

-----------------------------------------------------------------------------
(* The theorems                                                             *)

LEMMA InvAlways == Spec => []Inv
<1>1. Inv /\ [Next]_vars => Inv'
  BY TypeStep, SidesStep, TruthfulStep, ChosenStep, PermissionStep, RefusalStep, AcquaintedStep
     DEF Inv
<1> QED BY InitInv, <1>1, PTL DEF Spec

\* Every variable keeps its type, everyone has one seat, and only a match waits for its
\* handle: RoomManager's table and OnlinePaletteManager's m_matchInitPending.
THEOREM TypeCorrect == Spec => []TypeOK
<1>1. Inv => TypeOK BY DEF Inv
<1> QED BY InvAlways, <1>1, PTL

\* In every room, whoever joins and leaves, JoinRoom's announcements and AcceptAcknowledge
\* make all members known to each other unless one of them is lost.
THEOREM RoomsAreAcquainted == Spec => []EveryoneIsKnown
<1>1. Inv => EveryoneIsKnown
  BY DEF Inv, AllAcquainted, Acquainted, Greeting, EveryoneIsKnown
<1> QED BY InvAlways, <1>1, PTL

\* With any watchers, a permission OnlinePaletteManager has recorded is the opponent's.
THEOREM PermissionsAreTheirs == Spec => []PermissionIsTheirs
<1>1. Inv => PermissionIsTheirs BY DEF Inv
<1> QED BY InvAlways, <1>1, PTL

\* OnlineGameModeManager settles on a custom mode only when both players have chosen it.
THEOREM ModesNeedBoth == Spec => []ModeNeedsBoth
<1>1. Inv => ModeNeedsBoth
  <2> SUFFICES ASSUME Inv, NEW m \in Member, NEW o \in Member, scene[m] = "match",
                      active[m] # None, SameMatch(m, o), ~Spectating(o)
               PROVE  active[m] \in picked[o]
    BY DEF ModeNeedsBoth
  <2>1. Paired(m, o) /\ AtMatch(m) BY DEF Inv, Sides, Paired, Matched, AtMatch, SameMatch
  <2>2. place[o].index \in Slot BY DEF Inv, TypeOK, Spectating, Slot
  <2>3. choice[m][place[o].index] = active[m] BY <2>2 DEF Inv, ChosenByPlayers
  <2> QED BY <2>1, <2>3 DEF Inv, ChosenByPlayers
<1> QED BY InvAlways, <1>1, PTL

\* A refusal that reached ReplayUploadManager holds until the match is over.
THEOREM RefusalsAreKept == Spec => []RefusalIsKept
<1>1. Inv => RefusalIsKept BY DEF Inv
<1> QED BY InvAlways, <1>1, PTL

\* However packets are lost, delayed and reordered, and whoever takes over a seat or a side,
\* the machines of a match agree on its terms as MatchTerms has it: a mode settled at its start
\* by both players, permissions learned from those who play it, and all of it gone at its end.
THEOREM RoomImplementsTerms == Spec => ImplementsTerms
<1>1. Init => Terms!Init
  <2> SUFFICES ASSUME Init PROVE Terms!Init OBVIOUS
  <2>1. Playing = {} BY DEF Init, Playing
  <2>2. PlayedMode = [m \in Member |-> None] BY DEF Init, PlayedMode
  <2>3. KnownPermissions = [m \in Member |-> Terms!Nothing]
    BY DEF Init, KnownPermissions, NoPermissions, Slot, Terms!Nothing, Terms!Side
  <2> QED BY <2>1, <2>2, <2>3 DEF Init, NoPlace, Terms!Init
<1> QED BY <1>1, TermsStep, InvAlways, PTL DEF Spec, ImplementsTerms, Terms!Spec
=============================================================================
