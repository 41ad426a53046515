------------------------ MODULE MatchPalettesProofs ------------------------
(***************************************************************************)
(* Proofs about MatchPalettes, for any number of colours and palettes and  *)
(* any seats, a spectator's among them.                                    *)
(***************************************************************************)
EXTENDS MatchPalettes, TLAPS

-----------------------------------------------------------------------------
(* The inductive invariant                                                  *)

\* Character memory is as loaded unless a base address is known; no backup is of a palette
\* of this machine's folders; and before a match no such palette is in the memory it reads.
Memory(s) ==
  /\ ~handle[s].loaded => handle[s].store = Natives
  /\ scene \in {"menu", "victory"} \/ (scene = "select" /\ online) => ~handle[s].loaded
  /\ handle[s].backup \notin Local
  /\ scene = "loading" => \A c \in Color : handle[s].store[c] \notin Local
  /\ online /\ scene = "match" /\ s \in Others => \A c \in Color : handle[s].store[c] \notin Local

\* What a slot shows, and where the byte is while it does.
Shows(s) ==
  chosen[s] # None =>
    /\ scene = "match" /\ handle[s].loaded /\ handle[s].backup # None
    /\ handle[s].colour \in {handle[s].sw1, handle[s].sw2}
    /\ handle[s].store[handle[s].colour] = chosen[s]

\* Where a slot that no early packet has touched keeps the pick, scene by scene.
KeepsPick(s) ==
  s \notin early =>
    /\ scene = "menu" => pick[s] = None \/ handle[s].orig = pick[s]
    /\ scene = "select" => pick[s] = None \/ handle[s].colour = pick[s]
    /\ scene = "loading" =>
         /\ pick[s] # None /\ handle[s].colour = pick[s]
         /\ handle[s].store = Natives
    /\ scene = "match" =>
         /\ pick[s] # None /\ handle[s].orig = pick[s]
         /\ chosen[s] # None => handle[s].backup = pick[s]
    /\ scene = "victory" =>
         pick[s] # None /\ handle[s].orig = pick[s] /\ handle[s].colour = pick[s]

\* What is left of the match before is what waits, or has been found or overtaken.
Queues == QueueIsRivals /\ \A s \in Slot : left[s] \in {None, queue[s]}

Inv == TypeOK /\ Queues /\ \A s \in Slot : Memory(s) /\ Shows(s) /\ KeepsPick(s)

-----------------------------------------------------------------------------
(* The operations of a handle                                               *)

LEMMA NoneIsApart == None \notin Content /\ None \notin Color /\ Original # None
BY PaletteAssumption DEF None, Original, Content, Color, Custom

LEMMA SecondIsColor == ASSUME NEW c \in Color PROVE SecondOf(c) \in Color
BY MaxColorAssumption DEF SecondOf, Color

LEMMA NativesType == Natives \in [Color -> Content]
BY DEF Natives, Content

\* What no redrawing changes.
SameMatch(h, n) ==
  /\ n.orig = h.orig /\ n.backup = h.backup /\ n.loaded = h.loaded
  /\ n.sw1 = h.sw1 /\ n.sw2 = h.sw2

\* Replacing keeps the type and the match's fields; it leaves the byte on a switch index,
\* writes both of them, and nothing else.
LEMMA ReplaceRedraws ==
  ASSUME NEW h \in HandleRecord, NEW content \in Content \cup {None}
  PROVE  LET n == Replace(h, content) IN
         /\ n \in HandleRecord /\ SameMatch(h, n)
         /\ ~h.loaded => n = h
         /\ h.colour \in {h.sw1, h.sw2} => n.colour \in {h.sw1, h.sw2}
         /\ h.loaded /\ content # None => n.store[h.sw1] = content /\ n.store[h.sw2] = content
         /\ \A c \in Color : \/ n.store[c] = h.store[c]
                             \/ content # None /\ n.store[c] = content /\ c \in {h.sw1, h.sw2}
<1> DEFINE store == Written(h, content)
           w == [h EXCEPT !.store = store]
<1>1. /\ store \in [Color -> Content]
      /\ \A c \in Color : \/ store[c] = h.store[c]
                          \/ content # None /\ store[c] = content /\ c \in {h.sw1, h.sw2}
      /\ content # None => store[h.sw1] = content /\ store[h.sw2] = content
  BY DEF Written, HandleRecord
<1>2. /\ w \in HandleRecord /\ SameMatch(h, w)
      /\ w.store = store /\ w.colour = h.colour /\ w.locked = h.locked
  BY <1>1 DEF HandleRecord, SameMatch
<1> HIDE DEF store, w
<1>3. ASSUME NEW v \in HandleRecord
      PROVE  /\ UpdatePalette(v) \in HandleRecord /\ SameMatch(v, UpdatePalette(v))
             /\ UpdatePalette(v).store = v.store
             /\ UpdatePalette(v).colour \in {v.colour, v.sw1, v.sw2}
  BY DEF UpdatePalette, HandleRecord, SameMatch
<1>4. CASE ~h.loaded BY <1>4 DEF Replace, SameMatch, HandleRecord
<1>5. CASE h.loaded
  <2>1. Replace(h, content) = UpdatePalette(w) BY <1>5 DEF Replace, w, store
  <2>2. h.sw1 \in Color /\ h.sw2 \in Color BY DEF HandleRecord
  <2>3. /\ UpdatePalette(w) \in HandleRecord /\ SameMatch(h, UpdatePalette(w))
        /\ UpdatePalette(w).store = store /\ UpdatePalette(w).colour \in {h.colour, h.sw1, h.sw2}
    BY <1>2, <1>3 DEF SameMatch
  <2> HIDE DEF SameMatch
  <2> QED BY <1>1, <1>5, <2>1, <2>2, <2>3
<1> QED BY <1>4, <1>5

LEMMA InitHandleReads ==
  ASSUME NEW h \in HandleRecord
  PROVE  LET n == InitHandle(h) IN
         /\ n \in HandleRecord /\ n.orig = h.colour /\ n.colour = h.colour /\ n.sw1 = h.colour
         /\ n.loaded = h.loaded /\ n.store = h.store
         /\ n.backup = IF h.loaded THEN h.store[h.colour] ELSE h.backup
<1>1. SecondOf(h.colour) \in Color BY SecondIsColor DEF HandleRecord
<1> QED BY <1>1 DEF InitHandle, HandleRecord

LEMMA RestoreNativeType ==
  ASSUME NEW h \in HandleRecord
  PROVE  LET n == RestoreNativePalIndex(h) IN
         /\ n \in HandleRecord /\ SameMatch(h, n) /\ n.store = h.store
         /\ n.colour = IF h.orig = None THEN h.colour ELSE h.orig
BY NoneIsApart DEF RestoreNativePalIndex, HandleRecord, SameMatch

LEMMA UnloadedType ==
  ASSUME NEW h \in HandleRecord
  PROVE  LET n == Unloaded(h) IN
         /\ n \in HandleRecord /\ ~n.loaded /\ n.store = Natives
         /\ n.orig = h.orig /\ n.colour = h.colour /\ n.backup = h.backup
BY NativesType DEF Unloaded, HandleRecord

LEMMA LoadedType ==
  ASSUME NEW h \in HandleRecord
  PROVE  [h EXCEPT !.loaded = TRUE, !.store = Natives] \in HandleRecord
BY NativesType DEF HandleRecord

LEMMA NewHandleType ==
  /\ NewHandle \in HandleRecord /\ ~NewHandle.loaded /\ NewHandle.store = Natives
  /\ NewHandle.backup = None
BY NativesType, MaxColorAssumption DEF NewHandle, HandleRecord, Color

-----------------------------------------------------------------------------
(* What the steps do to one slot                                            *)

\* A slot whose handle is at most unlocked keeps its part of the invariant.
LEMMA UntouchedSlot ==
  ASSUME NEW s \in Slot, Memory(s), Shows(s), KeepsPick(s),
         SameMatch(handle[s], handle'[s]), handle'[s].colour = handle[s].colour,
         handle'[s].store = handle[s].store,
         UNCHANGED <<scene, setting, pick>>, chosen'[s] = chosen[s], s \in early => s \in early'
  PROVE  Memory(s)' /\ Shows(s)' /\ KeepsPick(s)'
BY DEF Memory, Shows, KeepsPick, SameMatch, setting, Others, Spectating

\* So does one that is redrawn in a match, or while the match loads, where it counts as early.
LEMMA RedrawnSlot ==
  ASSUME TypeOK, NEW s \in Slot, Memory(s), Shows(s), KeepsPick(s),
         NEW h \in HandleRecord, NEW content \in Content \cup {None},
         SameMatch(handle[s], h), h.colour = handle[s].colour, h.store = handle[s].store,
         h.loaded, handle'[s] = Replace(h, content),
         content \in Local => scene = "match" /\ ~(online /\ s \in Others),
         scene = "match" \/ (scene = "loading" /\ s \in early'),
         s \in early => s \in early',
         content = None => chosen[s] = None,
         chosen'[s] = (IF chosen[s] = None THEN None ELSE content),
         UNCHANGED <<scene, setting, pick>>
  PROVE  Memory(s)' /\ Shows(s)' /\ KeepsPick(s)'
<1> DEFINE n == Replace(h, content)
<1>1. /\ n \in HandleRecord /\ SameMatch(h, n)
      /\ h.colour \in {h.sw1, h.sw2} => n.colour \in {h.sw1, h.sw2}
      /\ content # None => n.store[h.sw1] = content /\ n.store[h.sw2] = content
      /\ \A c \in Color : \/ n.store[c] = h.store[c]
                          \/ content # None /\ n.store[c] = content /\ c \in {h.sw1, h.sw2}
  BY ReplaceRedraws
<1>2. handle'[s] = n OBVIOUS
<1> HIDE DEF n
<1>3. UNCHANGED <<scene, online, me, pick>> BY DEF setting
<1>4. UNCHANGED Others BY <1>3 DEF Others, Spectating
<1>5. Memory(s)' BY <1>1, <1>2, <1>3, <1>4 DEF Memory, SameMatch
<1>6. Shows(s)' BY <1>1, <1>2, <1>3 DEF Shows, SameMatch
<1>7. KeepsPick(s)' BY <1>1, <1>2, <1>3 DEF KeepsPick, SameMatch
<1> QED BY <1>5, <1>6, <1>7

\* The queued packets that OnUpdate applies, slot by slot.
LEMMA FlushRedraws ==
  ASSUME NEW hs \in [Slot -> HandleRecord], NEW q \in [Slot -> Remote \cup {None}],
         NEW isPending \in BOOLEAN, OnUpdate(hs, q, isPending), online \in BOOLEAN
  PROVE  /\ handle' \in [Slot -> HandleRecord] /\ pending' \in BOOLEAN
         /\ queue' \in [Slot -> Remote \cup {None}]
         /\ \A s \in Slot : queue'[s] \in {q[s], None}
         /\ \A s \in Slot :
              LET shown == Flushed(hs, q, isPending)[s] IN
              /\ shown \in Remote \cup {None}
              /\ shown = None => handle'[s] = hs[s]
              /\ shown # None => /\ online /\ hs[s].loaded
                                 /\ shown = q[s] /\ queue'[s] = None
                                 /\ handle'[s] = Replace(hs[s], shown)
<1>1. \A r \in Remote : r \in Content /\ r # None
  BY NoneIsApart DEF Content, Custom
<1>2. ASSUME NEW s \in Slot, NEW r \in Remote
      PROVE  Replace(hs[s], r) \in HandleRecord /\ (~hs[s].loaded => Replace(hs[s], r) = hs[s])
  BY <1>1, ReplaceRedraws
<1>3. CASE Flushes(hs, q, isPending)
  <2>1. handle' = ProcessSaved(hs, q) /\ queue' = StillWaiting(hs, q) /\ pending' = FALSE
    BY <1>3 DEF OnUpdate
  <2>2. handle' \in [Slot -> HandleRecord]
    BY <1>2, <2>1 DEF ProcessSaved
  <2>3. /\ queue' \in [Slot -> Remote \cup {None}]
        /\ \A s \in Slot : queue'[s] \in {q[s], None}
    BY <2>1 DEF StillWaiting
  <2>4. ASSUME NEW s \in Slot
        PROVE  /\ Flushed(hs, q, isPending)[s] \in Remote \cup {None}
               /\ Flushed(hs, q, isPending)[s] = None => handle'[s] = hs[s]
               /\ Flushed(hs, q, isPending)[s] # None =>
                    /\ online /\ hs[s].loaded
                    /\ Flushed(hs, q, isPending)[s] = q[s] /\ queue'[s] = None
                    /\ handle'[s] = Replace(hs[s], Flushed(hs, q, isPending)[s])
    <3>1. online BY <1>3 DEF Flushes
    <3>2. CASE hs[s].loaded /\ q[s] # None
      <4>1. Flushed(hs, q, isPending)[s] = q[s] BY <1>3, <3>2 DEF Flushed
      <4>2. handle'[s] = Replace(hs[s], q[s]) BY <2>1, <3>2 DEF ProcessSaved
      <4>3. queue'[s] = None BY <2>1, <3>2 DEF StillWaiting
      <4> QED BY <1>1, <3>1, <3>2, <4>1, <4>2, <4>3
    <3>3. CASE ~(hs[s].loaded /\ q[s] # None)
      <4>1. Flushed(hs, q, isPending)[s] = None BY <3>3 DEF Flushed
      <4>2. handle'[s] = hs[s] BY <1>2, <2>1, <3>3 DEF ProcessSaved
      <4> QED BY <4>1, <4>2
    <3> QED BY <3>2, <3>3
  <2> QED BY <2>1, <2>2, <2>3, <2>4
<1>4. CASE ~Flushes(hs, q, isPending)
  <2>1. handle' = hs /\ queue' = q /\ pending' \in BOOLEAN BY <1>4 DEF OnUpdate
  <2>2. \A s \in Slot : Flushed(hs, q, isPending)[s] = None BY <1>4 DEF Flushed
  <2> QED BY <2>1, <2>2
<1> QED BY <1>3, <1>4

\* Whatever an update leaves waiting, and of the match before, is what was there.
LEMMA StillQueued ==
  ASSUME Queues, \A s \in Slot : queue'[s] \in {queue[s], None},
         \A s \in Slot : left'[s] = IF queue'[s] = None THEN None ELSE left[s],
         UNCHANGED <<online, me, rival>>, scene' # "menu" \/ scene = "menu"
  PROVE  Queues'
<1>1. UNCHANGED Others BY DEF Others, Spectating
<1> QED BY <1>1 DEF Queues, QueueIsRivals

-----------------------------------------------------------------------------
(* The scenes                                                               *)

LEMMA EmptyQueueType ==
  /\ EmptyQueue \in [Slot -> Remote \cup {None}]
  /\ \A s \in Slot : EmptyQueue[s] = None
BY DEF EmptyQueue

LEMMA InitInv == Init => Inv
<1> SUFFICES ASSUME Init PROVE Inv OBVIOUS
<1>1. TypeOK
  BY NewHandleType, EmptyQueueType DEF Init, TypeOK
<1>2. Queues
  BY EmptyQueueType DEF Init, Queues, QueueIsRivals
<1>3. ASSUME NEW s \in Slot PROVE Memory(s) /\ Shows(s) /\ KeepsPick(s)
  <2>1. handle[s] = NewHandle /\ None \notin Local
    BY NoneIsApart DEF Init, Content, Custom
  <2> QED BY <2>1, NewHandleType DEF Init, Memory, Shows, KeepsPick
<1> QED BY <1>1, <1>2, <1>3 DEF Inv

\* The steps that restore the native colours: character select, and the victory screen.
LEMMA CharacterSelectInv ==
  ASSUME Inv, EnterCharacterSelect \/ ReturnToCharacterSelect
  PROVE  Inv'
<1>1. ASSUME NEW s \in Slot
      PROVE  /\ handle'[s] \in HandleRecord /\ SameMatch(handle[s], handle'[s])
             /\ handle'[s].store = handle[s].store
             /\ handle'[s].colour = IF handle[s].orig = None THEN handle[s].colour
                                    ELSE handle[s].orig
  <2>1. handle[s] \in HandleRecord BY DEF Inv, TypeOK
  <2>2. handle'[s] = RestoreNativePalIndex(handle[s])
    BY DEF EnterCharacterSelect, ReturnToCharacterSelect, OnCharacterSelect
  <2> QED BY <2>1, <2>2, RestoreNativeType
<1>2. handle' \in [Slot -> HandleRecord]
  BY <1>1 DEF EnterCharacterSelect, ReturnToCharacterSelect, OnCharacterSelect
<1>3. CASE EnterCharacterSelect
  <2>1. TypeOK' BY <1>2, <1>3 DEF Inv, TypeOK, EnterCharacterSelect, history
  <2>2. Queues' BY <1>3 DEF Inv, Queues, QueueIsRivals, EnterCharacterSelect, history
  <2>3. ASSUME NEW s \in Slot PROVE (Memory(s) /\ Shows(s) /\ KeepsPick(s))'
    BY <1>1, <1>3 DEF Inv, Memory, Shows, KeepsPick, SameMatch, EnterCharacterSelect, history
  <2> QED BY <2>1, <2>2, <2>3 DEF Inv
<1>4. CASE ReturnToCharacterSelect
  <2>1. TypeOK' BY <1>2, <1>4 DEF Inv, TypeOK, ReturnToCharacterSelect, NothingChosen, setting
  <2>2. Queues'
    BY <1>4 DEF Inv, Queues, QueueIsRivals, ReturnToCharacterSelect, setting, Others, Spectating
  <2>3. ASSUME NEW s \in Slot PROVE (Memory(s) /\ Shows(s) /\ KeepsPick(s))'
    <3>1. chosen'[s] = None BY <1>4 DEF ReturnToCharacterSelect, NothingChosen
    <3> QED
      BY <1>1, <1>4, <3>1, NoneIsApart
      DEF Inv, Memory, Shows, KeepsPick, SameMatch, ReturnToCharacterSelect, setting
  <2> QED BY <2>1, <2>2, <2>3 DEF Inv
<1> QED BY <1>3, <1>4

LEMMA PickInv ==
  ASSUME Inv, NEW r \in Slot, NEW color \in Color, Pick(r, color)
  PROVE  Inv'
<1>1. [handle[r] EXCEPT !.colour = color] \in HandleRecord
  <2>1. handle[r] \in HandleRecord BY DEF Inv, TypeOK
  <2> QED BY <2>1 DEF HandleRecord
<1>2. TypeOK' BY <1>1 DEF Inv, TypeOK, Pick, setting
<1>3. Queues' BY DEF Inv, Queues, QueueIsRivals, Pick, setting, Others, Spectating
<1>4. ASSUME NEW s \in Slot PROVE (Memory(s) /\ Shows(s) /\ KeepsPick(s))'
  <2>1. handle[s] \in HandleRecord BY DEF Inv, TypeOK
  <2>2. /\ SameMatch(handle[s], handle'[s]) /\ handle'[s].store = handle[s].store
        /\ handle'[s].colour = IF s = r THEN color ELSE handle[s].colour
    BY <2>1 DEF Inv, TypeOK, Pick, SameMatch, HandleRecord
  <2>3. pick'[s] = IF s = r THEN color ELSE pick[s] BY DEF Inv, TypeOK, Pick
  <2> QED BY <2>2, <2>3 DEF Inv, Memory, Shows, KeepsPick, SameMatch, Pick, setting
<1> QED BY <1>2, <1>3, <1>4 DEF Inv

LEMMA EnterVersusInv == ASSUME Inv, EnterVersus PROVE Inv'
<1>1. ASSUME NEW s \in Slot
      PROVE  /\ handle'[s] \in HandleRecord /\ ~handle'[s].loaded /\ handle'[s].store = Natives
             /\ handle'[s].colour = handle[s].colour /\ handle'[s].backup = handle[s].backup
             /\ handle'[s].orig = handle[s].orig
  BY UnloadedType DEF Inv, TypeOK, EnterVersus
<1>2. handle' \in [Slot -> HandleRecord] BY <1>1 DEF EnterVersus
<1>3. /\ pick' \in [Slot -> Color]
      /\ \A s \in Slot : pick'[s] = IF pick[s] = None THEN handle[s].colour ELSE pick[s]
  BY DEF Inv, TypeOK, EnterVersus, HandleRecord
<1>4. TypeOK' BY <1>2, <1>3 DEF Inv, TypeOK, EnterVersus, setting
<1>5. Queues' BY DEF Inv, Queues, QueueIsRivals, EnterVersus, setting, Others, Spectating
<1>6. ASSUME NEW s \in Slot PROVE (Memory(s) /\ Shows(s) /\ KeepsPick(s))'
  <2>1. \A c \in Color : Natives[c] \notin Local
    BY PaletteAssumption DEF Natives, Custom, Color
  <2>2. Memory(s)' BY <1>1, <2>1 DEF Inv, Memory, EnterVersus
  <2>3. Shows(s)' BY DEF Inv, Shows, EnterVersus
  <2>4. KeepsPick(s)' BY <1>1, <1>3, NoneIsApart DEF Inv, KeepsPick, EnterVersus
  <2> QED BY <2>2, <2>3, <2>4
<1> QED BY <1>4, <1>5, <1>6 DEF Inv

LEMMA LoadCharacterInv == ASSUME Inv, NEW r \in Slot, LoadCharacter(r) PROVE Inv'
<1>1. [handle[r] EXCEPT !.loaded = TRUE, !.store = Natives] \in HandleRecord
  BY LoadedType DEF Inv, TypeOK
<1>2. TypeOK'
  BY <1>1 DEF Inv, TypeOK, LoadCharacter, setting, history
<1>3. Queues'
  BY DEF Inv, Queues, QueueIsRivals, LoadCharacter, setting, history, Others, Spectating
<1>4. ASSUME NEW s \in Slot PROVE (Memory(s) /\ Shows(s) /\ KeepsPick(s))'
  <2>1. handle[s] \in HandleRecord BY DEF Inv, TypeOK
  <2>2. UNCHANGED <<scene, online, me, pick, early, chosen>>
    BY DEF LoadCharacter, setting, history
  <2>3. CASE s = r
    <3>1. /\ handle'[s].store = Natives /\ handle'[s].loaded /\ ~handle[s].loaded
          /\ handle'[s].colour = handle[s].colour /\ handle'[s].orig = handle[s].orig
          /\ handle'[s].backup = handle[s].backup
      BY <2>1, <2>3 DEF Inv, TypeOK, LoadCharacter, HandleRecord
    <3>2. \A c \in Color : Natives[c] \notin Local
      BY PaletteAssumption DEF Natives, Custom, Color
    <3> QED BY <2>2, <3>1, <3>2 DEF Inv, Memory, Shows, KeepsPick, LoadCharacter
  <2>4. CASE s # r
    <3>1. handle'[s] = handle[s] BY <2>4 DEF Inv, TypeOK, LoadCharacter
    <3> QED BY <2>2, <3>1 DEF Inv, Memory, Shows, KeepsPick, Others, Spectating
  <2> QED BY <2>3, <2>4
<1> QED BY <1>2, <1>3, <1>4 DEF Inv

LEMMA EnterVictoryInv == ASSUME Inv, EnterVictory PROVE Inv'
<1>1. ASSUME NEW s \in Slot
      PROVE  /\ handle'[s] \in HandleRecord /\ ~handle'[s].loaded /\ handle'[s].store = Natives
             /\ handle'[s].colour = IF handle[s].orig = None THEN handle[s].colour
                                    ELSE handle[s].orig
             /\ handle'[s].orig = handle[s].orig /\ handle'[s].backup = handle[s].backup
  <2>1. handle[s] \in HandleRecord BY DEF Inv, TypeOK
  <2>2. handle'[s] = Unloaded(RestoreNativePalIndex(handle[s])) BY DEF EnterVictory
  <2> QED BY <2>1, <2>2, RestoreNativeType, UnloadedType DEF SameMatch
<1>2. handle' \in [Slot -> HandleRecord] BY <1>1 DEF EnterVictory
<1>3. queue' = EmptyQueue /\ left' = EmptyQueue /\ chosen' = [s \in Slot |-> None]
  BY DEF EnterVictory, ClearSavedPalettePacketQueues, NothingChosen
<1>4. TypeOK'
  BY <1>2, <1>3, EmptyQueueType
  DEF Inv, TypeOK, EnterVictory, ClearSavedPalettePacketQueues, setting
<1>5. Queues' BY <1>3, EmptyQueueType DEF Queues, QueueIsRivals
<1>6. ASSUME NEW s \in Slot PROVE (Memory(s) /\ Shows(s) /\ KeepsPick(s))'
  BY <1>1, <1>3, NoneIsApart DEF Inv, Memory, Shows, KeepsPick, EnterVictory, setting
<1> QED BY <1>4, <1>5, <1>6 DEF Inv

LEMMA RematchInv == ASSUME Inv, Rematch PROVE Inv'
<1>1. TypeOK' BY DEF Inv, TypeOK, Rematch, setting, history
<1>2. Queues'
  BY DEF Inv, Queues, QueueIsRivals, Rematch, setting, history, Others, Spectating
<1>3. ASSUME NEW s \in Slot PROVE (Memory(s) /\ Shows(s) /\ KeepsPick(s))'
  <2>1. \A c \in Color : Natives[c] \notin Local
    BY PaletteAssumption DEF Natives, Custom, Color
  <2> QED BY <2>1 DEF Inv, Memory, Shows, KeepsPick, Rematch, setting, history
<1> QED BY <1>1, <1>2, <1>3 DEF Inv

LEMMA EnterMenuInv == ASSUME Inv, EnterMenu PROVE Inv'
<1>1. ASSUME NEW s \in Slot
      PROVE  /\ handle'[s] \in HandleRecord /\ ~handle'[s].loaded /\ handle'[s].store = Natives
             /\ handle'[s].orig = handle[s].orig /\ handle'[s].backup = handle[s].backup
  BY UnloadedType DEF Inv, TypeOK, EnterMenu, LeaveMatch
<1>2. handle' \in [Slot -> HandleRecord] BY <1>1 DEF EnterMenu, LeaveMatch
<1>3. queue' = EmptyQueue /\ left' = EmptyQueue /\ chosen' = [s \in Slot |-> None]
  BY DEF EnterMenu, LeaveMatch, ClearSavedPalettePacketQueues, NothingChosen
<1>4. TypeOK'
  BY <1>2, <1>3, EmptyQueueType
  DEF Inv, TypeOK, EnterMenu, LeaveMatch, ClearSavedPalettePacketQueues
<1>5. Queues' BY <1>3, EmptyQueueType DEF Queues, QueueIsRivals
<1>6. ASSUME NEW s \in Slot PROVE (Memory(s) /\ Shows(s) /\ KeepsPick(s))'
  BY <1>1, <1>3 DEF Inv, TypeOK, Memory, Shows, KeepsPick, EnterMenu
<1> QED BY <1>4, <1>5, <1>6 DEF Inv

-----------------------------------------------------------------------------
(* A packet, the user, a frame                                              *)

LEMMA SelectPaletteInv ==
  ASSUME Inv, NEW r \in Slot, NEW palette \in Local, SelectPalette(r, palette)
  PROVE  Inv'
<1>1. palette \in Content /\ palette # None /\ handle[r] \in HandleRecord
  BY NoneIsApart DEF Inv, TypeOK, Content, Custom
<1>2. UNCHANGED <<scene, online, me, setting, queue, pending, pick, early, left>>
  BY DEF SelectPalette, setting
<1>3. TypeOK'
  BY <1>1, <1>2, ReplaceRedraws DEF Inv, TypeOK, SelectPalette, setting
<1>4. Queues' BY <1>2 DEF Inv, Queues, QueueIsRivals, Others, Spectating, setting
<1>5. ASSUME NEW s \in Slot PROVE (Memory(s) /\ Shows(s) /\ KeepsPick(s))'
  <2>1. Memory(s) /\ Shows(s) /\ KeepsPick(s) BY DEF Inv
  <2>2. CASE s = r /\ handle[s].loaded
    <3>1. handle'[s] = Replace(handle[s], palette)
      BY <2>2 DEF Inv, TypeOK, SelectPalette
    <3>2. chosen'[s] = IF chosen[s] = None THEN None ELSE palette
      BY <2>2 DEF Inv, TypeOK, SelectPalette
    <3>3. scene = "match" /\ ~(online /\ s \in Others)
      BY <2>2 DEF SelectPalette, Others, Spectating, Slot
    <3>4. SameMatch(handle[s], handle[s]) /\ TypeOK BY DEF SameMatch, Inv
    <3> QED BY <1>1, <1>2, <2>1, <2>2, <3>1, <3>2, <3>3, <3>4, RedrawnSlot
  <2>3. CASE ~(s = r /\ handle[s].loaded)
    <3>1. handle'[s] = handle[s] /\ chosen'[s] = chosen[s]
      <4>1. Replace(handle[r], palette) = handle[r] \/ s # r
        BY <2>3, <1>1, ReplaceRedraws
      <4> QED BY <2>3, <4>1 DEF Inv, TypeOK, SelectPalette
    <3> QED BY <1>2, <2>1, <3>1, UntouchedSlot DEF SameMatch
  <2> QED BY <2>2, <2>3
<1> QED BY <1>3, <1>4, <1>5 DEF Inv

LEMMA ResetPaletteInv == ASSUME Inv, NEW r \in Slot, ResetPalette(r) PROVE Inv'
<1> DEFINE backup == handle[r].backup
<1>1. backup \in Content \cup {None} /\ handle[r] \in HandleRecord
  BY DEF Inv, TypeOK, HandleRecord
<1>2. UNCHANGED <<scene, online, me, setting, queue, pending, pick, early, left>>
  BY DEF ResetPalette, setting
<1>3. TypeOK'
  BY <1>1, <1>2, ReplaceRedraws DEF Inv, TypeOK, ResetPalette, RestoreOrigPal, setting
<1>4. Queues' BY <1>2 DEF Inv, Queues, QueueIsRivals, Others, Spectating, setting
<1>5. ASSUME NEW s \in Slot PROVE (Memory(s) /\ Shows(s) /\ KeepsPick(s))'
  <2>1. Memory(s) /\ Shows(s) /\ KeepsPick(s) BY DEF Inv
  <2>2. CASE s = r /\ handle[s].loaded
    <3>1. handle'[s] = Replace(handle[s], backup)
      BY <2>2 DEF Inv, TypeOK, ResetPalette, RestoreOrigPal
    <3>2. chosen'[s] = IF chosen[s] = None THEN None ELSE backup
      BY <2>2 DEF Inv, TypeOK, ResetPalette
    <3>3. scene = "match" /\ backup \notin Local /\ (backup = None => chosen[s] = None)
      BY <2>1, <2>2 DEF ResetPalette, Memory, Shows
    <3>4. SameMatch(handle[s], handle[s]) /\ TypeOK BY DEF SameMatch, Inv
    <3> HIDE DEF backup
    <3> QED BY <1>1, <1>2, <2>1, <2>2, <3>1, <3>2, <3>3, <3>4, RedrawnSlot
  <2>3. CASE ~(s = r /\ handle[s].loaded)
    <3>1. handle'[s] = handle[s] /\ chosen'[s] = chosen[s]
      <4>1. Replace(handle[r], backup) = handle[r] \/ s # r
        BY <2>3, <1>1, ReplaceRedraws
      <4> QED BY <2>3, <4>1 DEF Inv, TypeOK, ResetPalette, RestoreOrigPal
    <3> QED BY <1>2, <2>1, <3>1, UntouchedSlot DEF SameMatch
  <2> QED BY <2>2, <2>3
<1> QED BY <1>3, <1>4, <1>5 DEF Inv

LEMMA RecvPaletteInv == ASSUME Inv, NEW r \in Slot, RecvPalette(r) PROVE Inv'
<1>1. /\ rival # None /\ online /\ (scene = "menu" \/ r \in Others)
      /\ UNCHANGED <<scene, online, me, rival, setting, pending, pick>>
  BY DEF RecvPalette, setting
<1>2. /\ rival \in Content /\ rival \notin Local /\ rival # None /\ rival \in Remote
      /\ handle[r] \in HandleRecord
  BY <1>1, PaletteAssumption, NoneIsApart DEF Inv, TypeOK, Content, Custom
<1>3. CASE handle[r].loaded
  <2>1. /\ handle' = [handle EXCEPT ![r] = Replace(@, rival)] /\ UNCHANGED <<queue, left>>
        /\ chosen' = [s \in Slot |-> IF s # r \/ chosen[s] = None THEN chosen[s] ELSE rival]
        /\ early' = early \cup (IF scene = "loading" THEN {r} ELSE {})
    BY <1>1, <1>2, <1>3 DEF RecvPalette, Seen
  <2>2. TypeOK' BY <1>1, <1>2, <2>1, ReplaceRedraws DEF Inv, TypeOK
  <2>3. Queues' BY <1>1, <2>1 DEF Inv, Queues, QueueIsRivals, Others, Spectating
  <2>4. ASSUME NEW s \in Slot PROVE (Memory(s) /\ Shows(s) /\ KeepsPick(s))'
    <3>1. Memory(s) /\ Shows(s) /\ KeepsPick(s) BY DEF Inv
    <3>2. CASE s = r
      <4>1. handle'[s] = Replace(handle[s], rival) BY <2>1, <3>2 DEF Inv, TypeOK
      <4>2. scene = "match" \/ (scene = "loading" /\ s \in early')
        BY <1>1, <1>3, <2>1, <3>1, <3>2 DEF Memory, Inv, TypeOK
      <4>3. chosen'[s] = IF chosen[s] = None THEN None ELSE rival BY <2>1, <3>2
      <4>4. SameMatch(handle[s], handle[s]) /\ TypeOK /\ (s \in early => s \in early')
        BY <2>1 DEF SameMatch, Inv
      <4> QED BY <1>1, <1>2, <1>3, <3>1, <3>2, <4>1, <4>2, <4>3, <4>4, RedrawnSlot
    <3>3. CASE s # r
      <4>1. handle'[s] = handle[s] /\ chosen'[s] = chosen[s] /\ (s \in early => s \in early')
        BY <2>1, <3>3 DEF Inv, TypeOK
      <4> QED BY <1>1, <3>1, <4>1, UntouchedSlot DEF SameMatch
    <3> QED BY <3>2, <3>3
  <2> QED BY <2>2, <2>3, <2>4 DEF Inv
<1>4. CASE ~handle[r].loaded
  <2>1. /\ queue' = [queue EXCEPT ![r] = rival]
        /\ left' = [left EXCEPT ![r] = IF scene = "menu" THEN rival ELSE None]
        /\ UNCHANGED <<handle, early, chosen>>
    BY <1>4 DEF RecvPalette
  <2>2. TypeOK' BY <1>1, <1>2, <2>1 DEF Inv, TypeOK
  <2>3. \A s \in Slot :
          /\ queue'[s] = IF s = r THEN rival ELSE queue[s]
          /\ left'[s] = IF s # r THEN left[s] ELSE IF scene = "menu" THEN rival ELSE None
    BY <2>1 DEF Inv, TypeOK
  <2>4. Queues'
    BY <1>1, <2>3 DEF Inv, Queues, QueueIsRivals, Others, Spectating
  <2>5. ASSUME NEW s \in Slot PROVE (Memory(s) /\ Shows(s) /\ KeepsPick(s))'
    <3>1. Memory(s) /\ Shows(s) /\ KeepsPick(s) BY DEF Inv
    <3> QED BY <1>1, <2>1, <3>1, UntouchedSlot DEF SameMatch
  <2> QED BY <2>2, <2>4, <2>5 DEF Inv
<1> QED BY <1>3, <1>4

LEMMA FrameInv == ASSUME Inv, Frame PROVE Inv'
<1> DEFINE unlocked == [s \in Slot |-> [handle[s] EXCEPT !.locked = FALSE]]
           shown == Flushed(unlocked, queue, pending)
<1>1. /\ unlocked \in [Slot -> HandleRecord]
      /\ \A s \in Slot : /\ SameMatch(handle[s], unlocked[s])
                         /\ unlocked[s].colour = handle[s].colour
                         /\ unlocked[s].store = handle[s].store
  <2>1. ASSUME NEW h \in HandleRecord
        PROVE  LET n == [h EXCEPT !.locked = FALSE] IN
               n \in HandleRecord /\ SameMatch(h, n) /\ n.colour = h.colour /\ n.store = h.store
    BY DEF HandleRecord, SameMatch
  <2> QED BY <2>1 DEF Inv, TypeOK
<1>2. /\ OnUpdate(unlocked, queue, pending) /\ UNCHANGED <<scene, online, me, rival, setting, pick>>
      /\ Seen(Flushed(unlocked, queue, pending)) /\ LeftWaits
  BY DEF Frame, setting
<1>3. /\ queue \in [Slot -> Remote \cup {None}] /\ pending \in BOOLEAN /\ online \in BOOLEAN
      /\ \A r \in Remote : r \in Content /\ r \notin Local /\ r # None
  BY NoneIsApart, PaletteAssumption DEF Inv, TypeOK, Content, Custom
<1> HIDE DEF unlocked
<1>4. /\ handle' \in [Slot -> HandleRecord] /\ pending' \in BOOLEAN
      /\ queue' \in [Slot -> Remote \cup {None}] /\ \A s \in Slot : queue'[s] \in {queue[s], None}
  BY <1>1, <1>2, <1>3, FlushRedraws
<1>5. \A s \in Slot : /\ shown[s] \in Remote \cup {None}
                      /\ shown[s] = None => handle'[s] = unlocked[s]
                      /\ shown[s] # None => /\ online /\ unlocked[s].loaded
                                            /\ handle'[s] = Replace(unlocked[s], shown[s])
  BY <1>1, <1>2, <1>3, FlushRedraws
<1> HIDE DEF shown
<1>6. /\ chosen' = [s \in Slot |-> IF shown[s] = None \/ chosen[s] = None THEN chosen[s]
                                  ELSE shown[s]]
      /\ early' = early \cup (IF scene = "loading" THEN {s \in Slot : shown[s] # None} ELSE {})
  BY <1>2 DEF Seen, shown
<1>7. TypeOK'
  <2>1. left' \in [Slot -> Remote \cup {None}] BY <1>2 DEF LeftWaits, Inv, TypeOK
  <2> QED BY <1>2, <1>3, <1>4, <1>5, <1>6, <2>1 DEF Inv, TypeOK
<1>8. Queues' BY <1>2, <1>4, StillQueued DEF Inv, LeftWaits
<1>9. ASSUME NEW s \in Slot PROVE (Memory(s) /\ Shows(s) /\ KeepsPick(s))'
  <2>1. Memory(s) /\ Shows(s) /\ KeepsPick(s) BY DEF Inv
  <2>2. SameMatch(handle[s], unlocked[s]) /\ (s \in early => s \in early') BY <1>1, <1>6
  <2>3. CASE shown[s] = None
    <3>1. handle'[s] = unlocked[s] /\ chosen'[s] = chosen[s]
      BY <1>5, <1>6, <2>3
    <3> QED BY <1>1, <1>2, <2>1, <2>2, <3>1, UntouchedSlot
  <2>4. CASE shown[s] # None
    <3>1. /\ handle'[s] = Replace(unlocked[s], shown[s]) /\ unlocked[s].loaded
          /\ shown[s] \in Content /\ shown[s] \notin Local
          /\ chosen'[s] = IF chosen[s] = None THEN None ELSE shown[s]
      BY <1>3, <1>5, <1>6, <2>4
    <3>2. scene = "match" \/ (scene = "loading" /\ s \in early')
      BY <1>5, <1>6, <2>1, <2>2, <2>4 DEF Memory, SameMatch, Inv, TypeOK
    <3>3. /\ unlocked[s] \in HandleRecord /\ unlocked[s].colour = handle[s].colour
          /\ unlocked[s].store = handle[s].store /\ TypeOK
      BY <1>1 DEF Inv
    <3> QED BY <1>2, <2>1, <2>2, <2>4, <3>1, <3>2, <3>3, RedrawnSlot
  <2> QED BY <2>3, <2>4
<1> QED BY <1>7, <1>8, <1>9 DEF Inv

-----------------------------------------------------------------------------
(* The start of a match                                                     *)

\* What one slot shows after its handle has been read and palettes.ini applied: the entry,
\* the backup where there is none or where it is undone, and nothing if it is not loaded.
LEMMA AppliedSlot ==
  ASSUME Inv, scene = "loading", NEW s \in Slot, NEW d \in Local \cup {None, Original}
  PROVE  LET read == InitHandle(handle[s])
             own  == Spared(ApplyDefaultCustomPalette(read, d), s)
         IN
         /\ own \in HandleRecord /\ SameMatch(read, own)
         /\ read.orig = handle[s].colour /\ read.loaded = handle[s].loaded
         /\ read.backup \notin Local
         /\ handle[s].loaded =>
              /\ read.backup = handle[s].store[handle[s].colour] /\ read.backup # None
              /\ own.colour \in {own.sw1, own.sw2}
              /\ own.store[own.colour] =
                   IF d \in Local /\ ~(online /\ s \in Others) THEN d ELSE read.backup
         /\ ~handle[s].loaded => own.store = Natives
         /\ online /\ s \in Others => \A c \in Color : own.store[c] \notin Local
<1> DEFINE h == handle[s]
           read == InitHandle(h)
           applied == ApplyDefaultCustomPalette(read, d)
           own == Spared(applied, s)
<1>1. h \in HandleRecord /\ h.colour \in Color /\ h.store \in [Color -> Content]
  BY DEF Inv, TypeOK, HandleRecord
<1>2. /\ \A c \in Color : h.store[c] \notin Local
      /\ h.backup \notin Local /\ (~h.loaded => h.store = Natives)
  BY DEF Inv, Memory
<1>3. /\ \A c \in Color : Natives[c] \notin Local
      /\ None \notin Local /\ Original \notin Local /\ None # Original
      /\ \A p \in Local : p \in Content /\ p # None
  BY PaletteAssumption, NoneIsApart DEF Natives, Custom, Color, Content, Original, None
<1> HIDE DEF h
<1>4. /\ read \in HandleRecord /\ read.orig = h.colour /\ read.colour = h.colour
      /\ read.sw1 = h.colour /\ read.loaded = h.loaded /\ read.store = h.store
      /\ read.backup = IF h.loaded THEN h.store[h.colour] ELSE h.backup
  BY <1>1, InitHandleReads
<1>5. /\ read.backup \in Content \cup {None} /\ read.backup \notin Local
      /\ read.loaded => read.backup \in Content /\ read.backup # None
  BY <1>1, <1>2, <1>4, NoneIsApart DEF HandleRecord
<1> HIDE DEF read
<1>6. /\ applied \in HandleRecord /\ SameMatch(read, applied)
      /\ applied.colour \in {applied.sw1, applied.sw2}
      /\ ~read.loaded => applied = read
      /\ read.loaded =>
           applied.store[applied.colour] = IF d \in Local THEN d ELSE read.backup
      /\ \A c \in Color : applied.store[c] \in Local => c \in {read.sw1, read.sw2}
  <2>1. CASE d = None
    <3>1. applied = read BY <1>3, <2>1 DEF ApplyDefaultCustomPalette
    <3> QED BY <1>2, <1>3, <1>4, <2>1, <3>1 DEF SameMatch
  <2>2. CASE d = Original
    <3>1. applied = Replace(read, read.backup)
      BY <1>3, <2>2 DEF ApplyDefaultCustomPalette, RestoreOrigPal
    <3> HIDE DEF applied
    <3> QED BY <1>2, <1>3, <1>4, <1>5, <2>2, <3>1, ReplaceRedraws DEF SameMatch
  <2>3. CASE d \in Local
    <3>1. applied = Replace(read, d) BY <1>3, <2>3 DEF ApplyDefaultCustomPalette
    <3> HIDE DEF applied
    <3> QED BY <1>2, <1>3, <1>4, <2>3, <3>1, ReplaceRedraws DEF SameMatch
  <2> QED BY <2>1, <2>2, <2>3
<1> HIDE DEF applied
<1>7. /\ own \in HandleRecord /\ SameMatch(read, own)
      /\ read.loaded => /\ own.colour \in {own.sw1, own.sw2}
                        /\ own.store[own.colour] =
                             IF d \in Local /\ ~(online /\ s \in Others) THEN d ELSE read.backup
      /\ ~read.loaded => own = read
      /\ online /\ s \in Others => \A c \in Color : own.store[c] \notin Local
  <2>1. CASE online /\ s \in Others
    <3>1. own = Replace(applied, read.backup)
      BY <1>6, <2>1 DEF Spared, RestoreOrigPal, SameMatch
    <3> HIDE DEF own
    <3>2. /\ own \in HandleRecord /\ SameMatch(applied, own)
          /\ own.colour \in {own.sw1, own.sw2}
          /\ read.loaded => /\ own.store[own.sw1] = read.backup
                            /\ own.store[own.sw2] = read.backup
          /\ ~read.loaded => own = applied
          /\ \A c \in Color : \/ own.store[c] = applied.store[c]
                              \/ own.store[c] = read.backup
      BY <1>5, <1>6, <3>1, ReplaceRedraws DEF SameMatch
    <3>3. \A c \in Color : own.store[c] \notin Local
      <4>1. CASE read.loaded BY <1>5, <1>6, <3>2, <4>1 DEF SameMatch
      <4>2. CASE ~read.loaded BY <1>2, <1>4, <1>6, <3>2, <4>2
      <4> QED BY <4>1, <4>2
    <3> QED BY <1>6, <2>1, <3>2, <3>3 DEF SameMatch
  <2>2. CASE ~(online /\ s \in Others)
    <3>1. own = applied BY <2>2 DEF Spared
    <3> QED BY <1>6, <2>2, <3>1 DEF SameMatch
  <2> QED BY <2>1, <2>2
<1>8. h.loaded => read.backup = h.store[h.colour] BY <1>4
<1> HIDE DEF own
<1> QED BY <1>2, <1>4, <1>5, <1>7, <1>8 DEF h, read, applied, own

LEMMA MatchInitInv ==
  ASSUME Inv, NEW default \in [Slot -> Local \cup {None, Original}], MatchInit(default)
  PROVE  Inv'
<1> DEFINE read == [s \in Slot |-> InitHandle(handle[s])]
           own == [s \in Slot |-> Spared(ApplyDefaultCustomPalette(read[s], default[s]), s)]
           due == online \/ pending
           shown == Flushed(own, queue, due)
<1>1. /\ scene = "loading" /\ scene' = "match" /\ OnUpdate(own, queue, due)
      /\ UNCHANGED <<online, me, rival, pick, early>>
      /\ chosen' = [s \in Slot |->
           IF ~handle[s].loaded THEN None
           ELSE IF shown[s] # None THEN shown[s]
           ELSE IF default[s] \in Local /\ ~(online /\ s \in Others) THEN default[s]
           ELSE read[s].backup]
      /\ LeftWaits
  BY DEF MatchInit, setting
<1>2. \A s \in Slot :
         /\ own[s] \in HandleRecord /\ SameMatch(read[s], own[s])
         /\ read[s].orig = handle[s].colour /\ read[s].loaded = handle[s].loaded
         /\ read[s].backup \notin Local
         /\ handle[s].loaded =>
              /\ read[s].backup = handle[s].store[handle[s].colour] /\ read[s].backup # None
              /\ own[s].colour \in {own[s].sw1, own[s].sw2}
              /\ own[s].store[own[s].colour] =
                   IF default[s] \in Local /\ ~(online /\ s \in Others) THEN default[s]
                   ELSE read[s].backup
         /\ ~handle[s].loaded => own[s].store = Natives
         /\ online /\ s \in Others => \A c \in Color : own[s].store[c] \notin Local
  BY <1>1, AppliedSlot
<1>3. /\ queue \in [Slot -> Remote \cup {None}] /\ due \in BOOLEAN /\ online \in BOOLEAN
      /\ \A r \in Remote : r \in Content /\ r \notin Local /\ r # None
      /\ own \in [Slot -> HandleRecord]
  BY <1>2, NoneIsApart, PaletteAssumption DEF Inv, TypeOK, Content, Custom
<1> HIDE DEF read, own, due
<1>4. /\ handle' \in [Slot -> HandleRecord] /\ pending' \in BOOLEAN
      /\ queue' \in [Slot -> Remote \cup {None}] /\ \A s \in Slot : queue'[s] \in {queue[s], None}
  BY <1>1, <1>3, FlushRedraws
<1>5. \A s \in Slot : /\ shown[s] \in Remote \cup {None}
                      /\ shown[s] = None => handle'[s] = own[s]
                      /\ shown[s] # None => /\ online /\ own[s].loaded
                                            /\ handle'[s] = Replace(own[s], shown[s])
  BY <1>1, <1>3, FlushRedraws
<1> HIDE DEF shown
<1>6. ASSUME NEW s \in Slot
      PROVE  /\ SameMatch(read[s], handle'[s])
             /\ ~handle[s].loaded => handle'[s].store = Natives
             /\ online /\ s \in Others => \A c \in Color : handle'[s].store[c] \notin Local
             /\ handle[s].loaded =>
                  /\ handle'[s].colour \in {handle'[s].sw1, handle'[s].sw2}
                  /\ handle'[s].store[handle'[s].colour] = chosen'[s]
                  /\ chosen'[s] \in Content
  <2>1. read[s].backup \in Content \/ ~handle[s].loaded
    BY <1>2 DEF Inv, TypeOK, HandleRecord
  <2>2. CASE shown[s] = None
    BY <1>1, <1>2, <1>5, <2>1, <2>2 DEF Content, Custom
  <2>3. CASE shown[s] # None
    <3>1. /\ shown[s] \in Content /\ shown[s] \notin Local /\ own[s] \in HandleRecord
          /\ handle'[s] = Replace(own[s], shown[s]) /\ own[s].loaded /\ handle[s].loaded
      BY <1>2, <1>3, <1>5, <2>3 DEF SameMatch
    <3>2. /\ SameMatch(own[s], handle'[s])
          /\ handle'[s].colour \in {own[s].sw1, own[s].sw2}
          /\ handle'[s].store[own[s].sw1] = shown[s] /\ handle'[s].store[own[s].sw2] = shown[s]
          /\ \A c \in Color : \/ handle'[s].store[c] = own[s].store[c]
                              \/ handle'[s].store[c] = shown[s]
      BY <1>2, <2>3, <3>1, ReplaceRedraws
    <3> QED BY <1>1, <1>2, <2>3, <3>1, <3>2 DEF SameMatch
  <2> QED BY <2>2, <2>3
<1>7. TypeOK'
  <2>1. left' \in [Slot -> Remote \cup {None}] BY <1>1 DEF LeftWaits, Inv, TypeOK
  <2>2. chosen' \in [Slot -> Content \cup {None}] BY <1>1, <1>6
  <2> QED BY <1>1, <1>4, <2>1, <2>2 DEF Inv, TypeOK
<1>8. Queues' BY <1>1, <1>4, StillQueued DEF Inv, LeftWaits
<1>9. ASSUME NEW s \in Slot PROVE (Memory(s) /\ Shows(s) /\ KeepsPick(s))'
  <2>1. Memory(s) /\ Shows(s) /\ KeepsPick(s) BY DEF Inv
  <2>2. UNCHANGED Others BY <1>1 DEF Others, Spectating
  <2>3. Memory(s)' BY <1>1, <1>2, <1>6, <2>2 DEF Memory, SameMatch
  <2>4. ~handle[s].loaded => chosen'[s] = None BY <1>1
  <2>5. Shows(s)' BY <1>1, <1>2, <1>6, <2>4 DEF Shows, SameMatch
  <2>6. ASSUME s \notin early
        PROVE  /\ handle[s].colour = pick[s] /\ pick[s] # None
               /\ handle[s].loaded => handle[s].store[handle[s].colour] = pick[s]
    <3>1. handle[s].colour \in Color BY DEF Inv, TypeOK, HandleRecord
    <3> QED BY <1>1, <2>1, <2>6, <3>1 DEF KeepsPick, Natives
  <2>7. KeepsPick(s)' BY <1>1, <1>2, <1>6, <2>4, <2>6 DEF KeepsPick, SameMatch
  <2> QED BY <2>3, <2>5, <2>7
<1> QED BY <1>7, <1>8, <1>9 DEF Inv

-----------------------------------------------------------------------------
(* The invariant is kept                                                    *)

LEMMA NextInv == Inv /\ [Next]_vars => Inv'
<1> SUFFICES ASSUME Inv, [Next]_vars PROVE Inv' OBVIOUS
<1>1. CASE UNCHANGED vars
  <2>1. UNCHANGED <<scene, online, me, rival, handle, queue, pending, pick, early, chosen, left>>
    BY <1>1 DEF vars, setting, history
  <2> QED
    BY <2>1
    DEF Inv, TypeOK, Queues, QueueIsRivals, Memory, Shows, KeepsPick, Others, Spectating
<1>2. CASE EnterCharacterSelect \/ ReturnToCharacterSelect BY <1>2, CharacterSelectInv
<1>3. CASE EnterVersus BY <1>3, EnterVersusInv
<1>4. CASE Load BY <1>4, LoadCharacterInv DEF Load
<1>5. CASE \E s \in Slot, color \in Color : Pick(s, color) BY <1>5, PickInv
<1>6. CASE \E default \in [Slot -> Local \cup {None, Original}] : MatchInit(default)
  BY <1>6, MatchInitInv
<1>7. CASE EnterVictory BY <1>7, EnterVictoryInv
<1>8. CASE Rematch BY <1>8, RematchInv
<1>9. CASE EnterMenu BY <1>9, EnterMenuInv
<1>10. CASE Frame BY <1>10, FrameInv
<1>11. CASE \E s \in Slot : RecvPalette(s) \/ ResetPalette(s)
  BY <1>11, RecvPaletteInv, ResetPaletteInv
<1>12. CASE \E s \in Slot, palette \in Local : SelectPalette(s, palette)
  BY <1>12, SelectPaletteInv
<1> QED
  BY <1>1, <1>2, <1>3, <1>4, <1>5, <1>6, <1>7, <1>8, <1>9, <1>10, <1>11, <1>12 DEF Next

\* What the steps preserve holds always.
LEMMA InvAlways == Spec => []Inv
BY InitInv, NextInv, PTL DEF Spec

-----------------------------------------------------------------------------
(* The refinement of Costumes                                               *)

CostumeStep == [Costume!Next]_<<scene = "match", OwnSlots, rival, left, pick, Worn>>

\* In a match the byte leads to what was chosen, so the slots not held to anything aside, what
\* a slot wears is that.
LEMMA WornIsChosen ==
  ASSUME Inv
  PROVE  Worn = [s \in Slot |-> IF scene = "match" /\ s \notin early THEN chosen[s] ELSE None]
BY DEF Inv, Shows, Worn

LEMMA NextWornIsChosen ==
  ASSUME Inv'
  PROVE  Worn' = [s \in Slot |-> IF scene' = "match" /\ s \notin early' THEN chosen'[s] ELSE None]
BY DEF Inv, Shows, Worn

\* Outside the matches everything may happen to the picks and the players, and nothing to see.
LEMMA OutsideMatches ==
  ASSUME Inv, Inv', scene # "match", scene' # "match"
  PROVE  CostumeStep
<1>1. /\ OwnSlots' \subseteq Slot /\ rival' \in Remote \cup {None}
      /\ left' \in [Slot -> Remote \cup {None}] /\ pick' \in [Slot -> Color \cup {None}]
  BY DEF Inv, TypeOK, OwnSlots
<1>2. Worn = [s \in Slot |-> None] /\ Worn' = [s \in Slot |-> None]
  BY DEF Worn
<1>3. Costume!Between BY <1>1, <1>2 DEF Costume!Between
<1> QED BY <1>3 DEF CostumeStep, Costume!Next

LEMMA MatchEnds ==
  ASSUME Inv, Inv', scene = "match", scene' # "match", UNCHANGED pick,
         rival' \in {rival, None}, left' = EmptyQueue
  PROVE  CostumeStep
<1>1. OwnSlots' \subseteq Slot BY DEF OwnSlots
<1>2. Worn' = [s \in Slot |-> None] BY DEF Worn
<1>3. Costume!End BY <1>1, <1>2 DEF Costume!End, EmptyQueue
<1> QED BY <1>3 DEF CostumeStep, Costume!Next

\* What is shown of what waited is the opponent's, or was left in the lobby.
LEMMA QueuedIsRivals ==
  ASSUME Inv, scene # "menu", NEW s \in Slot, queue[s] # None
  PROVE  queue[s] = left[s] \/ (s \notin OwnSlots /\ queue[s] = rival)
BY DEF Inv, Queues, QueueIsRivals, OwnSlots

\* A slot begins in the palette this machine has for it if that is its own, in the opponent's
\* or in what was left in the lobby if that has come already, or else in the backup, which is
\* of the pick.
LEMMA MatchBegins ==
  ASSUME Inv, Inv', NEW default \in [Slot -> Local \cup {None, Original}], MatchInit(default)
  PROVE  CostumeStep
<1> DEFINE read == [s \in Slot |-> InitHandle(handle[s])]
           own == [s \in Slot |-> Spared(ApplyDefaultCustomPalette(read[s], default[s]), s)]
           shown == Flushed(own, queue, online \/ pending)
<1>1. /\ scene = "loading" /\ scene' = "match"
      /\ UNCHANGED <<online, me, rival, pick, early>>
      /\ chosen' = [s \in Slot |->
           IF ~handle[s].loaded THEN None
           ELSE IF shown[s] # None THEN shown[s]
           ELSE IF default[s] \in Local /\ ~(online /\ s \in Others) THEN default[s]
           ELSE read[s].backup]
      /\ LeftWaits
  BY DEF MatchInit, setting
<1>2. ASSUME NEW s \in Slot, shown[s] # None
      PROVE  shown[s] = left[s] \/ (s \notin OwnSlots /\ shown[s] = rival)
  <2>1. queue[s] # None /\ shown[s] = queue[s] BY <1>2 DEF Flushed
  <2> QED BY <1>1, <2>1, QueuedIsRivals
<1>3. ASSUME NEW s \in Slot, s \notin early, handle[s].loaded
      PROVE  read[s].backup = pick[s]
  <2>1. handle[s] \in HandleRecord /\ handle[s].colour \in Color
    BY DEF Inv, TypeOK, HandleRecord
  <2>2. read[s].backup = handle[s].store[handle[s].colour]
    BY <1>3, <2>1, InitHandleReads
  <2>3. handle[s].colour = pick[s] /\ handle[s].store = Natives
    BY <1>1, <1>3 DEF Inv, KeepsPick
  <2> QED BY <2>1, <2>2, <2>3 DEF Natives
<1> HIDE DEF shown, read
<1>4. ASSUME NEW s \in Slot
      PROVE  Worn'[s] \in {None, pick[s], left[s]} \cup IF s \in OwnSlots THEN Local ELSE {rival}
  <2>1. Worn'[s] = IF s \in early THEN None ELSE chosen'[s] BY <1>1, NextWornIsChosen
  <2>2. online /\ s \in Others <=> s \notin OwnSlots BY DEF OwnSlots
  <2> QED BY <1>1, <1>2, <1>3, <2>1, <2>2
<1>5. Worn' \in [Slot -> Color \cup Local \cup Remote \cup {None}]
  <2>1. chosen' \in [Slot -> Content \cup {None}] BY DEF Inv, TypeOK
  <2> QED BY <2>1, NextWornIsChosen DEF Content, Custom
<1>6. UNCHANGED OwnSlots BY <1>1 DEF OwnSlots, Others, Spectating
<1>7. Costume!Found(left')
  BY <1>1 DEF Costume!Found, LeftWaits, Inv, TypeOK
<1>8. Costume!Begin BY <1>1, <1>4, <1>5, <1>6, <1>7 DEF Costume!Begin
<1> QED BY <1>8 DEF CostumeStep, Costume!Next

\* The slots that change are those the opponent's palette came for, or in which something left
\* in the lobby was found.
LEMMA PacketsArrive ==
  ASSUME Inv, Inv', scene = "match", UNCHANGED <<scene, online, me, rival, pick, early>>,
         \A s \in Slot : left'[s] \in {left[s], None},
         \A s \in Slot :
           chosen'[s] # chosen[s] =>
             /\ chosen[s] # None
             /\ \/ s \notin OwnSlots /\ chosen'[s] = rival
                \/ chosen'[s] = left[s] /\ left'[s] = None
  PROVE  CostumeStep
<1>1. \A s \in Slot : /\ Worn[s] = IF s \in early THEN None ELSE chosen[s]
                      /\ Worn'[s] = IF s \in early THEN None ELSE chosen'[s]
  BY WornIsChosen, NextWornIsChosen
<1>2. \A s \in Slot :
        Worn'[s] # Worn[s] =>
          /\ Worn[s] # None
          /\ \/ s \notin OwnSlots /\ Worn'[s] = rival
             \/ Worn'[s] = left[s] /\ left'[s] = None
  BY <1>1
<1>3. Worn' \in [Slot -> Color \cup Local \cup Remote \cup {None}]
  <2>1. chosen' \in [Slot -> Content \cup {None}] BY DEF Inv, TypeOK
  <2> QED BY <2>1, NextWornIsChosen DEF Content, Custom
<1>4. Costume!Found(left') BY DEF Costume!Found, Inv, TypeOK
<1>5. UNCHANGED OwnSlots BY DEF OwnSlots, Others, Spectating
<1>6. Costume!Receive BY <1>2, <1>3, <1>4, <1>5 DEF Costume!Receive
<1> QED BY <1>6 DEF CostumeStep, Costume!Next

LEMMA FrameDresses ==
  ASSUME Inv, Inv', Frame, scene = "match"
  PROVE  CostumeStep
<1> DEFINE unlocked == [s \in Slot |-> [handle[s] EXCEPT !.locked = FALSE]]
           shown == Flushed(unlocked, queue, pending)
<1>1. /\ UNCHANGED <<scene, online, me, rival, pick>> /\ Seen(shown) /\ LeftWaits
      /\ OnUpdate(unlocked, queue, pending)
  BY DEF Frame, setting
<1>2. ASSUME NEW s \in Slot, shown[s] # None
      PROVE  /\ queue'[s] = None
             /\ shown[s] = left[s] \/ (s \notin OwnSlots /\ shown[s] = rival)
  <2>1. /\ Flushes(unlocked, queue, pending) /\ unlocked[s].loaded
        /\ queue[s] # None /\ shown[s] = queue[s]
    BY <1>2 DEF Flushed
  <2>2. queue'[s] = None BY <1>1, <2>1 DEF OnUpdate, StillWaiting
  <2> QED BY <2>1, <2>2, QueuedIsRivals
<1> HIDE DEF shown, unlocked
<1>3. early' = early BY <1>1 DEF Seen, Inv, TypeOK
<1>4. \A s \in Slot : left'[s] = IF queue'[s] = None THEN None ELSE left[s]
  BY <1>1 DEF LeftWaits
<1>5. \A s \in Slot : chosen'[s] = IF None \in {shown[s], chosen[s]} THEN chosen[s] ELSE shown[s]
  BY <1>1 DEF Seen
<1>6. ASSUME NEW s \in Slot, chosen'[s] # chosen[s]
      PROVE  /\ chosen[s] # None
             /\ \/ s \notin OwnSlots /\ chosen'[s] = rival
                \/ chosen'[s] = left[s] /\ left'[s] = None
  <2>1. shown[s] # None /\ chosen[s] # None /\ chosen'[s] = shown[s] BY <1>5, <1>6
  <2> QED BY <1>2, <1>4, <2>1
<1> QED BY <1>1, <1>3, <1>4, <1>6, PacketsArrive

LEMMA PacketDresses ==
  ASSUME Inv, Inv', NEW r \in Slot, RecvPalette(r), scene = "match"
  PROVE  CostumeStep
<1>1. /\ UNCHANGED <<scene, online, me, rival, pick>> /\ r \notin OwnSlots
  BY DEF RecvPalette, setting, OwnSlots
<1>2. /\ \A s \in Slot : left'[s] \in {left[s], None} /\ early' = early
      /\ \A s \in Slot : chosen'[s] # chosen[s] => s = r /\ chosen[s] # None /\ chosen'[s] = rival
  <2>1. CASE handle[r].loaded
    <3>1. /\ Seen([s \in Slot |-> IF s = r THEN rival ELSE None]) /\ UNCHANGED left
      BY <2>1 DEF RecvPalette
    <3>2. early' = early BY <1>1, <3>1 DEF Seen, Inv, TypeOK
    <3> QED BY <3>1, <3>2 DEF Seen
  <2>2. CASE ~handle[r].loaded
    <3>1. UNCHANGED <<early, chosen>> /\ left' = [left EXCEPT ![r] = None]
      BY <2>2 DEF RecvPalette
    <3> QED BY <3>1 DEF Inv, TypeOK
  <2> QED BY <2>1, <2>2
<1> QED BY <1>1, <1>2, PacketsArrive

\* A click shows something in its slot only, and nothing where nothing is promised.
LEMMA ClickChanges ==
  ASSUME Inv, Inv', UNCHANGED <<scene, online, me, rival, left, pick, early>>,
         scene = "match", NEW r \in Slot, NEW content \in Content,
         chosen' = [chosen EXCEPT ![r] = IF handle[r].loaded /\ @ # None THEN content ELSE @]
  PROVE  /\ UNCHANGED <<scene = "match", OwnSlots, rival, left, pick>>
         /\ UNCHANGED Worn \/ (Worn[r] # None /\ Worn' = [Worn EXCEPT ![r] = content])
<1>1. content # None BY NoneIsApart
<1>2. chosen \in [Slot -> Content \cup {None}] BY DEF Inv, TypeOK
<1> DEFINE changed == handle[r].loaded /\ chosen[r] # None
<1>3. \A s \in Slot : chosen'[s] = IF s = r /\ changed THEN content ELSE chosen[s]
  BY <1>2
<1> HIDE DEF changed
<1>4. \A s \in Slot : Worn'[s] = IF s = r /\ changed /\ r \notin early THEN content ELSE Worn[s]
  BY <1>3, WornIsChosen, NextWornIsChosen
<1>5. DOMAIN Worn = Slot /\ Worn = [s \in Slot |-> Worn[s]] /\ Worn' = [s \in Slot |-> Worn'[s]]
  BY DEF Worn
<1>6. CASE changed /\ r \notin early
  <2>1. Worn' = [Worn EXCEPT ![r] = content] BY <1>4, <1>5, <1>6
  <2>2. Worn[r] # None BY <1>6, WornIsChosen DEF changed
  <2>3. UNCHANGED OwnSlots BY DEF OwnSlots, Others, Spectating
  <2> QED BY <2>1, <2>2, <2>3
<1>7. CASE ~(changed /\ r \notin early)
  <2>1. \A s \in Slot : Worn'[s] = Worn[s] BY <1>4, <1>7
  <2>2. UNCHANGED Worn BY <1>5, <2>1
  <2>3. UNCHANGED OwnSlots BY DEF OwnSlots, Others, Spectating
  <2> QED BY <2>2, <2>3
<1> QED BY <1>6, <1>7

LEMMA SelectDresses ==
  ASSUME Inv, Inv', NEW r \in Slot, NEW palette \in Local, SelectPalette(r, palette)
  PROVE  CostumeStep
<1>1. /\ UNCHANGED <<scene, online, me, rival, left, pick, early>> /\ scene = "match"
      /\ chosen' = [chosen EXCEPT ![r] = IF handle[r].loaded /\ @ # None THEN palette ELSE @]
  BY DEF SelectPalette, setting
<1>2. palette \in Content BY DEF Content, Custom
<1>3. r \in OwnSlots BY DEF SelectPalette, OwnSlots, Others, Spectating, Slot
<1>4. /\ UNCHANGED <<scene = "match", OwnSlots, rival, left, pick>>
      /\ UNCHANGED Worn \/ (Worn[r] # None /\ Worn' = [Worn EXCEPT ![r] = palette])
  BY <1>1, <1>2, ClickChanges
<1>5. CASE UNCHANGED Worn BY <1>4, <1>5 DEF CostumeStep
<1>6. CASE Worn[r] # None /\ Worn' = [Worn EXCEPT ![r] = palette]
  <2>1. Costume!Dress(r, palette) BY <1>1, <1>3, <1>4, <1>6 DEF Costume!Dress
  <2> QED BY <2>1 DEF CostumeStep, Costume!Next
<1> QED BY <1>4, <1>5, <1>6

LEMMA ResetUndresses ==
  ASSUME Inv, Inv', NEW r \in Slot, ResetPalette(r)
  PROVE  CostumeStep
<1>1. /\ UNCHANGED <<scene, online, me, rival, left, pick, early>> /\ scene = "match"
      /\ chosen' = [chosen EXCEPT ![r] = IF handle[r].loaded /\ @ # None THEN handle[r].backup
                                         ELSE @]
  BY DEF ResetPalette, setting
<1>2. CASE r \notin early /\ chosen[r] # None
  <2>1. handle[r].backup = pick[r] /\ pick[r] # None
    BY <1>1, <1>2 DEF Inv, KeepsPick
  <2>2. pick[r] \in Content BY <2>1 DEF Inv, TypeOK, Content
  <2>3. chosen' = [chosen EXCEPT ![r] = IF handle[r].loaded /\ @ # None THEN pick[r] ELSE @]
    BY <1>1, <2>1
  <2>4. /\ UNCHANGED <<scene = "match", OwnSlots, rival, left, pick>>
        /\ UNCHANGED Worn \/ (Worn[r] # None /\ Worn' = [Worn EXCEPT ![r] = pick[r]])
    BY <1>1, <2>2, <2>3, ClickChanges
  <2>5. CASE UNCHANGED Worn BY <2>4, <2>5 DEF CostumeStep
  <2>6. CASE Worn[r] # None /\ Worn' = [Worn EXCEPT ![r] = pick[r]]
    <3>1. Costume!Undress(r) BY <1>1, <2>4, <2>6 DEF Costume!Undress
    <3> QED BY <3>1 DEF CostumeStep, Costume!Next
  <2> QED BY <2>4, <2>5, <2>6
<1>3. CASE r \in early \/ chosen[r] = None
  <2>1. \A s \in Slot : s \in early \/ chosen'[s] = chosen[s]
    BY <1>1, <1>3 DEF Inv, TypeOK
  <2>2. UNCHANGED Worn BY <1>1, <2>1, WornIsChosen, NextWornIsChosen
  <2>3. UNCHANGED OwnSlots BY <1>1 DEF OwnSlots, Others, Spectating
  <2> QED BY <1>1, <2>2, <2>3 DEF CostumeStep
<1> QED BY <1>2, <1>3

LEMMA CostumesStep == Inv /\ Inv' /\ [Next]_vars => CostumeStep
<1> SUFFICES ASSUME Inv, Inv', [Next]_vars PROVE CostumeStep OBVIOUS
<1>1. CASE scene # "match" /\ scene' # "match" BY <1>1, OutsideMatches
<1>2. CASE UNCHANGED vars \/ Load
  <2>1. UNCHANGED <<scene, online, me, rival, left, pick, early, chosen>>
    BY <1>2 DEF vars, setting, history, Load, LoadCharacter
  <2>2. UNCHANGED Worn BY <2>1, WornIsChosen, NextWornIsChosen
  <2>3. UNCHANGED OwnSlots BY <2>1 DEF OwnSlots, Others, Spectating
  <2> QED BY <2>1, <2>2, <2>3 DEF CostumeStep
<1>3. CASE \E default \in [Slot -> Local \cup {None, Original}] : MatchInit(default)
  BY <1>3, MatchBegins
<1>4. CASE scene = "match" /\ (ReturnToCharacterSelect \/ EnterVictory \/ EnterMenu)
  <2>1. scene' # "match" /\ UNCHANGED pick /\ rival' \in {rival, None}
    BY <1>4 DEF ReturnToCharacterSelect, EnterVictory, EnterMenu, setting
  <2>2. left' = EmptyQueue
    <3>1. CASE ReturnToCharacterSelect
      <4>1. ~online /\ UNCHANGED left BY <1>4, <3>1 DEF ReturnToCharacterSelect
      <4>2. \A s \in Slot : left[s] = None BY <4>1 DEF Inv, Queues, QueueIsRivals
      <4>3. left \in [Slot -> Remote \cup {None}] BY DEF Inv, TypeOK
      <4> QED BY <4>1, <4>2, <4>3 DEF EmptyQueue
    <3>2. CASE EnterVictory \/ EnterMenu BY <3>2 DEF EnterVictory, EnterMenu
    <3> QED BY <1>4, <3>1, <3>2
  <2> QED BY <1>4, <2>1, <2>2, MatchEnds
<1>5. CASE Frame /\ scene = "match" BY <1>5, FrameDresses
<1>6. CASE scene = "match" /\ \E s \in Slot : RecvPalette(s) \/ ResetPalette(s)
  BY <1>6, PacketDresses, ResetUndresses
<1>7. CASE \E s \in Slot, palette \in Local : SelectPalette(s, palette) BY <1>7, SelectDresses
<1>8. CASE scene # "match"
  <2>1. scene' # "match" \/ \E default \in [Slot -> Local \cup {None, Original}] : MatchInit(default)
    BY <1>8
    DEF Next, EnterCharacterSelect, ReturnToCharacterSelect, EnterVersus, Load, LoadCharacter,
        Pick, EnterVictory, Rematch, EnterMenu, Frame, RecvPalette, ResetPalette, SelectPalette,
        vars
  <2> QED BY <1>1, <1>3, <1>8, <2>1
<1>9. CASE scene = "match"
  BY <1>2, <1>3, <1>4, <1>5, <1>6, <1>7, <1>9
  DEF Next, EnterCharacterSelect, EnterVersus, Pick, Rematch
<1> QED BY <1>8, <1>9

-----------------------------------------------------------------------------
(* The theorems                                                             *)

\* The handles keep their types: in particular the second switch index is a colour.
THEOREM TypeCorrect == Spec => []TypeOK
<1>1. Inv => TypeOK BY DEF Inv
<1> QED BY <1>1, InvAlways, PTL

\* Whatever palettes earlier matches showed, a match that no packet was too early for reads
\* the colour that was picked.
THEOREM PickIsRead == Spec => []ReadsThePick
<1>1. Inv => ReadsThePick BY DEF Inv, KeepsPick, ReadsThePick
<1> QED BY <1>1, InvAlways, PTL

\* What was chosen last is what the flipped byte points to.
THEOREM ChosenIsShown == Spec => []ShownIsChosen
<1>1. Inv => ShownIsChosen BY DEF Inv, Shows, ShownIsChosen
<1> QED BY <1>1, InvAlways, PTL

\* No palette of this machine's folders is ever in an opponent's colours.
THEOREM OpponentsAreSpared == Spec => []OpponentIsSpared
<1>1. Inv => OpponentIsSpared
  <2> SUFFICES ASSUME Inv, online, scene = "match", NEW s \in Others, NEW c \in Color
               PROVE  handle[s].store[c] \notin Local
    BY DEF OpponentIsSpared
  <2>1. s \in Slot BY DEF Others
  <2> QED BY <2>1 DEF Inv, Memory
<1> QED BY <1>1, InvAlways, PTL

\* Whatever waits for a slot is of the opponent who plays in it now, or has come since the
\* last match ended, in the lobby this match was entered from; whichever of late loading, late
\* packets, rematches and changes of room and seat came between.
THEOREM QueueIsTheRivals == Spec => []QueueIsRivals
<1>1. Inv => QueueIsRivals BY DEF Inv, Queues
<1> QED BY <1>1, InvAlways, PTL

\* With any colours, palettes and seats, each player of a match begins in what was picked, in a
\* palette of its own side or in one that was left for its slot in the lobby, and is dressed,
\* undressed and left alone as Costumes says, through every flip of the byte and every order of
\* loading, packets and clicks.
THEOREM PalettesImplementCostumes == Spec => ImplementsCostumes
<1>1. Init => Costume!Init
  <2> SUFFICES ASSUME Init PROVE Costume!Init OBVIOUS
  <2>1. Worn = [s \in Slot |-> None] BY DEF Init, Worn
  <2>2. OwnSlots \subseteq Slot BY DEF OwnSlots
  <2> QED BY <2>1, <2>2 DEF Init, Costume!Init, EmptyQueue
<1>2. Inv /\ Inv' /\ [Next]_vars => [Costume!Next]_(Costume!vars)
  BY CostumesStep DEF CostumeStep, Costume!vars
<1> QED BY <1>1, <1>2, InvAlways, PTL DEF Spec, ImplementsCostumes, Costume!Spec
=============================================================================
