--------------------------- MODULE BgmShelfProofs ---------------------------
(***************************************************************************)
(* That the replacement manager, with its table, rows, queue, late results *)
(* and ini, implements the music shelf, for any number of tracks, songs    *)
(* and queued jobs: every step of it is a step of the shelf, or none.      *)
(***************************************************************************)
EXTENDS BgmQueueProofs

\* What a restart relies on: an entry is only ever patched for a row that has its line, or it
\* is left over from an undo that could not restore it.
PointedIsSaved == \A t \in Track \ stuck : table[t] # None => ini[t] # None

-----------------------------------------------------------------------------
(* What is patched is saved *)

\* Whoever ends in Save has written a line for every row that has a song.
LEMMA SaveWritesPointed ==
  ASSUME TypeOK', PointerInv', Save
  PROVE  PointedIsSaved'
<1> SUFFICES ASSUME NEW t \in Track, t \notin stuck', table'[t] # None PROVE ini'[t] # None
  BY DEF PointedIsSaved
<1>1. m_assignments'[t].state # "Original"
  <2>1. t \in Index /\ Primary[t] = t BY DEF Track
  <2> QED BY <2>1 DEF PointerInv, RowMatchesPointer
<1>2. m_assignments'[t].source \in Source
  BY <1>1 DEF PointerInv, AssignedHasSource, Assigned
<1>3. m_assignments'[t].source # None
  BY <1>2, ValueAssumption DEF Source, Track
<1>4. m_assignments'[t].gain \in Gain BY DEF TypeOK, Assignment
<1>5. ini'[t] = [source |-> m_assignments'[t].source, gain |-> m_assignments'[t].gain]
  BY <1>3 DEF Save, SavedLines
<1>6. ini'[t] \in Song BY <1>2, <1>4, <1>5 DEF Song
<1> QED BY <1>6, ValueAssumption

LEMMA PointedStep ==
  ASSUME TypeOK, TypeOK', PointerInv', PointedIsSaved, [Next]_vars
  PROVE  PointedIsSaved'
<1>1. ASSUME UNCHANGED pointers, UNCHANGED ini PROVE PointedIsSaved'
  BY <1>1 DEF PointedIsSaved, pointers
<1>2. ASSUME NEW t, NEW s, NEW gain, Assign(t, s, gain) PROVE PointedIsSaved'
  BY <1>1, <1>2, SaveWritesPointed DEF Assign, QueueConversion, RejectAssign
<1>3. CASE Restart
  <2>1. \A t \in Track : Primary[t] = t /\ t \in Index BY DEF Track
  <2>2. PICK kept : Initialize(kept) /\ UNCHANGED ini BY <1>3 DEF Restart
  <2>3. \A i \in Index : table'[i] # None => ini[Primary[i]] # None BY <2>2 DEF Initialize
  <2> QED BY <2>1, <2>2, <2>3 DEF PointedIsSaved
<1>4. ASSUME NEW t \in Track, RowAction(t) \/ AssignFromVanilla(t) PROVE PointedIsSaved'
  BY <1>1, <1>2, <1>4, SaveWritesPointed
  DEF RowAction, Retry, SetGainDb, OpenPickerFor, OpenVanillaModal, Unassign, Undo,
      AssignFromVanilla, files
<1>5. ASSUME NEW s \in UserSource, PollPicker(s) \/ SongRemoved(s) PROVE PointedIsSaved'
  BY <1>1, <1>2, <1>5 DEF PollPicker, SongRemoved
<1>6. CASE UnassignAll \/ Update
  BY <1>6, SaveWritesPointed DEF UnassignAll, Undo, Update
<1>7. CASE CancelPicker \/ CancelVanillaModal \/ Convert \/ ConvertFails \/ UNCHANGED vars
  BY <1>1, <1>7 DEF CancelPicker, CancelVanillaModal, Convert, ConvertFails, files, vars
<1> QED BY <1>3, <1>4, <1>5, <1>6, <1>7 DEF Next

\* No reachable state has an entry patched for a row that the ini does not know.
THEOREM PointedAreSaved == Spec => []PointedIsSaved
<1>1. Init => PointedIsSaved
  <2>1. \A t \in Track : t \in Index BY DEF Track
  <2> QED BY <2>1 DEF Init, PointedIsSaved
<1>2. TypeOK /\ TypeOK' /\ PointerInv' /\ PointedIsSaved /\ [Next]_vars => PointedIsSaved'
  BY PointedStep
<1> QED BY <1>1, <1>2, Invariance, PTL DEF Spec

-----------------------------------------------------------------------------
(* The songs in the making *)

Waits(pending, t, song) ==
  \E k \in 1 .. Len(pending) : pending[k].track = t /\ SongOf(pending[k]) = song
Runs(flight, t, song) ==
  flight.phase = "running" /\ flight.job.track = t /\ SongOf(flight.job) = song

LEMMA MakingIs ==
  ASSUME NEW t
  PROVE  /\ \A song : song \in Making(t) <=> Waits(m_pending, t, song) \/ Runs(m_inFlight, t, song)
         /\ \A song : song \in Making(t)' <=> Waits(m_pending', t, song) \/ Runs(m_inFlight', t, song)
BY DEF Making, JobsFor, Waits, Runs

\* A queued job adds its song, and the others are made as before.
LEMMA AppendWaits ==
  ASSUME NEW pending \in Seq(Job), NEW job \in Job, NEW t, NEW song
  PROVE  Waits(Append(pending, job), t, song)
           <=> Waits(pending, t, song) \/ (job.track = t /\ SongOf(job) = song)
<1> DEFINE longer == Append(pending, job)
<1>1. /\ Len(longer) = Len(pending) + 1 /\ longer[Len(pending) + 1] = job
      /\ \A i \in 1 .. Len(pending) : longer[i] = pending[i]
      /\ Len(pending) \in Nat
  BY AppendProperties, LenProperties
<1> HIDE DEF longer
<1>2. \A i \in 1 .. Len(longer) : i = Len(pending) + 1 \/ i \in 1 .. Len(pending) BY <1>1
<1>3. Len(pending) + 1 \in 1 .. Len(longer) /\ \A i \in 1 .. Len(pending) : i \in 1 .. Len(longer)
  BY <1>1
<1> QED BY <1>1, <1>2, <1>3 DEF Waits, longer

\* Starting a job makes no difference to what is made.
LEMMA StartKeepsMaking ==
  ASSUME NEW pending \in Seq(Job), NEW flight \in Flight, StartNextJob(pending, flight),
         NEW t, NEW song
  PROVE  Waits(m_pending', t, song) \/ Runs(m_inFlight', t, song)
           <=> Waits(pending, t, song) \/ Runs(flight, t, song)
<1>1. CASE flight # Idle \/ pending = <<>>
  BY <1>1 DEF StartNextJob
<1>2. CASE flight = Idle /\ pending # <<>>
  <2>1. /\ m_pending' = Tail(pending)
        /\ m_inFlight' = [job |-> pending[1], phase |-> "running"]
    BY <1>2 DEF StartNextJob
  <2>2. /\ Len(Tail(pending)) = Len(pending) - 1
        /\ \A i \in 1 .. Len(Tail(pending)) : Tail(pending)[i] = pending[i + 1]
        /\ Len(pending) \in Nat
    BY <1>2, HeadTailProperties, LenProperties
  <2>3. Len(pending) > 0 BY <1>2, <2>2, EmptySeq
  <2> DEFINE rest == Tail(pending)
  <2> HIDE DEF rest
  <2>4. \A i \in 1 .. Len(pending) : i = 1 \/ (i - 1 \in 1 .. Len(rest) /\ (i - 1) + 1 = i)
    BY <2>2 DEF rest
  <2>5. \A i \in 1 .. Len(rest) : i + 1 \in 1 .. Len(pending) /\ rest[i] = pending[i + 1]
    BY <2>2 DEF rest
  <2>6. Waits(pending, t, song) <=> Waits(rest, t, song)
                                      \/ (pending[1].track = t /\ SongOf(pending[1]) = song)
    <3>1. ASSUME NEW i \in 1 .. Len(pending), pending[i].track = t, SongOf(pending[i]) = song, i # 1
          PROVE  Waits(rest, t, song)
      <4>1. i - 1 \in 1 .. Len(rest) /\ rest[i - 1] = pending[i] BY <2>4, <2>5, <3>1
      <4> QED BY <3>1, <4>1 DEF Waits
    <3>2. Waits(rest, t, song) => Waits(pending, t, song) BY <2>5 DEF Waits
    <3>3. 1 \in 1 .. Len(pending) BY <2>2, <2>3
    <3> QED BY <3>1, <3>2, <3>3 DEF Waits
  <2>7. Runs(m_inFlight', t, song) <=> pending[1].track = t /\ SongOf(pending[1]) = song
    BY <2>1 DEF Runs
  <2>8. ~Runs(flight, t, song) BY <1>2 DEF Runs, Idle
  <2> QED BY <2>1, <2>6, <2>7, <2>8 DEF rest
<1> QED BY <1>1, <1>2

\* An undo leaves no job of its tracks, and those of the other tracks.
LEMMA CancelDrops ==
  ASSUME NEW tracks, m_pending \in Seq(Job), CancelQueued(tracks)
  PROVE  /\ \A t \in tracks : \A song : ~Waits(m_pending', t, song)
         /\ \A t : t \notin tracks =>
              \A song : Waits(m_pending', t, song) <=> Waits(m_pending, t, song)
<1> DEFINE kept == {k \in 1 .. Len(m_pending) : m_pending[k].track \notin tracks}
<1>1. PICK f \in [1 .. Cardinality(kept) -> kept] :
        m_pending' = [k \in DOMAIN f |-> m_pending[f[k]]]
  BY DEF CancelQueued
<1>2. \A k \in DOMAIN m_pending' : m_pending'[k].track \notin tracks
  BY <1>1
<1>3. m_pending' \in Seq(Job) BY CancelQueuedType
<1>4. \A t \in tracks : \A song : ~Waits(m_pending', t, song)
  <2>1. \A k \in 1 .. Len(m_pending') : k \in DOMAIN m_pending' BY <1>3
  <2> QED BY <1>2, <2>1 DEF Waits
<1>5. PICK g : Shortened(m_pending', m_pending, tracks, g)
  BY CancelQueuedKeeps
<1>6. ASSUME NEW t, t \notin tracks, NEW song
      PROVE  Waits(m_pending', t, song) <=> Waits(m_pending, t, song)
  <2>1. ASSUME NEW k \in 1 .. Len(m_pending), m_pending[k].track = t, SongOf(m_pending[k]) = song
        PROVE  Waits(m_pending', t, song)
    <3>1. PICK i \in 1 .. Len(m_pending') : g[i] = k BY <1>5, <1>6, <2>1 DEF Shortened
    <3>2. m_pending'[i] = m_pending[k] BY <1>5, <3>1 DEF Shortened
    <3> QED BY <2>1, <3>2 DEF Waits
  <2>2. ASSUME NEW i \in 1 .. Len(m_pending'), m_pending'[i].track = t, SongOf(m_pending'[i]) = song
        PROVE  Waits(m_pending, t, song)
    <3>1. g[i] \in 1 .. Len(m_pending) /\ m_pending'[i] = m_pending[g[i]]
      BY <1>5 DEF Shortened
    <3> QED BY <2>2, <3>1 DEF Waits
  <2> QED BY <2>1, <2>2 DEF Waits
<1> QED BY <1>4, <1>6

-----------------------------------------------------------------------------
(* Every step of the manager on the shelf *)

LEMMA ShelfUnmoved ==
  ASSUME UNCHANGED <<pointers, m_assignments, m_pending, m_inFlight, disk>>
  PROVE  UNCHANGED <<AssignedTracks, AllMaking, disk, PatchedTracks, StuckTracks>>
<1>1. UNCHANGED AllMaking BY DEF AllMaking, Making, JobsFor
<1> QED BY <1>1 DEF AssignedTracks, Assigned, PatchedTracks, StuckTracks, pointers

\* What is said of a row and its entry says it of the sets of tracks.
LEMMA SetsOfTracks ==
  /\ \A t \in Track : t \in AssignedTracks <=> m_assignments[t].state # "Original"
  /\ \A t \in Track : t \in AssignedTracks' <=> m_assignments'[t].state # "Original"
  /\ \A t \in Track : t \in PatchedTracks <=> t \notin stuck /\ table[t] # None
  /\ \A t \in Track : t \in PatchedTracks' <=> t \notin stuck' /\ table'[t] # None
  /\ \A t \in Track : t \in StuckTracks <=> t \in stuck
  /\ \A t \in Track : t \in StuckTracks' <=> t \in stuck'
  /\ AssignedTracks \subseteq Track /\ AssignedTracks' \subseteq Track
  /\ PatchedTracks \subseteq Track /\ PatchedTracks' \subseteq Track
  /\ StuckTracks \subseteq Track /\ StuckTracks' \subseteq Track
BY DEF AssignedTracks, Assigned, PatchedTracks, StuckTracks

\* The switches of the tracks that are restored are thrown: off, or jammed.
LEMMA RestoringThrows ==
  ASSUME TypeOK, NEW tracks \in SUBSET Track, RestorePointer(tracks)
  PROVE  PatchedTracks' = PatchedTracks \ tracks /\ Shelf!Thrown(tracks)
<1>1. \A u \in Track : u \in Index /\ Primary[u] = u BY DEF Track
<1>2. \A u \in tracks : u \notin stuck' => table'[u] = None BY <1>1, RestoreEffect
<1>3. \A u \in Track \ tracks : table'[u] = table[u] /\ (u \in stuck' <=> u \in stuck)
  BY <1>1, RestoreEffect
<1>4. PatchedTracks' = PatchedTracks \ tracks BY <1>2, <1>3, SetsOfTracks
<1>5. StuckTracks' = (StuckTracks \ tracks) \cup (StuckTracks' \cap tracks)
  BY <1>3, SetsOfTracks
<1> QED BY <1>4, <1>5 DEF Shelf!Thrown

LEMMA QueueingAsks ==
  ASSUME TypeOK, UNCHANGED disk, NEW t \in Track, NEW s \in Source, NEW gain \in Gain,
         QueueConversion(t, s, gain)
  PROVE  Shelf!Ask(t, [source |-> s, gain |-> gain])
<1> DEFINE song == [source |-> s, gain |-> gain]
           job == [track |-> t, source |-> s, gain |-> gain]
<1>1. AssignedTracks' = AssignedTracks \cup {t}
  <2>1. /\ \A u \in Track \ {t} : m_assignments'[u] = m_assignments[u]
        /\ m_assignments'[t].state = "Converting"
    BY DEF QueueConversion, TypeOK
  <2> QED BY <2>1, SetsOfTracks
<1>2. PatchedTracks' = PatchedTracks \ {t} /\ Shelf!Thrown({t})
  BY RestoringThrows DEF QueueConversion
<1>3. \A u, x : x \in Making(u)' <=> x \in Making(u) \/ (u = t /\ x = song)
  <2>1. SUFFICES ASSUME NEW u, NEW x
                 PROVE  x \in Making(u)' <=> x \in Making(u) \/ (u = t /\ x = song)
    OBVIOUS
  <2>2. job \in Job /\ job.track = t /\ SongOf(job) = song BY DEF Job, SongOf
  <2>3. StartNextJob(Append(m_pending, job), m_inFlight) BY DEF QueueConversion
  <2> HIDE DEF job, song
  <2>4. Append(m_pending, job) \in Seq(Job) BY <2>2, LineFacts
  <2>5. Waits(m_pending', u, x) \/ Runs(m_inFlight', u, x)
          <=> Waits(Append(m_pending, job), u, x) \/ Runs(m_inFlight, u, x)
    BY <2>3, <2>4, LineFacts, StartKeepsMaking
  <2>6. Waits(Append(m_pending, job), u, x) <=> Waits(m_pending, u, x) \/ (t = u /\ song = x)
    BY <2>2, LineFacts, AppendWaits
  <2> QED BY <2>5, <2>6, MakingIs
<1>4. AllMaking' = [AllMaking EXCEPT ![t] = @ \cup {song}]
  <2> HIDE DEF song
  <2>1. \A u \in Track : Making(u)' = Making(u) \cup (IF u = t THEN {song} ELSE {}) BY <1>3
  <2> QED BY <2>1 DEF AllMaking
<1> QED BY <1>1, <1>2, <1>4 DEF Shelf!Ask

LEMMA RejectingRefuses ==
  ASSUME TypeOK, UNCHANGED disk, NEW t \in Track, NEW s, RejectAssign(t, s)
  PROVE  Shelf!Refuse(t)
<1>1. /\ \A u \in Track \ {t} : m_assignments'[u] = m_assignments[u]
      /\ m_assignments'[t].state = "Failed"
      /\ UNCHANGED <<pointers, m_pending, m_inFlight>>
  BY DEF RejectAssign, jobs, Blank, TypeOK
<1>2. AssignedTracks' = AssignedTracks \cup {t} BY <1>1, SetsOfTracks
<1>3. UNCHANGED <<AllMaking, PatchedTracks, StuckTracks>>
  BY <1>1 DEF AllMaking, Making, JobsFor, PatchedTracks, StuckTracks, pointers
<1> QED BY <1>2, <1>3 DEF Shelf!Refuse

LEMMA AssignOnShelf ==
  ASSUME TypeOK, NEW t \in Track, NEW s \in Source, NEW gain \in Gain, Assign(t, s, gain)
  PROVE  Shelf!Next
<1>1. CASE QueueConversion(t, s, gain)
  <2>1. Shelf!Ask(t, [source |-> s, gain |-> gain]) BY <1>1, QueueingAsks DEF Assign
  <2>2. [source |-> s, gain |-> gain] \in Song BY DEF Song
  <2> QED BY <2>1, <2>2 DEF Shelf!Next
<1>2. CASE RejectAssign(t, s)
  <2>1. Shelf!Refuse(t) BY <1>2, RejectingRefuses DEF Assign
  <2> QED BY <2>1 DEF Shelf!Next
<1> QED BY <1>1, <1>2 DEF Assign

\* Of the tracks that are undone only the job in flight is left, and the others keep theirs.
LEMMA UndoOnShelf ==
  ASSUME TypeOK, NEW tracks \in SUBSET Track, Undo(tracks)
  PROVE  Shelf!Next
<1>1. AssignedTracks' = AssignedTracks \ tracks
  <2>1. /\ \A u \in Track \ tracks : m_assignments'[u] = m_assignments[u]
        /\ \A u \in tracks : m_assignments'[u].state = "Original"
    BY DEF Undo, Blank
  <2> QED BY <2>1, SetsOfTracks
<1>2. PatchedTracks' = PatchedTracks \ tracks /\ Shelf!Thrown(tracks)
  BY RestoringThrows DEF Undo
<1>3. /\ \A u \in tracks : \A x : ~Waits(m_pending', u, x)
      /\ \A u : u \notin tracks => \A x : Waits(m_pending', u, x) <=> Waits(m_pending, u, x)
      /\ m_inFlight' = m_inFlight
  BY LineFacts, CancelDrops DEF Undo
<1>4. ASSUME NEW u \in tracks
      PROVE  \E song \in Song : AllMaking'[u] \subseteq AllMaking[u] \cap {song}
  <2>1. \A x : x \in Making(u)' => x \in Making(u) /\ Runs(m_inFlight, u, x)
    BY <1>3, MakingIs
  <2>2. CASE m_inFlight.phase = "running"
    <3>1. SongOf(m_inFlight.job) \in Song BY <2>2 DEF SongOf, Song, TypeOK, Idle, Job
    <3>2. \A x : x \in Making(u)' => x = SongOf(m_inFlight.job) BY <2>1 DEF Runs
    <3> QED BY <2>1, <3>1, <3>2 DEF AllMaking
  <2>3. CASE m_inFlight.phase # "running"
    <3>1. [source |-> u, gain |-> 0] \in Song BY ValueAssumption DEF Song, Source
    <3>2. AllMaking'[u] = {} BY <2>1, <2>3 DEF AllMaking, Runs
    <3> QED BY <3>1, <3>2
  <2> QED BY <2>2, <2>3
<1>5. AllMaking' = [u \in Track |-> IF u \in tracks THEN AllMaking'[u] ELSE AllMaking[u]]
  <2>1. \A u \in Track \ tracks : Making(u)' = Making(u) BY <1>3, MakingIs
  <2> QED BY <2>1 DEF AllMaking
<1>6. \E gone \in SUBSET tracks : disk' = [t \in Track |-> IF t \in gone THEN None ELSE disk[t]]
  <2> DEFINE gone == {t \in tracks : m_assignments[t].hasPac}
  <2>1. disk' = [t \in Track |-> IF t \in gone THEN None ELSE disk[t]] BY DEF Undo
  <2> QED BY <2>1
<1>7. Shelf!TakeBack(tracks)
  BY <1>1, <1>2, <1>4, <1>5, <1>6 DEF Shelf!TakeBack
<1> QED BY <1>7 DEF Shelf!Next

\* A song that is ready is on the shelf; it is still being made only if it was asked for again.
LEMMA ConvertOnShelf ==
  ASSUME TypeOK, Convert \/ ConvertFails
  PROVE  Shelf!Next
<1>1. PICK t \in Track, song \in Song : t = m_inFlight.job.track /\ song = SongOf(m_inFlight.job)
  BY DEF Convert, ConvertFails, Idle, TypeOK, Job, Song, SongOf
<1>2. /\ m_inFlight.phase = "running" /\ m_inFlight'.phase # "running"
      /\ UNCHANGED <<m_assignments, pointers, m_pending>>
  <2>1. m_inFlight \in [job : Job, phase : {"running", "ok", "failed"}]
    BY DEF Convert, ConvertFails, Idle, TypeOK
  <2> QED BY <2>1 DEF Convert, ConvertFails
<1>3. \A u, x : /\ x \in Making(u) <=> Waits(m_pending, u, x) \/ (u = t /\ x = song)
                /\ x \in Making(u)' <=> Waits(m_pending, u, x)
  <2>1. \A u, x : Runs(m_inFlight, u, x) <=> u = t /\ x = song BY <1>1, <1>2 DEF Runs
  <2>2. \A u, x : ~Runs(m_inFlight', u, x) BY <1>2 DEF Runs
  <2>3. \A u, x : x \in Making(u) <=> Waits(m_pending, u, x) \/ (u = t /\ x = song)
    BY <2>1, MakingIs
  <2>4. \A u, x : x \in Making(u)' <=> Waits(m_pending', u, x) BY <2>2, MakingIs
  <2> QED BY <1>2, <2>3, <2>4
<1>4. song \in Making(t) /\ \A u, x : x \in Making(u)' => x \in Making(u)
  BY <1>3
<1>5. \A u, x : x \in Making(u) /\ x \notin Making(u)' => u = t /\ x = song
  BY <1>3
<1>6. AllMaking' \in {AllMaking, [AllMaking EXCEPT ![t] = @ \ {song}]}
  <2>1. ASSUME NEW u \in Track, u # t PROVE Making(u)' = Making(u)
    <3>1. \A x : x \in Making(u)' <=> x \in Making(u) BY <1>4, <1>5, <2>1, Zenon
    <3> QED BY <3>1
  <2>2. CASE song \in Making(t)'
    <3>1. \A u, x : x \in Making(u)' <=> x \in Making(u) BY <1>4, <1>5, <2>2, Zenon
    <3>2. \A u \in Track : Making(u)' = Making(u) BY <3>1
    <3> QED BY <3>2 DEF AllMaking
  <2>3. CASE song \notin Making(t)'
    <3>1. Making(t)' = Making(t) \ {song} BY <1>4, <1>5, <2>3
    <3>2. AllMaking' = [AllMaking EXCEPT ![t] = @ \ {song}] BY <1>1, <2>1, <3>1 DEF AllMaking
    <3> QED BY <3>2
  <2> QED BY <2>2, <2>3
<1>7. Shelf!Made(t, song)
  <2>1. UNCHANGED <<AssignedTracks, PatchedTracks, StuckTracks>>
    BY <1>2 DEF AssignedTracks, Assigned, PatchedTracks, StuckTracks, pointers
  <2>2. song \in AllMaking[t] BY <1>1, <1>4 DEF AllMaking
  <2> QED BY <1>6, <2>1, <2>2 DEF Shelf!Made
<1>8. CASE Convert
  <2>1. disk' = [disk EXCEPT ![t] = song] BY <1>1, <1>8 DEF Convert, SongOf
  <2>2. Shelf!Convert(t, song) BY <1>7, <2>1 DEF Shelf!Convert
  <2> QED BY <1>1, <2>2 DEF Shelf!Next
<1>9. CASE ConvertFails
  <2>1. Shelf!Fail(t, song) BY <1>7, <1>9 DEF Shelf!Fail, ConvertFails, files
  <2> QED BY <1>1, <2>1 DEF Shelf!Next
<1> QED BY <1>8, <1>9

\* A result switches its track on or off, is thrown away, or leaves all as it is.
LEMMA UpdateOnShelf ==
  ASSUME TypeOK, PointerInv, Update
  PROVE  [Shelf!Next]_<<AssignedTracks, AllMaking, disk, PatchedTracks, StuckTracks>>
<1> DEFINE t == m_inFlight.job.track
<1>1. /\ t \in Track
      /\ \A u \in Track \ {t} : m_assignments'[u] = m_assignments[u]
      /\ m_assignments'[t].state = "Original" <=> m_assignments[t].state = "Original"
  BY UpdateEffect
<1>2. IF Assigned(t) THEN ApplyResult(t) ELSE DropStray(t)
  BY DEF Update
<1>3. UNCHANGED AllMaking
  <2>1. StartNextJob(m_pending, Idle) /\ m_inFlight.phase # "running" BY DEF Update, IsReady
  <2>2. Idle \in Flight /\ Idle.phase # "running" BY DEF Flight, Idle
  <2>3. \A u, x : Waits(m_pending', u, x) \/ Runs(m_inFlight', u, x)
                    <=> Waits(m_pending, u, x) \/ Runs(Idle, u, x)
    BY <2>1, <2>2, LineFacts, StartKeepsMaking
  <2>4. \A u, x : x \in Making(u)' <=> x \in Making(u) BY <2>1, <2>2, <2>3, MakingIs DEF Runs
  <2>5. \A u : Making(u)' = Making(u) BY <2>4
  <2> QED BY <2>5 DEF AllMaking
<1> HIDE DEF t
<1>4. UNCHANGED AssignedTracks BY <1>1, SetsOfTracks
<1>5. \A u \in Track : u \in Index /\ Primary[u] = u BY DEF Track
<1>6. CASE Assigned(t) /\ m_inFlight.phase = "ok" /\ LooksLikeUsablePac(m_assignments[t], t)
  <2>1. RedirectPointer(t) /\ disk' = disk
    BY <1>2, <1>6 DEF ApplyResult, ApplyPointer
  <2>2. t # None BY <1>1, ValueAssumption DEF Track
  <2>3. /\ t \in stuck' => table'[t] = None
        /\ t \notin stuck' => table'[t] = t
    BY <1>1, <1>5, <2>1, RedirectEffect DEF PointerInv, OwnFile
  <2>4. \A u \in Track \ {t} : table'[u] = table[u] /\ (u \in stuck' <=> u \in stuck)
    BY <1>1, <1>5, <2>1, RedirectEffect
  <2>5. t \in AssignedTracks /\ disk[t] # None
    BY <1>1, <1>6 DEF LooksLikeUsablePac, AssignedTracks
  <2>6. CASE t \notin stuck'
    <3>1. PatchedTracks' = PatchedTracks \cup {t} /\ StuckTracks' = StuckTracks \ {t}
      BY <1>1, <2>2, <2>3, <2>4, <2>6, SetsOfTracks
    <3>2. Shelf!SwitchOn(t) BY <1>3, <1>4, <2>1, <2>5, <3>1 DEF Shelf!SwitchOn
    <3> QED BY <1>1, <3>2 DEF Shelf!Next
  <2>7. CASE t \in stuck'
    <3>1. PatchedTracks' = PatchedTracks \ {t} /\ StuckTracks' = (StuckTracks \ {t}) \cup {t}
      BY <1>1, <2>3, <2>4, <2>7, SetsOfTracks
    <3>2. Shelf!Thrown({t}) BY <3>1 DEF Shelf!Thrown
    <3>3. Shelf!SwitchOff(t) BY <1>3, <1>4, <2>1, <3>1, <3>2 DEF Shelf!SwitchOff
    <3> QED BY <1>1, <3>3 DEF Shelf!Next
  <2> QED BY <2>6, <2>7
<1>7. CASE Assigned(t) /\ m_inFlight.phase = "ok" /\ ~LooksLikeUsablePac(m_assignments[t], t)
  <2>1. RestorePointer({t}) /\ disk' = disk
    BY <1>2, <1>7 DEF ApplyResult, ApplyPointer
  <2>2. PatchedTracks' = PatchedTracks \ {t} /\ Shelf!Thrown({t})
    BY <1>1, <2>1, RestoringThrows
  <2>3. Shelf!SwitchOff(t) BY <1>3, <1>4, <2>1, <2>2 DEF Shelf!SwitchOff
  <2> QED BY <1>1, <2>3 DEF Shelf!Next
<1>8. CASE UNCHANGED <<pointers, disk>>
  <2>1. UNCHANGED <<PatchedTracks, StuckTracks>>
    BY <1>8 DEF PatchedTracks, StuckTracks, pointers
  <2> QED BY <1>3, <1>4, <1>8, <2>1
<1>9. CASE Assigned(t) /\ m_inFlight.phase # "ok"
  BY <1>2, <1>8, <1>9 DEF ApplyResult
<1>10. CASE ~Assigned(t)
  <2>1. UNCHANGED pointers BY <1>2, <1>10 DEF DropStray
  <2>2. CASE m_inFlight.phase = "ok"
    <3>1. disk' = [disk EXCEPT ![t] = None] BY <1>2, <1>10, <2>2 DEF DropStray
    <3>2. t \notin AssignedTracks BY <1>10 DEF AssignedTracks
    <3>3. UNCHANGED <<PatchedTracks, StuckTracks>>
      BY <2>1 DEF PatchedTracks, StuckTracks, pointers
    <3>4. Shelf!Discard(t) BY <1>3, <1>4, <3>1, <3>2, <3>3 DEF Shelf!Discard
    <3> QED BY <1>1, <3>4 DEF Shelf!Next
  <2>3. CASE m_inFlight.phase # "ok" BY <1>2, <1>8, <1>10, <2>1, <2>3 DEF DropStray
  <2> QED BY <2>2, <2>3
<1> QED BY <1>6, <1>7, <1>9, <1>10

\* Three sets of tracks told apart member by member: those with a row, on, and jammed.
LEMMA FromMembers ==
  ASSUME NEW T, NEW A \in SUBSET T, NEW P \in SUBSET T, NEW S \in SUBSET T, NEW kept,
         \A t \in T : /\ t \in S => t \in A /\ kept[t] # None
                      /\ t \in P <=> t \in A /\ t \notin S /\ kept[t] # None
  PROVE  /\ S \in SUBSET {t \in A : kept[t] # None}
         /\ P = {t \in A \ S : kept[t] # None}
OBVIOUS

\* The ini knows every patched track and none that was undone, so a start of the game
\* brings nothing back and loses nothing but what has lost its file.
LEMMA RestartOnShelf ==
  ASSUME TypeOK, PointerInv, SettingsSurviveRestart, PointedIsSaved, Restart
  PROVE  Shelf!Next
<1>1. PICK gone \in SUBSET Track :
        LET kept == [t \in Track |-> IF t \in gone THEN None ELSE disk[t]]
        IN  disk' = kept /\ Initialize(kept) /\ UNCHANGED <<ini, songs>>
  BY DEF Restart
<1>2. /\ disk' = [t \in Track |-> IF t \in gone THEN None ELSE disk[t]]
      /\ Initialize(disk')
  BY <1>1
<1> DEFINE saved == {i \in Index : ini[Primary[i]] # None /\ disk'[Primary[i]] # None}
<1>2a. PICK refused \in SUBSET (saved \cap Refusable) :
        /\ m_assignments' = [t \in Track |-> Restored(ini[t], disk'[t], t \in refused)]
        /\ table' = [i \in Index |-> IF i \in saved \ refused THEN Primary[i] ELSE None]
        /\ stuck' = refused
  BY <1>2 DEF Initialize
<1>3. \A t \in Track : m_assignments'[t].state # "Original" <=> ini[t] # None
  BY <1>2a DEF Restored, Blank
<1>4. AssignedTracks' \in SUBSET AssignedTracks
  BY <1>3, SetsOfTracks DEF SettingsSurviveRestart
<1>5. PatchedTracks \subseteq AssignedTracks'
  BY <1>3, SetsOfTracks DEF PointedIsSaved
<1>6. /\ StuckTracks' \in SUBSET {t \in AssignedTracks' : disk'[t] # None}
      /\ PatchedTracks' = {t \in AssignedTracks' \ StuckTracks' : disk'[t] # None}
  <2>1. \A t \in Track : t \in Index /\ Primary[t] = t /\ t # None
    BY ValueAssumption DEF Track
  <2>2. \A t \in Track : t \in saved <=> ini[t] # None /\ disk'[t] # None BY <2>1
  <2> HIDE DEF saved
  <2>3. \A t \in Track : /\ t \in stuck' => t \in saved
                         /\ table'[t] # None <=> t \in saved /\ t \notin stuck'
    BY <1>2a, <2>1
  <2>4. \A t \in Track : /\ t \in StuckTracks' => t \in AssignedTracks' /\ disk'[t] # None
                         /\ t \in PatchedTracks' <=>
                               t \in AssignedTracks' /\ t \notin StuckTracks' /\ disk'[t] # None
    BY <1>3, <2>2, <2>3, SetsOfTracks
  <2>5. /\ StuckTracks' \in SUBSET Track /\ PatchedTracks' \in SUBSET Track
        /\ AssignedTracks' \in SUBSET Track
    BY SetsOfTracks
  <2> QED BY <2>4, <2>5, FromMembers
<1>7. AllMaking' = [t \in Track |-> {}]
  <2>1. m_pending' = <<>> /\ m_inFlight' = Idle BY <1>2 DEF Initialize
  <2>2. Len(m_pending') = 0 BY <2>1
  <2>3. \A t, song : ~Waits(m_pending', t, song) BY <2>2 DEF Waits
  <2>4. \A t, song : ~Runs(m_inFlight', t, song) BY <2>1 DEF Runs, Idle
  <2>5. \A t : Making(t)' = {} BY <2>3, <2>4, MakingIs
  <2> QED BY <2>5 DEF AllMaking
<1>8. Shelf!Restart BY <1>2, <1>4, <1>5, <1>6, <1>7 DEF Shelf!Restart
<1> QED BY <1>8 DEF Shelf!Next

-----------------------------------------------------------------------------
LEMMA ShelfStep ==
  ASSUME TypeOK, PointerInv, QueueInv, PointedIsSaved, [Next]_vars
  PROVE  [Shelf!Next]_<<AssignedTracks, AllMaking, disk, PatchedTracks, StuckTracks>>
<1>1. ASSUME NEW t \in Track, Retry(t) PROVE Shelf!Next
  <2>1. m_assignments[t].source \in Source /\ m_assignments[t].gain \in Gain
    BY <1>1 DEF Retry, PointerInv, AssignedHasSource, Assigned, TypeOK, Assignment
  <2> QED BY <1>1, <2>1, AssignOnShelf DEF Retry
<1>2. ASSUME NEW t \in Track, NEW gain \in Gain, SetGainDb(t, gain) PROVE Shelf!Next
  <2>1. m_assignments[t].source \in Source
    BY <1>2 DEF SetGainDb, PointerInv, AssignedHasSource, Assigned
  <2> QED BY <1>2, <2>1, AssignOnShelf DEF SetGainDb
<1>3. ASSUME NEW t \in Track, AssignFromVanilla(t) PROVE Shelf!Next
  <2>1. vanillaFor \in Track /\ t \in Source BY <1>3 DEF AssignFromVanilla, Source, TypeOK
  <2> QED BY <1>3, <2>1, CarriedGainType, AssignOnShelf DEF AssignFromVanilla
<1>4. ASSUME NEW s \in UserSource, PollPicker(s) PROVE Shelf!Next
  <2>1. picker \in Track /\ s \in Source BY <1>4 DEF PollPicker, Source, TypeOK
  <2> QED BY <1>4, <2>1, CarriedGainType, AssignOnShelf DEF PollPicker
<1>5. ASSUME (\E t \in Track : Unassign(t)) \/ UnassignAll PROVE Shelf!Next
  <2>1. PICK tracks \in SUBSET Track : Undo(tracks) BY <1>5 DEF Unassign, UnassignAll
  <2> QED BY <2>1, UndoOnShelf
<1>6. CASE Update BY <1>6, UpdateOnShelf
<1>7. CASE Convert \/ ConvertFails BY <1>7, ConvertOnShelf
<1>8. CASE Restart BY <1>8, RestartOnShelf DEF QueueInv
<1>9. ASSUME NEW t \in Track, OpenPickerFor(t) \/ OpenVanillaModal(t)
      PROVE  UNCHANGED <<AssignedTracks, AllMaking, disk, PatchedTracks, StuckTracks>>
  BY <1>9, ShelfUnmoved DEF OpenPickerFor, OpenVanillaModal, jobs, files
<1>10. ASSUME NEW s \in UserSource, SongRemoved(s)
       PROVE  UNCHANGED <<AssignedTracks, AllMaking, disk, PatchedTracks, StuckTracks>>
  BY <1>10, ShelfUnmoved DEF SongRemoved, jobs
<1>11. CASE CancelPicker \/ CancelVanillaModal \/ UNCHANGED vars
  BY <1>11, ShelfUnmoved DEF CancelPicker, CancelVanillaModal, jobs, files, vars
<1> QED
  BY <1>1, <1>2, <1>3, <1>4, <1>5, <1>6, <1>7, <1>8, <1>9, <1>10, <1>11 DEF Next, RowAction

\* With any tracks, duplicated table entries, songs and queues, the player gets what the shelf
\* promises: a track is switched to a song only when it is there and still wanted, is given
\* back its own music at once, is untouched by what is done to another, and is after any
\* restart as it was, unless a refused write jams its switch.
THEOREM ManagerImplementsShelf == Spec => ImplementsShelf
<1>1. Init => Shelf!Init
  <2> SUFFICES ASSUME Init PROVE Shelf!Init
    OBVIOUS
  <2>1. AssignedTracks = {} /\ PatchedTracks = {} /\ StuckTracks = {}
    <3>1. stuck = {} /\ \A t \in Track : m_assignments[t].state = "Original" /\ table[t] = None
      BY DEF Init, Blank, Track
    <3> QED BY <3>1, SetsOfTracks
  <2>2. AllMaking = [t \in Track |-> {}]
    <3>1. Len(m_pending) = 0 /\ m_inFlight.phase # "running" BY DEF Init, Idle
    <3>2. \A t, song : song \notin Making(t) BY <3>1, MakingIs DEF Waits, Runs
    <3>3. \A t : Making(t) = {} BY <3>2
    <3> QED BY <3>3 DEF AllMaking
  <2> QED BY <2>1, <2>2 DEF Init, Shelf!Init
<1>2. TypeOK /\ PointerInv /\ QueueInv /\ PointedIsSaved /\ [Next]_vars
        => [Shelf!Next]_Shelf!vars
  BY ShelfStep DEF Shelf!vars
<1> QED
  BY <1>1, <1>2, Invariance, QueueInvariance, PointedAreSaved, PTL
  DEF Spec, ImplementsShelf, Shelf!Spec
=============================================================================
