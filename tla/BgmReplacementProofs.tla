------------------------ MODULE BgmReplacementProofs ------------------------
(***************************************************************************)
(* That a pointer never names a file that is not on disk, for any table,   *)
(* any tracks, any number of queued conversions and any refused writes     *)
(* but those of the shipped name.                                          *)
(***************************************************************************)
EXTENDS BgmReplacement, FiniteSetTheorems, TLAPS

\* Every entry of the map remembers a source, which Retry and SetGainDb rely on.
AssignedHasSource ==
  \A t \in Track : Assigned(t) => m_assignments[t].source \in Source

\* Whatever was refused, an entry is only ever redirected to the file of its own track, so
\* removing the file of another track cannot hurt it.
OwnFile == \A i \in Index : table[i] \in {None, Primary[i]}

PointerInv ==
  /\ AssignedHasSource
  /\ OwnFile
  /\ PointerSafe
  /\ RowMatchesPointer

\* StartNextJob, given a queue of jobs, leaves a queue of jobs and at most one in flight.
LEMMA StartNextJobType ==
  ASSUME NEW pending \in Seq(Job), NEW flight,
         \/ flight = Idle
         \/ flight \in [job : Job, phase : {"running", "ok", "failed"}],
         StartNextJob(pending, flight)
  PROVE  /\ m_pending' \in Seq(Job)
         /\ \/ m_inFlight' = Idle
            \/ m_inFlight' \in [job : Job, phase : {"running", "ok", "failed"}]
<1>1. CASE flight # Idle \/ pending = <<>>
  BY <1>1 DEF StartNextJob
<1>2. CASE ~(flight # Idle \/ pending = <<>>)
  <2>1. Head(pending) \in Job /\ Tail(pending) \in Seq(Job)
    BY <1>2
  <2> QED BY <1>2, <2>1 DEF StartNextJob
<1> QED BY <1>1, <1>2

\* The lines written from a well-typed map are well typed.
LEMMA SaveType ==
  ASSUME m_assignments' \in [Track -> Assignment], Save
  PROVE  ini' \in [Track -> Song \cup {None}]
<1>1. ASSUME NEW t \in Track, m_assignments'[t].source # None
      PROVE  [source |-> m_assignments'[t].source, gain |-> m_assignments'[t].gain] \in Song
  BY <1>1 DEF Assignment, Song
<1> QED BY <1>1 DEF Save, SavedLines

\* CancelQueued leaves a queue of jobs.
LEMMA CancelQueuedType ==
  ASSUME NEW tracks, m_pending \in Seq(Job), CancelQueued(tracks)
  PROVE  m_pending' \in Seq(Job)
<1> DEFINE kept == {k \in 1 .. Len(m_pending) : m_pending[k].track \notin tracks}
<1>1. PICK f \in [1 .. Cardinality(kept) -> kept] :
             m_pending' = [k \in DOMAIN f |-> m_pending[f[k]]]
  BY DEF CancelQueued
<1>2. Cardinality(kept) \in Nat
  <2>1. IsFiniteSet(1 .. Len(m_pending))
    BY FS_Interval
  <2>2. IsFiniteSet(kept)
    BY <2>1, FS_Subset
  <2> QED BY <2>2, FS_CardinalityType
<1>3. \A k \in 1 .. Cardinality(kept) : m_pending[f[k]] \in Job
  <2>1. TAKE k \in 1 .. Cardinality(kept)
  <2>2. f[k] \in 1 .. Len(m_pending)
    OBVIOUS
  <2> QED BY <2>2
<1> HIDE DEF kept
<1> QED BY <1>1, <1>2, <1>3

\* An entry of the tracks has the shipped name back or is stuck at the name it had; no other
\* entry is touched.
LEMMA RestoreEffect ==
  ASSUME TypeOK, NEW tracks, RestorePointer(tracks)
  PROVE  /\ table' \in [Index -> Track \cup {None}] /\ stuck' \subseteq Refusable
         /\ \A i \in Index : Primary[i] \in tracks =>
              table'[i] \in {None, table[i]} /\ (i \notin stuck' => table'[i] = None)
         /\ \A i \in Index : Primary[i] \notin tracks =>
              table'[i] = table[i] /\ (i \in stuck' <=> i \in stuck)
<1> DEFINE shared == IndicesSharingFile(tracks)
<1>1. PICK refused \in SUBSET {i \in shared \cap Refusable : table[i] # None} :
        /\ table' = WritePointer(table, shared \ refused, None)
        /\ stuck' = (stuck \ shared) \cup refused
  BY DEF RestorePointer
<1>2. \A i \in Index : i \in shared <=> Primary[i] \in tracks
  BY DEF IndicesSharingFile
<1>3. table' = [i \in Index |-> IF i \in shared \ refused THEN None ELSE table[i]]
  BY <1>1 DEF WritePointer
<1> HIDE DEF shared
<1>4. table' \in [Index -> Track \cup {None}] /\ stuck' \subseteq Refusable
  BY <1>1, <1>3 DEF TypeOK
<1>5. \A i \in Index : Primary[i] \in tracks =>
        table'[i] \in {None, table[i]} /\ (i \notin stuck' => table'[i] = None)
  BY <1>1, <1>2, <1>3
<1>6. \A i \in Index : Primary[i] \notin tracks =>
        table'[i] = table[i] /\ (i \in stuck' <=> i \in stuck)
  BY <1>1, <1>2, <1>3
<1> QED BY <1>4, <1>5, <1>6

\* An entry of the track names its file, or is stuck at the shipped name.  The row is Active
\* only if its own entry took the name.
LEMMA RedirectEffect ==
  ASSUME TypeOK, NEW t \in Track, RedirectPointer(t)
  PROVE  /\ table' \in [Index -> Track \cup {None}] /\ stuck' \subseteq Refusable
         /\ \A i \in Index : Primary[i] = t =>
              /\ i \in stuck' => table'[i] = None
              /\ i \notin stuck' => table'[i] = t \/ (table'[i] = table[i] /\ table[i] # None)
         /\ \A i \in Index : Primary[i] # t =>
              table'[i] = table[i] /\ (i \in stuck' <=> i \in stuck)
         /\ \E state \in {"Active", "Failed"} :
              /\ m_assignments' = [m_assignments EXCEPT ![t].state = state,
                                                       ![t].appliedBeforeBoot = FALSE]
              /\ state = "Active" => table'[t] = t /\ t \notin stuck'
<1> DEFINE shared == IndicesSharingFile({t})
<1>1. PICK refused \in SUBSET (shared \cap Refusable) :
        \E old \in SUBSET {i \in refused : table[i] # None} :
          /\ table' = WritePointer(WritePointer(table, shared \ old, None), shared \ refused, t)
          /\ stuck' = (stuck \ shared) \cup (refused \ old)
          /\ m_assignments' = [m_assignments EXCEPT ![t].state = AppliedState(t, refused),
                                                   ![t].appliedBeforeBoot = FALSE]
  BY DEF RedirectPointer
<1>2. PICK old \in SUBSET {i \in refused : table[i] # None} :
        /\ table' = WritePointer(WritePointer(table, shared \ old, None), shared \ refused, t)
        /\ stuck' = (stuck \ shared) \cup (refused \ old)
        /\ m_assignments' = [m_assignments EXCEPT ![t].state = AppliedState(t, refused),
                                                 ![t].appliedBeforeBoot = FALSE]
  BY <1>1
<1>3. \A i \in Index : i \in shared <=> Primary[i] = t
  BY DEF IndicesSharingFile
<1>4. t \in Index /\ Primary[t] = t
  BY DEF Track
<1>5. table' = [i \in Index |-> IF i \in shared \ refused THEN t
                               ELSE IF i \in shared \ old THEN None ELSE table[i]]
  <2>1. \A i \in Index : WritePointer(table, shared \ old, None)[i]
                            = IF i \in shared \ old THEN None ELSE table[i]
    BY DEF WritePointer
  <2> HIDE DEF shared
  <2> QED BY <1>2, <2>1 DEF WritePointer
<1> HIDE DEF shared
<1>6. table' \in [Index -> Track \cup {None}] /\ stuck' \subseteq Refusable
  BY <1>1, <1>2, <1>5 DEF TypeOK
<1>7. \A i \in Index : Primary[i] = t =>
        /\ i \in stuck' => table'[i] = None
        /\ i \notin stuck' => table'[i] = t \/ (table'[i] = table[i] /\ table[i] # None)
  BY <1>2, <1>3, <1>5
<1>8. \A i \in Index : Primary[i] # t => table'[i] = table[i] /\ (i \in stuck' <=> i \in stuck)
  BY <1>1, <1>2, <1>3, <1>5
<1>9. /\ AppliedState(t, refused) \in {"Active", "Failed"}
      /\ AppliedState(t, refused) = "Active" => table'[t] = t /\ t \notin stuck'
  BY <1>2, <1>3, <1>4, <1>5 DEF AppliedState
<1> QED BY <1>2, <1>6, <1>7, <1>8, <1>9

\* A queued conversion, a rejected one, and every handler that ends in Assign keep the types.
LEMMA AssignType ==
  ASSUME TypeOK, NEW t \in Track, NEW s \in Source, NEW gain \in Gain, Assign(t, s, gain)
  PROVE  /\ table' \in [Index -> Track \cup {None}] /\ stuck' \subseteq Refusable
         /\ m_assignments' \in [Track -> Assignment]
         /\ m_pending' \in Seq(Job)
         /\ \/ m_inFlight' = Idle
            \/ m_inFlight' \in [job : Job, phase : {"running", "ok", "failed"}]
         /\ m_batchTotal' \in Nat /\ m_batchDone' \in Nat
         /\ ini' \in [Track -> Song \cup {None}]
<1>1. CASE QueueConversion(t, s, gain)
  <2>1. m_assignments' \in [Track -> Assignment]
    BY <1>1 DEF QueueConversion, TypeOK, Assignment, State
  <2>2. ini' \in [Track -> Song \cup {None}]
    BY <1>1, <2>1, SaveType DEF QueueConversion
  <2>3. Append(m_pending, [track |-> t, source |-> s, gain |-> gain]) \in Seq(Job)
    BY DEF TypeOK, Job
  <2>4. /\ m_pending' \in Seq(Job)
        /\ \/ m_inFlight' = Idle
           \/ m_inFlight' \in [job : Job, phase : {"running", "ok", "failed"}]
    BY <1>1, <2>3, StartNextJobType DEF QueueConversion, TypeOK
  <2>5. table' \in [Index -> Track \cup {None}] /\ stuck' \subseteq Refusable
    BY <1>1, RestoreEffect DEF QueueConversion
  <2>6. m_batchTotal' \in Nat /\ m_batchDone' \in Nat
    BY <1>1 DEF QueueConversion, TypeOK
  <2> QED BY <2>1, <2>2, <2>4, <2>5, <2>6
<1>2. CASE RejectAssign(t, s)
  BY <1>2, ValueAssumption DEF RejectAssign, TypeOK, pointers, jobs, Assignment, State, Blank
<1> QED BY <1>1, <1>2 DEF Assign

\* CarriedGain is always one of the gains.
LEMMA CarriedGainType ==
  ASSUME TypeOK, NEW t \in Track, NEW s
  PROVE  CarriedGain(t, s) \in Gain
BY ValueAssumption DEF CarriedGain, TypeOK, Assignment

\* ApplyPointer writes a track or the shipped name, and a state.
LEMMA ApplyPointerType ==
  ASSUME TypeOK, NEW t \in Track, ApplyPointer(t)
  PROVE  /\ table' \in [Index -> Track \cup {None}] /\ stuck' \subseteq Refusable
         /\ m_assignments' \in [Track -> Assignment]
<1>1. m_assignments[t] \in Assignment
  BY DEF TypeOK
<1>2. ASSUME NEW state \in State
      PROVE  /\ [m_assignments[t] EXCEPT !.state = state] \in Assignment
             /\ [m_assignments[t] EXCEPT !.state = state, !.appliedBeforeBoot = FALSE] \in Assignment
  BY <1>1 DEF Assignment
<1>3. CASE LooksLikeUsablePac(m_assignments[t], t)
  <2>1. PICK state \in {"Active", "Failed"} :
          m_assignments' = [m_assignments EXCEPT ![t].state = state, ![t].appliedBeforeBoot = FALSE]
    BY <1>3, RedirectEffect DEF ApplyPointer
  <2>2. m_assignments' =
          [m_assignments EXCEPT ![t] = [m_assignments[t] EXCEPT !.state = state,
                                                               !.appliedBeforeBoot = FALSE]]
    BY <2>1 DEF TypeOK
  <2>3. m_assignments' \in [Track -> Assignment]
    BY <1>2, <2>2 DEF TypeOK, State
  <2> QED BY <1>3, <2>3, RedirectEffect DEF ApplyPointer
<1>4. CASE ~LooksLikeUsablePac(m_assignments[t], t)
  <2>1. m_assignments' \in [Track -> Assignment]
    BY <1>2, <1>4 DEF ApplyPointer, TypeOK, State
  <2> QED BY <1>4, <2>1, RestoreEffect DEF ApplyPointer
<1> QED BY <1>3, <1>4

\* Undoing any rows keeps the types.
LEMMA UndoType ==
  ASSUME TypeOK, NEW tracks \in SUBSET Track, Undo(tracks)
  PROVE  TypeOK'
<1>1. m_assignments' \in [Track -> Assignment]
  BY ValueAssumption DEF Undo, TypeOK, Assignment, State, Blank
<1>2. ini' \in [Track -> Song \cup {None}]
  BY <1>1, SaveType DEF Undo
<1>3. m_pending' \in Seq(Job)
  BY CancelQueuedType DEF Undo, TypeOK
<1>4. table' \in [Index -> Track \cup {None}] /\ stuck' \subseteq Refusable
  BY RestoreEffect DEF Undo
<1>5. disk' \in [Track -> Song \cup {None}]
  BY DEF Undo, TypeOK
<1> QED BY <1>1, <1>2, <1>3, <1>4, <1>5 DEF Undo, TypeOK, ui

\* Retiring a job keeps the types.
LEMMA UpdateType ==
  ASSUME TypeOK, Update
  PROVE  TypeOK'
<1> DEFINE t == m_inFlight.job.track
<1>1. t \in Track
  BY DEF Update, IsReady, Idle, TypeOK, Job
<1>2. /\ table' \in [Index -> Track \cup {None}] /\ stuck' \subseteq Refusable
      /\ m_assignments' \in [Track -> Assignment]
      /\ disk' \in [Track -> Song \cup {None}]
  <2>1. CASE Assigned(t) /\ m_inFlight.phase = "ok"
    <3>1. ApplyPointer(t) /\ UNCHANGED disk
      BY <2>1 DEF Update, ApplyResult
    <3> HIDE DEF t
    <3> QED BY <1>1, <3>1, ApplyPointerType DEF TypeOK
  <2>2. CASE Assigned(t) /\ m_inFlight.phase # "ok"
    <3>1. /\ m_assignments' = [m_assignments EXCEPT ![t].state = "Failed"]
          /\ UNCHANGED <<table, stuck, disk>>
      BY <2>2 DEF Update, ApplyResult, pointers
    <3> QED BY <1>1, <3>1 DEF TypeOK, Assignment, State
  <2>3. CASE ~Assigned(t)
    <3>1. DropStray(t)
      BY <2>3 DEF Update
    <3> QED BY <1>1, <3>1 DEF DropStray, pointers, TypeOK
  <2> QED BY <2>1, <2>2, <2>3
<1>3. ini' \in [Track -> Song \cup {None}]
  BY <1>2, SaveType DEF Update
<1>4. /\ m_pending' \in Seq(Job)
      /\ \/ m_inFlight' = Idle
         \/ m_inFlight' \in [job : Job, phase : {"running", "ok", "failed"}]
  BY StartNextJobType DEF Update, TypeOK
<1>5. m_batchTotal' \in Nat /\ m_batchDone' \in Nat
  BY DEF Update, TypeOK
<1>6. UNCHANGED <<songs, ui>>
  BY DEF Update
<1> QED BY <1>2, <1>3, <1>4, <1>5, <1>6 DEF TypeOK, ui

\* A start of the game from any files on disk leaves well-typed memory.
LEMMA RestartType ==
  ASSUME TypeOK, Restart
  PROVE  TypeOK'
<1>1. PICK gone \in SUBSET Track :
        LET kept == [t \in Track |-> IF t \in gone THEN None ELSE disk[t]]
        IN  disk' = kept /\ Initialize(kept) /\ UNCHANGED <<ini, songs>>
  BY DEF Restart
<1> DEFINE kept == [t \in Track |-> IF t \in gone THEN None ELSE disk[t]]
<1>2. kept \in [Track -> Song \cup {None}]
  BY DEF TypeOK
<1>3. \A t \in Track, r \in BOOLEAN : Restored(ini[t], kept[t], r) \in Assignment
  BY ValueAssumption DEF TypeOK, Restored, Assignment, State, Blank, Song
<1>4. \A i \in Index : Primary[i] \in Track
  BY TableAssumption DEF Track
<1>5. disk' = kept /\ Initialize(kept) /\ UNCHANGED <<ini, songs>>
  BY <1>1
<1> HIDE DEF kept
<1>6. PICK refused \in SUBSET Refusable :
        /\ m_assignments' = [t \in Track |-> Restored(ini[t], kept[t], t \in refused)]
        /\ table' \in [Index -> Track \cup {None}]
        /\ stuck' = refused
  BY <1>4, <1>5 DEF Initialize
<1>7. m_assignments' \in [Track -> Assignment]
  <2>1. \A t \in Track : (t \in refused) \in BOOLEAN
    OBVIOUS
  <2> QED BY <1>3, <1>6, <2>1
<1> QED BY <1>2, <1>5, <1>6, <1>7 DEF Initialize, TypeOK

\* Types: the table names tracks, the queue holds jobs of tracks, the worker has a
\* job or none.  AssignedHasSource is what Retry and SetGainDb need of a row they pass on.
LEMMA TypeStep ==
  ASSUME TypeOK, AssignedHasSource, [Next]_vars
  PROVE  TypeOK'
<1> USE DEF TypeOK, vars, pointers, jobs, files, ui
<1>1. ASSUME NEW t \in Track, Retry(t)
      PROVE  TypeOK'
  <2>1. m_assignments[t].source \in Source /\ m_assignments[t].gain \in Gain
    BY <1>1 DEF Retry, AssignedHasSource, Assigned, Assignment
  <2> QED BY <1>1, <2>1, AssignType DEF Retry, Assign
<1>2. ASSUME NEW t \in Track, NEW gain \in Gain, SetGainDb(t, gain)
      PROVE  TypeOK'
  <2>1. m_assignments[t].source \in Source
    BY <1>2 DEF SetGainDb, AssignedHasSource, Assigned
  <2> QED BY <1>2, <2>1, AssignType DEF SetGainDb, Assign
<1>3. ASSUME NEW t \in Track, OpenPickerFor(t)
      PROVE  TypeOK'
  BY <1>3 DEF OpenPickerFor
<1>4. ASSUME NEW t \in Track, OpenVanillaModal(t)
      PROVE  TypeOK'
  BY <1>4 DEF OpenVanillaModal
<1>5. ASSUME (\E t \in Track : Unassign(t)) \/ UnassignAll
      PROVE  TypeOK'
  <2>1. PICK tracks \in SUBSET Track : Undo(tracks)
    BY <1>5 DEF Unassign, UnassignAll
  <2> QED BY <2>1, UndoType
<1>6. ASSUME NEW t \in Track, AssignFromVanilla(t)
      PROVE  TypeOK'
  <2>1. vanillaFor \in Track /\ t \in Source
    BY <1>6 DEF AssignFromVanilla, Source
  <2> QED BY <1>6, <2>1, CarriedGainType, AssignType DEF AssignFromVanilla, Assign
<1>7. ASSUME NEW s \in UserSource, PollPicker(s)
      PROVE  TypeOK'
  <2>1. picker \in Track /\ s \in Source
    BY <1>7 DEF PollPicker, Source
  <2> QED BY <1>7, <2>1, CarriedGainType, AssignType DEF PollPicker, Assign
<1>8. ASSUME NEW s \in UserSource, SongRemoved(s)
      PROVE  TypeOK'
  BY <1>8 DEF SongRemoved
<1>9. CASE CancelPicker
  BY <1>9 DEF CancelPicker
<1>10. CASE CancelVanillaModal
  BY <1>10 DEF CancelVanillaModal
<1>11. CASE Convert
  <2>1. /\ m_inFlight.job \in Job
        /\ m_inFlight \in [job : Job, phase : {"running", "ok", "failed"}]
    BY <1>11 DEF Convert, Idle
  <2> QED BY <1>11, <2>1 DEF Convert, Job, Song
<1>12. CASE ConvertFails
  <2>1. m_inFlight \in [job : Job, phase : {"running", "ok", "failed"}]
    BY <1>12 DEF ConvertFails, Idle
  <2> QED BY <1>12, <2>1 DEF ConvertFails
<1>13. CASE Update
  BY <1>13, UpdateType
<1>14. CASE Restart
  BY <1>14, RestartType
<1>15. CASE UNCHANGED vars
  BY <1>15
<1> QED
  BY <1>1, <1>2, <1>3, <1>4, <1>5, <1>6, <1>7, <1>8, <1>9, <1>10, <1>11, <1>12,
     <1>13, <1>14, <1>15 DEF Next, RowAction

-----------------------------------------------------------------------------
(* The pointer invariant, one lemma per action that disturbs it. *)

\* A restore keeps what is said of the entries, whatever it could not write: those that are
\* not stuck have their shipped name, and the others are as they were.
LEMMA RestoreKeepsPointers ==
  ASSUME TypeOK, PointerInv, NEW tracks \in SUBSET Track, RestorePointer(tracks),
         \A u \in Track \ tracks : disk'[u] = disk[u] /\ m_assignments'[u] = m_assignments[u],
         \A u \in tracks : m_assignments'[u].state \in {"Original", "Converting", "Missing"}
  PROVE  OwnFile' /\ PointerSafe' /\ RowMatchesPointer'
<1>1. \A i \in Index : Primary[i] \in Track
  BY TableAssumption DEF Track
<1>2. ASSUME NEW i \in Index, Primary[i] \in tracks
      PROVE  table'[i] \in {None, table[i]} /\ (i \notin stuck' => table'[i] = None)
  BY <1>2, RestoreEffect
<1>3. ASSUME NEW i \in Index, Primary[i] \notin tracks
      PROVE  /\ table'[i] = table[i] /\ (i \in stuck' <=> i \in stuck)
             /\ disk'[Primary[i]] = disk[Primary[i]]
             /\ m_assignments'[Primary[i]] = m_assignments[Primary[i]]
  BY <1>1, <1>3, RestoreEffect
<1>4. OwnFile'
  BY <1>2, <1>3 DEF PointerInv, OwnFile
<1>5. PointerSafe'
  <2>1. SUFFICES ASSUME NEW i \in Index, i \notin stuck', table'[i] # None
                 PROVE  disk'[table'[i]] # None
    BY DEF PointerSafe
  <2>2. Primary[i] \notin tracks
    BY <1>2, <2>1
  <2>3. table[i] = Primary[i]
    BY <1>3, <2>1, <2>2 DEF PointerInv, OwnFile
  <2> QED BY <1>3, <2>1, <2>2, <2>3 DEF PointerInv, PointerSafe
<1>6. RowMatchesPointer'
  <2>1. SUFFICES ASSUME NEW i \in Index
                 PROVE  LET row == m_assignments'[Primary[i]].state
                        IN  /\ row = "Active" /\ i \notin stuck' \ Track => table'[i] = Primary[i]
                            /\ row \in {"Original", "Converting", "Missing"} /\ i \notin stuck'
                                 => table'[i] = None
    BY DEF RowMatchesPointer
  <2>2. CASE Primary[i] \in tracks
    BY <1>2, <2>2
  <2>3. CASE Primary[i] \notin tracks
    BY <1>3, <2>3 DEF PointerInv, RowMatchesPointer
  <2> QED BY <2>2, <2>3
<1> QED BY <1>4, <1>5, <1>6

\* A conversion that is queued puts the shipped name back; a rejected one leaves the
\* pointer and calls the row Failed, of which the invariant asks nothing.
LEMMA AssignPointers ==
  ASSUME TypeOK, PointerInv, NEW t \in Track, NEW s \in Source, NEW gain \in Gain,
         Assign(t, s, gain)
  PROVE  PointerInv'
<1>1. CASE QueueConversion(t, s, gain)
  <2>1. /\ RestorePointer({t})
        /\ disk' = disk
        /\ \A u \in Track : u # t => m_assignments'[u] = m_assignments[u]
        /\ m_assignments'[t].state = "Converting" /\ m_assignments'[t].source = s
    BY <1>1 DEF QueueConversion, Assign, TypeOK
  <2>2. AssignedHasSource'
    BY <2>1 DEF PointerInv, AssignedHasSource, Assigned
  <2>3. OwnFile' /\ PointerSafe' /\ RowMatchesPointer'
    BY <2>1, RestoreKeepsPointers
  <2> QED BY <2>2, <2>3 DEF PointerInv
<1>2. CASE RejectAssign(t, s)
  <2>1. /\ table' = table /\ stuck' = stuck /\ disk' = disk
        /\ \A u \in Track : u # t => m_assignments'[u] = m_assignments[u]
        /\ m_assignments'[t].state = "Failed" /\ m_assignments'[t].source = s
    BY <1>2 DEF RejectAssign, Assign, pointers, TypeOK, Blank
  <2>2. \A i \in Index : Primary[i] \in Track
    BY TableAssumption DEF Track
  <2> QED BY <2>1, <2>2 DEF PointerInv, AssignedHasSource, Assigned, OwnFile, PointerSafe,
                            RowMatchesPointer
<1> QED BY <1>1, <1>2 DEF Assign

\* The rows are restored before their files are deleted, and no other entry names
\* those files.
LEMMA UndoPointers ==
  ASSUME TypeOK, PointerInv, NEW tracks \in SUBSET Track, Undo(tracks)
  PROVE  PointerInv'
<1>1. /\ RestorePointer(tracks)
      /\ \A u \in Track \ tracks : disk'[u] = disk[u] /\ m_assignments'[u] = m_assignments[u]
      /\ \A u \in tracks : m_assignments'[u].state = "Original"
  BY DEF Undo, TypeOK, Blank
<1>2. AssignedHasSource'
  BY <1>1 DEF PointerInv, AssignedHasSource, Assigned
<1> QED BY <1>1, <1>2, RestoreKeepsPointers DEF PointerInv

\* A row is patched only after its file was found, and is Active only if its own entry took
\* the name.
LEMMA RedirectPointers ==
  ASSUME TypeOK, PointerInv, NEW t \in Track, RedirectPointer(t), disk' = disk, disk[t] # None
  PROVE  OwnFile' /\ PointerSafe' /\ RowMatchesPointer'
<1>1. /\ t \in Index /\ Primary[t] = t
      /\ \A i \in Index : Primary[i] \in Track /\ (i \in Track => Primary[i] = i)
  BY TableAssumption DEF Track
<1>2. PICK state \in {"Active", "Failed"} :
        /\ m_assignments' = [m_assignments EXCEPT ![t].state = state,
                                                 ![t].appliedBeforeBoot = FALSE]
        /\ state = "Active" => table'[t] = t /\ t \notin stuck'
  BY RedirectEffect
<1>3. /\ \A u \in Track : u # t => m_assignments'[u] = m_assignments[u]
      /\ m_assignments'[t].state = state
  BY <1>2 DEF TypeOK, Assignment
<1>4. ASSUME NEW i \in Index, Primary[i] = t
      PROVE  /\ i \in stuck' => table'[i] = None
             /\ i \notin stuck' => table'[i] = t
  BY <1>4, RedirectEffect DEF PointerInv, OwnFile
<1>5. ASSUME NEW i \in Index, Primary[i] # t
      PROVE  table'[i] = table[i] /\ (i \in stuck' <=> i \in stuck)
  BY <1>5, RedirectEffect
<1>6. OwnFile'
  BY <1>4, <1>5 DEF PointerInv, OwnFile
<1>7. PointerSafe'
  <2>1. SUFFICES ASSUME NEW i \in Index, i \notin stuck', table'[i] # None
                 PROVE  disk[table'[i]] # None
    BY DEF PointerSafe
  <2> QED BY <1>4, <1>5, <2>1 DEF PointerInv, PointerSafe
<1>8. RowMatchesPointer'
  <2>1. SUFFICES ASSUME NEW i \in Index
                 PROVE  LET row == m_assignments'[Primary[i]].state
                        IN  /\ row = "Active" /\ i \notin stuck' \ Track => table'[i] = Primary[i]
                            /\ row \in {"Original", "Converting", "Missing"} /\ i \notin stuck'
                                 => table'[i] = None
    BY DEF RowMatchesPointer
  <2>2. CASE Primary[i] = t /\ i = t
    BY <1>2, <1>3, <2>2
  <2>3. CASE Primary[i] = t /\ i # t
    <3>1. i \notin Track
      BY <1>1, <2>3
    <3> QED BY <1>3, <1>4, <2>3, <3>1
  <2>4. CASE Primary[i] # t
    BY <1>1, <1>3, <1>5, <2>4 DEF PointerInv, RowMatchesPointer
  <2> QED BY <2>2, <2>3, <2>4
<1> QED BY <1>6, <1>7, <1>8

\* A finished conversion patches its row only after it has found the file; the file of
\* a row that was undone can be removed, because such a row is not patched.
LEMMA UpdatePointers ==
  ASSUME TypeOK, PointerInv, Update
  PROVE  PointerInv'
<1> DEFINE t == m_inFlight.job.track
<1>1. t \in Track
  BY DEF Update, IsReady, Idle, TypeOK, Job
<1>2. IF Assigned(t) THEN ApplyResult(t) ELSE DropStray(t)
  BY DEF Update
<1> HIDE DEF t
<1>3. \A i \in Index : Primary[i] \in Track
  BY TableAssumption DEF Track
<1>4. CASE Assigned(t) /\ m_inFlight.phase = "ok" /\ LooksLikeUsablePac(m_assignments[t], t)
  <2>1. RedirectPointer(t) /\ disk' = disk /\ disk[t] # None
    BY <1>2, <1>4 DEF ApplyResult, ApplyPointer, LooksLikeUsablePac
  <2>2. PICK state : m_assignments' = [m_assignments EXCEPT ![t].state = state,
                                                           ![t].appliedBeforeBoot = FALSE]
    BY <1>1, <2>1, RedirectEffect
  <2>3. \A u \in Track : m_assignments'[u].source = m_assignments[u].source
    BY <2>2 DEF TypeOK, Assignment
  <2>4. \A u \in Track : u # t => m_assignments'[u] = m_assignments[u]
    BY <2>2 DEF TypeOK
  <2>5. AssignedHasSource'
    BY <1>4, <2>3, <2>4 DEF PointerInv, AssignedHasSource, Assigned
  <2> QED BY <1>1, <2>1, <2>5, RedirectPointers DEF PointerInv
<1>5. CASE Assigned(t) /\ m_inFlight.phase = "ok" /\ ~LooksLikeUsablePac(m_assignments[t], t)
  <2>1. /\ RestorePointer({t})
        /\ disk' = disk
        /\ \A u \in Track : u # t => m_assignments'[u] = m_assignments[u]
        /\ m_assignments'[t] = [m_assignments[t] EXCEPT !.state = "Missing"]
    BY <1>1, <1>2, <1>5 DEF ApplyResult, ApplyPointer, TypeOK
  <2>2. m_assignments'[t].state = "Missing" /\ m_assignments'[t].source = m_assignments[t].source
    BY <1>1, <2>1 DEF TypeOK, Assignment
  <2>3. AssignedHasSource'
    BY <1>5, <2>1, <2>2 DEF PointerInv, AssignedHasSource, Assigned
  <2>4. OwnFile' /\ PointerSafe' /\ RowMatchesPointer'
    BY <1>1, <2>1, <2>2, RestoreKeepsPointers
  <2> QED BY <2>3, <2>4 DEF PointerInv
<1>6. CASE Assigned(t) /\ m_inFlight.phase # "ok"
  <2>1. /\ table' = table /\ stuck' = stuck /\ disk' = disk
        /\ \A u \in Track : u # t => m_assignments'[u] = m_assignments[u]
        /\ m_assignments'[t] = [m_assignments[t] EXCEPT !.state = "Failed"]
    BY <1>1, <1>2, <1>6 DEF ApplyResult, pointers, TypeOK
  <2>2. m_assignments'[t].state = "Failed" /\ m_assignments'[t].source = m_assignments[t].source
    BY <1>1, <2>1 DEF TypeOK, Assignment
  <2>3. AssignedHasSource'
    BY <1>6, <2>1, <2>2 DEF PointerInv, AssignedHasSource, Assigned
  <2>4. OwnFile' /\ PointerSafe'
    BY <2>1 DEF PointerInv, OwnFile, PointerSafe
  <2>5. RowMatchesPointer'
    BY <1>3, <2>1, <2>2 DEF PointerInv, RowMatchesPointer
  <2> QED BY <2>3, <2>4, <2>5 DEF PointerInv
<1>7. CASE ~Assigned(t)
  <2>1. /\ table' = table /\ stuck' = stuck /\ m_assignments' = m_assignments
        /\ \A u \in Track : u # t => disk'[u] = disk[u]
    BY <1>2, <1>7 DEF DropStray, pointers, TypeOK
  <2>2. PointerSafe'
    <3>1. SUFFICES ASSUME NEW i \in Index, i \notin stuck, table[i] # None
                   PROVE  disk'[table[i]] # None
      BY <2>1 DEF PointerSafe
    <3>2. table[i] = Primary[i]
      BY <3>1 DEF PointerInv, OwnFile
    <3>3. table[i] # t
      BY <1>7, <3>1, <3>2 DEF PointerInv, RowMatchesPointer, Assigned
    <3> QED BY <1>3, <2>1, <3>1, <3>2, <3>3 DEF PointerInv, PointerSafe
  <2> QED BY <2>1, <2>2 DEF PointerInv, AssignedHasSource, Assigned, OwnFile, RowMatchesPointer
<1> QED BY <1>4, <1>5, <1>6, <1>7

\* A start of the game patches the rows whose file it finds, as far as it is let, and no others.
LEMMA RestartPointers ==
  ASSUME TypeOK, Restart
  PROVE  PointerInv'
<1>1. PICK gone \in SUBSET Track :
        LET kept == [t \in Track |-> IF t \in gone THEN None ELSE disk[t]]
        IN  disk' = kept /\ Initialize(kept)
  BY DEF Restart
<1> DEFINE kept == [t \in Track |-> IF t \in gone THEN None ELSE disk[t]]
           saved == {i \in Index : ini[Primary[i]] # None /\ kept[Primary[i]] # None}
<1>2. PICK refused \in SUBSET (saved \cap Refusable) :
        /\ m_assignments' = [t \in Track |-> Restored(ini[t], kept[t], t \in refused)]
        /\ table' = [i \in Index |-> IF i \in saved \ refused THEN Primary[i] ELSE None]
        /\ stuck' = refused
  BY <1>1 DEF Initialize
<1>3. disk' = kept
  BY <1>1
<1>4. \A i \in Index : i \in saved <=> ini[Primary[i]] # None /\ kept[Primary[i]] # None
  OBVIOUS
<1> HIDE DEF kept, saved
<1>5. \A i \in Index : /\ Primary[i] \in Index /\ Primary[i] \in Track
                        /\ Primary[Primary[i]] = Primary[i]
                        /\ i \in Track => Primary[i] = i
  BY TableAssumption DEF Track
<1>6. AssignedHasSource'
  BY <1>2 DEF AssignedHasSource, Assigned, Restored, Blank, TypeOK, Song
<1>7. OwnFile'
  BY <1>2 DEF OwnFile
<1>8. PointerSafe'
  BY <1>2, <1>3, <1>4 DEF PointerSafe
<1>9. RowMatchesPointer'
  <2>1. SUFFICES ASSUME NEW i \in Index
                 PROVE  LET row == m_assignments'[Primary[i]].state
                        IN  /\ row = "Active" /\ i \notin stuck' \ Track => table'[i] = Primary[i]
                            /\ row \in {"Original", "Converting", "Missing"} /\ i \notin stuck'
                                 => table'[i] = None
    BY DEF RowMatchesPointer
  <2> DEFINE p == Primary[i]
  <2>2. p \in Track /\ p \in Index /\ Primary[p] = p /\ (i \in Track => p = i)
    BY TableAssumption DEF Track
  <2>3. table'[i] = IF i \in saved \ refused THEN p ELSE None
    BY <1>2
  <2>4. m_assignments'[p] = Restored(ini[p], kept[p], p \in refused)
    BY <1>2, <2>2, Zenon
  <2>5. i \in saved <=> ini[p] # None /\ kept[p] # None
    BY <1>4
  <2>6. CASE ~(ini[p] # None /\ kept[p] # None)
    <3>1. m_assignments'[p].state \in {"Original", "Missing"}
      BY <2>4, <2>6 DEF Restored, Blank
    <3> QED BY <2>3, <2>5, <2>6, <3>1
  <2>7. CASE ini[p] # None /\ kept[p] # None
    <3>1. m_assignments'[p].state = IF p \in refused THEN "Failed" ELSE "Active"
      BY <2>4, <2>7 DEF Restored
    <3> QED BY <1>2, <2>2, <2>3, <2>5, <2>7, <3>1
  <2> QED BY <2>6, <2>7
<1> QED BY <1>6, <1>7, <1>8, <1>9 DEF PointerInv

LEMMA PointerStep ==
  ASSUME TypeOK, PointerInv, [Next]_vars
  PROVE  PointerInv'
<1> DEFINE PointersUnchanged == UNCHANGED <<pointers, m_assignments, disk>>
<1>1. PointersUnchanged => PointerInv'
  BY DEF PointerInv, AssignedHasSource, Assigned, OwnFile, PointerSafe, RowMatchesPointer, pointers
<1>2. ASSUME NEW t \in Track, Retry(t)
      PROVE  PointerInv'
  <2>1. m_assignments[t].source \in Source /\ m_assignments[t].gain \in Gain
    BY <1>2 DEF Retry, PointerInv, AssignedHasSource, Assigned, TypeOK, Assignment
  <2> QED BY <1>2, <2>1, AssignPointers DEF Retry
<1>3. ASSUME NEW t \in Track, NEW gain \in Gain, SetGainDb(t, gain)
      PROVE  PointerInv'
  <2>1. m_assignments[t].source \in Source
    BY <1>3 DEF SetGainDb, PointerInv, AssignedHasSource, Assigned
  <2> QED BY <1>3, <2>1, AssignPointers DEF SetGainDb
<1>4. ASSUME NEW t \in Track, AssignFromVanilla(t)
      PROVE  PointerInv'
  <2>1. vanillaFor \in Track /\ t \in Source
    BY <1>4 DEF AssignFromVanilla, Source, TypeOK
  <2> QED BY <1>4, <2>1, CarriedGainType, AssignPointers DEF AssignFromVanilla
<1>5. ASSUME NEW s \in UserSource, PollPicker(s)
      PROVE  PointerInv'
  <2>1. picker \in Track /\ s \in Source
    BY <1>5 DEF PollPicker, Source, TypeOK
  <2> QED BY <1>5, <2>1, CarriedGainType, AssignPointers DEF PollPicker
<1>6. CASE Convert
  <2>1. m_inFlight.job.track \in Track /\ m_inFlight.job.source \in Source
        /\ m_inFlight.job.gain \in Gain
    BY <1>6 DEF Convert, Idle, TypeOK, Job
  <2>2. \A t \in Track : disk[t] # None => disk'[t] # None
    BY <1>6, <2>1, ValueAssumption DEF Convert, TypeOK, Song
  <2>3. \A i \in Index : table[i] # None => table[i] \in Track
    BY DEF TypeOK
  <2> QED BY <1>6, <2>2, <2>3 DEF Convert, PointerInv, AssignedHasSource, Assigned,
                             OwnFile, PointerSafe, RowMatchesPointer, pointers
<1>7. ASSUME NEW t \in Track, OpenPickerFor(t) \/ OpenVanillaModal(t)
      PROVE  PointerInv'
  BY <1>1, <1>7 DEF OpenPickerFor, OpenVanillaModal, files
<1>8. ASSUME NEW s \in UserSource, SongRemoved(s)
      PROVE  PointerInv'
  BY <1>1, <1>8 DEF SongRemoved
<1>9. CASE CancelPicker \/ CancelVanillaModal \/ ConvertFails \/ UNCHANGED vars
  BY <1>1, <1>9 DEF CancelPicker, CancelVanillaModal, ConvertFails, files, vars
<1>10. ASSUME (\E t \in Track : Unassign(t)) \/ UnassignAll
       PROVE  PointerInv'
  <2>1. PICK tracks \in SUBSET Track : Undo(tracks)
    BY <1>10 DEF Unassign, UnassignAll
  <2> QED BY <2>1, UndoPointers
<1>11. CASE Update
  BY <1>11, UpdatePointers
<1>12. CASE Restart
  BY <1>12, RestartPointers
<1> QED
  BY <1>2, <1>3, <1>4, <1>5, <1>6, <1>7, <1>8, <1>9, <1>10, <1>11, <1>12 DEF Next, RowAction

-----------------------------------------------------------------------------
LEMMA InitInv == Init => TypeOK /\ PointerInv
<1> SUFFICES ASSUME Init PROVE TypeOK /\ PointerInv
  OBVIOUS
<1>1. TypeOK
  BY ValueAssumption DEF Init, TypeOK, Assignment, State, Blank, Idle
<1>2. PointerInv
  <2>1. \A i \in Index : table[i] = None /\ Primary[i] \in Track
    BY TableAssumption DEF Init, Track
  <2>2. \A t \in Track : m_assignments[t].state = "Original"
    BY DEF Init, Blank
  <2> QED BY <2>1, <2>2 DEF PointerInv, AssignedHasSource, Assigned, OwnFile, PointerSafe,
                            RowMatchesPointer
<1> QED BY <1>1, <1>2

\* In every reachable state of the manager the types and the pointer invariant hold.
THEOREM Invariance == Spec => [](TypeOK /\ PointerInv)
<1>1. Init => TypeOK /\ PointerInv
  BY InitInv
<1>2. TypeOK /\ PointerInv /\ [Next]_vars => (TypeOK /\ PointerInv)'
  BY TypeStep, PointerStep DEF PointerInv
<1> QED BY <1>1, <1>2, PTL DEF Spec

\* The manager's members keep their types, through every handler and restart.
THEOREM TypeCorrect == Spec => []TypeOK
BY Invariance, PTL

\* No entry of the game's table ever names a file that is not on disk: late results,
\* undone rows, restarts and refused writes included, but for the entries that Windows did
\* not let the manager give their shipped name back.
THEOREM PointerSafety == Spec => []PointerSafe
<1>1. PointerInv => PointerSafe
  BY DEF PointerInv
<1> QED BY <1>1, Invariance, PTL

\* What the browser says of a row is what the game will load for it, whichever entry of the
\* filename it reads, unless a refused write has parted that entry from the row.
THEOREM RowsTellThePointer == Spec => []RowMatchesPointer
<1>1. PointerInv => RowMatchesPointer
  BY DEF PointerInv
<1> QED BY <1>1, Invariance, PTL
=============================================================================
