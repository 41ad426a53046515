--------------------------- MODULE BgmQueueProofs ---------------------------
(***************************************************************************)
(* What the conversion queue promises, for any number of tracks, songs and *)
(* queued jobs.  The job in flight and the pending ones are seen as one    *)
(* line: Assign appends to it, Update takes its head, an undo takes jobs   *)
(* out of it, and the last job a track has in it is the one its row shows. *)
(***************************************************************************)
EXTENDS BgmReplacementProofs, SequenceTheorems

Flight == {Idle} \cup [job : Job, phase : {"running", "ok", "failed"}]

\* The jobs that are not retired yet, in the order in which they will be.
LineOf(flight, pending) == (IF flight = Idle THEN <<>> ELSE <<flight.job>>) \o pending
Line == LineOf(m_inFlight, m_pending)

JobIn(line, t) == \E k \in 1 .. Len(line) : line[k].track = t

LastOf(line, t, k) ==
  /\ k \in 1 .. Len(line) /\ line[k].track = t
  /\ \A j \in 1 .. Len(line) : j > k => line[j].track # t

Wanted(t) == [track |-> t, source |-> m_assignments[t].source, gain |-> m_assignments[t].gain]

\* Of the jobs a track has, the last one is for the song and gain its row shows.
LastIsWanted ==
  \A t \in Track : m_assignments[t].hasPac =>
    \A k \in 1 .. Len(Line) : LastOf(Line, t, k) => Line[k] = Wanted(t)

\* A finished file is that of its job, or was deleted by an undo before Update saw it.
ResultIsOfJob ==
  m_inFlight.phase = "ok" =>
    disk[m_inFlight.job.track] \in
      {None, [source |-> m_inFlight.job.source, gain |-> m_inFlight.job.gain]}

OriginalHasNoSource == \A t \in Track : ~Assigned(t) => m_assignments[t].source = None

QueueInv ==
  /\ BatchAccountsForQueue /\ ConvertingHasJob
  /\ LastIsWanted /\ ResultIsOfJob /\ ActiveIsChosenSong
  /\ OriginalHasNoSource /\ SettingsSurviveRestart

-----------------------------------------------------------------------------
(* The line *)

\* A line is a sequence of jobs, the one in flight first.
LEMMA LineOfProperties ==
  ASSUME NEW flight \in Flight, NEW pending \in Seq(Job)
  PROVE  /\ LineOf(flight, pending) \in Seq(Job)
         /\ flight = Idle => LineOf(flight, pending) = pending
         /\ flight # Idle =>
              /\ flight.job \in Job
              /\ Len(LineOf(flight, pending)) = Len(pending) + 1
              /\ LineOf(flight, pending)[1] = flight.job
              /\ \A k \in 1 .. Len(pending) : LineOf(flight, pending)[k + 1] = pending[k]
<1>1. CASE flight = Idle
  <2>1. LineOf(flight, pending) = <<>> \o pending BY <1>1 DEF LineOf
  <2>2. <<>> \o pending = pending BY ConcatEmptySeq
  <2> QED BY <1>1, <2>1, <2>2
<1>2. CASE flight # Idle
  <2>1. flight.job \in Job BY <1>2 DEF Flight
  <2> DEFINE first == <<flight.job>>
  <2>2. first \in Seq(Job) /\ Len(first) = 1 /\ first[1] = flight.job BY <2>1
  <2>3. LineOf(flight, pending) = first \o pending BY <1>2 DEF LineOf
  <2> HIDE DEF first
  <2>4. /\ first \o pending \in Seq(Job)
        /\ Len(first \o pending) = Len(first) + Len(pending)
        /\ \A i \in 1 .. Len(first) + Len(pending) :
             (first \o pending)[i] = IF i <= Len(first) THEN first[i] ELSE pending[i - Len(first)]
    BY <2>2, ConcatProperties
  <2>5. Len(pending) \in Nat BY LenProperties
  <2>6. \A k \in 1 .. Len(pending) : (first \o pending)[k + 1] = pending[k]
    BY <2>2, <2>4, <2>5
  <2>7. (first \o pending)[1] = flight.job
    BY <2>2, <2>4, <2>5
  <2> QED BY <1>2, <2>1, <2>2, <2>3, <2>4, <2>5, <2>6, <2>7
<1> QED BY <1>1, <1>2

\* HasJob is a job anywhere in the line.
LEMMA HasJobInLine ==
  ASSUME NEW flight \in Flight, NEW pending \in Seq(Job), NEW t
  PROVE  (\/ {k \in 1 .. Len(pending) : pending[k].track = t} # {}
          \/ flight # Idle /\ flight.job.track = t)
           <=> JobIn(LineOf(flight, pending), t)
<1> DEFINE line == LineOf(flight, pending)
<1>1. Len(pending) \in Nat BY LenProperties
<1>2. CASE flight = Idle
  BY <1>2, LineOfProperties DEF JobIn
<1>3. CASE flight # Idle
  <2>1. /\ Len(line) = Len(pending) + 1 /\ line[1] = flight.job
        /\ \A k \in 1 .. Len(pending) : line[k + 1] = pending[k]
    BY <1>3, LineOfProperties
  <2> HIDE DEF line
  <2>2. \A k \in 2 .. Len(line) : line[k] = pending[k - 1] /\ k - 1 \in 1 .. Len(pending)
    <3>1. TAKE k \in 2 .. Len(line)
    <3>2. k - 1 \in 1 .. Len(pending) /\ (k - 1) + 1 = k BY <1>1, <2>1
    <3> QED BY <2>1, <3>2
  <2>3. ASSUME JobIn(line, t), flight.job.track # t
        PROVE  \E k \in 1 .. Len(pending) : pending[k].track = t
    <3>1. PICK k \in 1 .. Len(line) : line[k].track = t BY <2>3 DEF JobIn
    <3>2. k \in 2 .. Len(line) BY <1>1, <2>1, <2>3, <3>1
    <3> QED BY <2>2, <3>1, <3>2
  <2>4. ASSUME NEW k \in 1 .. Len(pending), pending[k].track = t PROVE JobIn(line, t)
    <3>1. k + 1 \in 1 .. Len(line) BY <1>1, <2>1
    <3> QED BY <2>1, <2>4, <3>1 DEF JobIn
  <2>5. flight.job.track = t => JobIn(line, t)
    BY <1>1, <2>1 DEF JobIn
  <2> QED BY <1>3, <2>3, <2>4, <2>5 DEF line
<1> QED BY <1>2, <1>3

\* Starting the next job moves it within the line, and leaves no job unstarted.
LEMMA StartNextJobLine ==
  ASSUME NEW pending \in Seq(Job), NEW flight \in Flight, StartNextJob(pending, flight)
  PROVE  /\ m_pending' \in Seq(Job) /\ m_inFlight' \in Flight
         /\ LineOf(m_inFlight', m_pending') = LineOf(flight, pending)
         /\ m_inFlight' = Idle => m_pending' = <<>>
         /\ m_inFlight'.phase = "ok" => m_inFlight' = flight
<1>1. CASE flight # Idle \/ pending = <<>>
  BY <1>1 DEF StartNextJob
<1>2. CASE flight = Idle /\ pending # <<>>
  <2>1. /\ m_pending' = Tail(pending)
        /\ m_inFlight' = [job |-> Head(pending), phase |-> "running"]
    BY <1>2 DEF StartNextJob
  <2>2. /\ Head(pending) \in Job /\ Tail(pending) \in Seq(Job)
        /\ Len(Tail(pending)) = Len(pending) - 1
        /\ \A i \in 1 .. Len(Tail(pending)) : Tail(pending)[i] = pending[i + 1]
    BY <1>2, HeadTailProperties
  <2>3. Head(pending) = pending[1] BY <1>2
  <2>4. m_inFlight' # Idle BY <2>1 DEF Idle
  <2>5. m_inFlight' \in Flight /\ m_pending' \in Seq(Job) BY <2>1, <2>2 DEF Flight
  <2> DEFINE line == LineOf(m_inFlight', m_pending')
  <2>6. /\ line \in Seq(Job) /\ Len(line) = Len(m_pending') + 1
        /\ line[1] = m_inFlight'.job
        /\ \A k \in 1 .. Len(m_pending') : line[k + 1] = m_pending'[k]
    BY <2>4, <2>5, LineOfProperties
  <2> HIDE DEF line
  <2>7. Len(pending) \in Nat BY LenProperties
  <2>8. \A i \in 1 .. Len(line) : line[i] = pending[i]
    <3>1. TAKE i \in 1 .. Len(line)
    <3>2. CASE i = 1 BY <2>1, <2>3, <2>6, <3>2
    <3>3. CASE i # 1
      <4>1. i - 1 \in 1 .. Len(Tail(pending)) /\ (i - 1) + 1 = i
        BY <2>1, <2>2, <2>6, <2>7, <3>3
      <4> QED BY <2>1, <2>2, <2>6, <4>1
    <3> QED BY <3>2, <3>3
  <2>9. line = pending
    <3>1. Len(line) = Len(pending) BY <2>1, <2>2, <2>6, <2>7
    <3> QED BY <2>6, <2>8, <3>1, SeqEqual
  <2>10. LineOf(flight, pending) = pending BY <1>2, LineOfProperties
  <2> QED BY <2>1, <2>4, <2>5, <2>9, <2>10 DEF line
<1> QED BY <1>1, <1>2

\* The state's own line: what HasJob and the counters mean in it.
LEMMA LineFacts ==
  ASSUME TypeOK
  PROVE  /\ m_inFlight \in Flight /\ m_pending \in Seq(Job) /\ Line \in Seq(Job)
         /\ \A t \in Track : HasJob(t) <=> JobIn(Line, t)
         /\ Len(Line) = Len(m_pending) + (IF m_inFlight = Idle THEN 0 ELSE 1)
         /\ m_inFlight = Idle => Line = m_pending
         /\ m_inFlight # Idle =>
              /\ Line[1] = m_inFlight.job
              /\ \A k \in 1 .. Len(m_pending) : Line[k + 1] = m_pending[k]
<1>1. m_inFlight \in Flight /\ m_pending \in Seq(Job) BY DEF TypeOK, Flight
<1>2. Len(m_pending) \in Nat BY <1>1, LenProperties
<1>3. \A t \in Track : HasJob(t) <=> JobIn(Line, t)
  BY <1>1, HasJobInLine DEF HasJob, JobsFor, Line
<1> QED BY <1>1, <1>2, <1>3, LineOfProperties DEF Line

LEMMA NextLineFacts ==
  ASSUME TypeOK'
  PROVE  /\ m_inFlight' \in Flight /\ m_pending' \in Seq(Job) /\ Line' \in Seq(Job)
         /\ \A t \in Track : HasJob(t)' <=> JobIn(Line', t)
         /\ Len(Line') = Len(m_pending') + (IF m_inFlight' = Idle THEN 0 ELSE 1)
         /\ m_inFlight' = Idle => Line' = m_pending'
         /\ m_inFlight' # Idle =>
              /\ Line'[1] = m_inFlight'.job
              /\ \A k \in 1 .. Len(m_pending') : Line'[k + 1] = m_pending'[k]
<1>1. m_inFlight' \in Flight /\ m_pending' \in Seq(Job) BY DEF TypeOK, Flight
<1>2. Len(m_pending') \in Nat BY <1>1, LenProperties
<1>3. \A t \in Track : HasJob(t)' <=> JobIn(Line', t)
  BY <1>1, HasJobInLine DEF HasJob, JobsFor, Line
<1>4. Line' = LineOf(m_inFlight', m_pending') BY DEF Line
<1>5. /\ LineOf(m_inFlight', m_pending') \in Seq(Job)
      /\ Len(LineOf(m_inFlight', m_pending'))
           = Len(m_pending') + (IF m_inFlight' = Idle THEN 0 ELSE 1)
      /\ m_inFlight' = Idle => LineOf(m_inFlight', m_pending') = m_pending'
  BY <1>1, LineOfProperties
<1>6. m_inFlight' # Idle =>
        /\ LineOf(m_inFlight', m_pending')[1] = m_inFlight'.job
        /\ \A k \in 1 .. Len(m_pending') : LineOf(m_inFlight', m_pending')[k + 1] = m_pending'[k]
  BY <1>1, LineOfProperties
<1> QED BY <1>1, <1>3, <1>4, <1>5, <1>6

-----------------------------------------------------------------------------
(* Save, wherever a handler ends in it *)

\* The whole file is rewritten, so it agrees with every row at once.
LEMMA SaveKeepsSettings ==
  ASSUME AssignedHasSource', OriginalHasNoSource', Save
  PROVE  SettingsSurviveRestart'
<1> SUFFICES ASSUME NEW t \in Track
             PROVE  /\ m_assignments'[t].state = "Active" =>
                         ini'[t] = [source |-> m_assignments'[t].source,
                                    gain |-> m_assignments'[t].gain]
                    /\ m_assignments'[t].state = "Original" => ini'[t] = None
  BY DEF SettingsSurviveRestart
<1>1. ini'[t] = IF m_assignments'[t].source = None THEN None
                ELSE [source |-> m_assignments'[t].source, gain |-> m_assignments'[t].gain]
  BY DEF Save, SavedLines
<1>2. m_assignments'[t].state # "Original" => m_assignments'[t].source \in Source
  BY DEF AssignedHasSource, Assigned
<1>3. None \notin Source BY ValueAssumption DEF Source, Track
<1>4. m_assignments'[t].state = "Original" => m_assignments'[t].source = None
  BY DEF OriginalHasNoSource, Assigned
<1> QED BY <1>1, <1>2, <1>3, <1>4

-----------------------------------------------------------------------------
(* Assign appends to the line. *)

\* The new job comes last, and the lines of the others stay where they are.
LEMMA QueueConversionLine ==
  ASSUME TypeOK, NEW t \in Track, NEW s \in Source, NEW gain \in Gain,
         QueueConversion(t, s, gain)
  PROVE  /\ Len(Line') = Len(Line) + 1
         /\ Line'[Len(Line) + 1] = [track |-> t, source |-> s, gain |-> gain]
         /\ \A k \in 1 .. Len(Line) : Line'[k] = Line[k]
         /\ Len(Line) \in Nat
         /\ m_inFlight' = Idle => m_pending' = <<>>
         /\ m_inFlight'.phase = "ok" => m_inFlight' = m_inFlight
<1> DEFINE job == [track |-> t, source |-> s, gain |-> gain]
<1>1. StartNextJob(Append(m_pending, job), m_inFlight)
  BY DEF QueueConversion
<1>2. job \in Job BY DEF Job
<1>3. job.track = t /\ job.source = s /\ job.gain = gain OBVIOUS
<1> HIDE DEF job
<1>4. /\ Append(m_pending, job) \in Seq(Job) /\ Append(m_pending, job) # <<>>
      /\ Len(Append(m_pending, job)) = Len(m_pending) + 1
      /\ \A i \in 1 .. Len(m_pending) : Append(m_pending, job)[i] = m_pending[i]
      /\ Append(m_pending, job)[Len(m_pending) + 1] = job
  BY <1>2, LineFacts, AppendProperties
<1>5. /\ Line' = LineOf(m_inFlight, Append(m_pending, job))
      /\ m_inFlight' = Idle => m_pending' = <<>>
      /\ m_inFlight'.phase = "ok" => m_inFlight' = m_inFlight
  BY <1>1, <1>4, LineFacts, StartNextJobLine DEF Line
<1>6. Len(m_pending) \in Nat BY LineFacts, LenProperties
<1>7. /\ Len(Line') = Len(Line) + 1 /\ Line'[Len(Line) + 1] = job
      /\ \A k \in 1 .. Len(Line) : Line'[k] = Line[k]
      /\ Len(Line) \in Nat
  <2>1. CASE m_inFlight = Idle
    <3>1. Line' = Append(m_pending, job) BY <1>4, <1>5, <2>1, LineFacts, LineOfProperties
    <3> QED BY <1>4, <1>6, <2>1, <3>1, LineFacts
  <2>2. CASE m_inFlight # Idle
    <3>1. /\ Len(Line') = Len(m_pending) + 2
          /\ Line'[1] = m_inFlight.job
          /\ \A k \in 1 .. Len(m_pending) + 1 : Line'[k + 1] = Append(m_pending, job)[k]
      <4> DEFINE queue == Append(m_pending, job)
      <4>1. queue \in Seq(Job) /\ Len(queue) = Len(m_pending) + 1 /\ m_inFlight \in Flight
            /\ Line' = LineOf(m_inFlight, queue)
        BY <1>4, <1>5, LineFacts
      <4> HIDE DEF queue
      <4>2. /\ Len(Line') = Len(queue) + 1
            /\ Line'[1] = m_inFlight.job
            /\ \A k \in 1 .. Len(queue) : Line'[k + 1] = queue[k]
        BY <2>2, <4>1, LineOfProperties
      <4> QED BY <1>6, <4>1, <4>2 DEF queue
    <3>2. /\ Len(Line) = Len(m_pending) + 1 /\ Line[1] = m_inFlight.job
          /\ \A k \in 1 .. Len(m_pending) : Line[k + 1] = m_pending[k]
      BY <2>2, LineFacts
    <3>3. Line'[Len(Line) + 1] = job
      <4>1. Len(m_pending) + 1 \in 1 .. Len(m_pending) + 1 BY <1>6
      <4>2. Line'[(Len(m_pending) + 1) + 1] = Append(m_pending, job)[Len(m_pending) + 1]
        BY <3>1, <4>1
      <4> QED BY <1>4, <3>2, <4>2
    <3>4. ASSUME NEW k \in 1 .. Len(Line), k # 1 PROVE Line'[k] = Line[k]
      <4>1. k - 1 \in 1 .. Len(m_pending) /\ (k - 1) + 1 = k BY <1>6, <3>2, <3>4
      <4>2. Line[k] = m_pending[k - 1] BY <3>2, <4>1
      <4>3. k - 1 \in 1 .. Len(m_pending) + 1 BY <1>6, <4>1
      <4>4. Line'[k] = Append(m_pending, job)[k - 1] BY <3>1, <4>1, <4>3
      <4> QED BY <1>4, <4>1, <4>2, <4>4
    <3> QED BY <1>6, <3>1, <3>2, <3>3, <3>4
  <2> QED BY <2>1, <2>2
<1> QED BY <1>5, <1>7 DEF job

LEMMA QueueConversionQueue ==
  ASSUME TypeOK, TypeOK', AssignedHasSource', QueueInv, UNCHANGED disk,
         NEW t \in Track, NEW s \in Source, NEW gain \in Gain, QueueConversion(t, s, gain)
  PROVE  QueueInv'
<1> DEFINE job == [track |-> t, source |-> s, gain |-> gain]
<1>1. /\ \A u \in Track \ {t} : m_assignments'[u] = m_assignments[u]
      /\ m_assignments'[t] = [state |-> "Converting", source |-> s, gain |-> gain,
                              hasPac |-> TRUE, appliedBeforeBoot |-> FALSE]
      /\ m_batchDone' = IF m_batchTotal = 0 THEN 0 ELSE m_batchDone
      /\ m_batchTotal' = m_batchTotal + 1
      /\ Save
  BY DEF QueueConversion, TypeOK
<1>2. job.track = t /\ job.source = s /\ job.gain = gain OBVIOUS
<1>3. /\ Len(Line') = Len(Line) + 1 /\ Line'[Len(Line) + 1] = job
      /\ \A k \in 1 .. Len(Line) : Line'[k] = Line[k]
      /\ Len(Line) \in Nat
      /\ m_inFlight' = Idle => m_pending' = <<>>
      /\ m_inFlight'.phase = "ok" => m_inFlight' = m_inFlight
  BY QueueConversionLine
<1> HIDE DEF job
<1>4. \A u \in Track : JobIn(Line, u) => JobIn(Line', u)
  <2>1. SUFFICES ASSUME NEW u \in Track, NEW k \in 1 .. Len(Line), Line[k].track = u
                 PROVE  JobIn(Line', u)
    BY DEF JobIn
  <2>2. k \in 1 .. Len(Line') BY <1>3
  <2> QED BY <1>3, <2>1, <2>2 DEF JobIn
<1>5. JobIn(Line', t)
  <2>1. Len(Line) + 1 \in 1 .. Len(Line') BY <1>3
  <2> QED BY <1>2, <1>3, <2>1 DEF JobIn
<1>6. BatchAccountsForQueue'
  <2>1. /\ m_batchDone + Len(Line) <= m_batchTotal
        /\ m_batchTotal \in Nat /\ m_batchDone \in Nat
    BY LineFacts DEF QueueInv, BatchAccountsForQueue, TypeOK
  <2>2. m_batchDone' + Len(Line') <= m_batchTotal' /\ Len(Line') # 0
    BY <1>1, <1>3, <2>1
  <2> QED BY <1>3, <2>2, NextLineFacts DEF BatchAccountsForQueue
<1>7. ConvertingHasJob'
  <2>1. ASSUME NEW u \in Track, m_assignments'[u].state = "Converting" PROVE JobIn(Line', u)
    <3>1. CASE u = t BY <1>5, <3>1
    <3>2. CASE u # t BY <1>1, <1>4, <2>1, <3>2, LineFacts DEF QueueInv, ConvertingHasJob
    <3> QED BY <3>1, <3>2
  <2> QED BY <2>1, NextLineFacts DEF ConvertingHasJob
<1>8. LastIsWanted'
  <2>1. SUFFICES ASSUME NEW u \in Track, m_assignments'[u].hasPac,
                        NEW k \in 1 .. Len(Line'), LastOf(Line', u, k)
                 PROVE  Line'[k] = Wanted(u)'
    BY DEF LastIsWanted
  <2>2. CASE u = t
    <3>1. Len(Line) + 1 \in 1 .. Len(Line') /\ Line'[Len(Line) + 1].track = t
      BY <1>2, <1>3
    <3>2. k = Len(Line) + 1 BY <1>3, <2>1, <2>2, <3>1 DEF LastOf
    <3> QED BY <1>1, <1>3, <2>2, <3>2 DEF Wanted, job
  <2>3. CASE u # t
    <3>1. k \in 1 .. Len(Line) BY <1>2, <1>3, <2>1, <2>3 DEF LastOf
    <3>2. LastOf(Line, u, k)
      <4>1. \A j \in 1 .. Len(Line) : j \in 1 .. Len(Line') /\ Line'[j] = Line[j] BY <1>3
      <4> QED BY <2>1, <3>1, <4>1 DEF LastOf
    <3>3. Wanted(u)' = Wanted(u) BY <1>1, <2>3 DEF Wanted
    <3>4. m_assignments[u].hasPac BY <1>1, <2>1, <2>3
    <3> QED BY <1>3, <3>1, <3>2, <3>3, <3>4 DEF QueueInv, LastIsWanted
  <2> QED BY <2>2, <2>3
<1>9. ResultIsOfJob' BY <1>3 DEF QueueInv, ResultIsOfJob
<1>10. ActiveIsChosenSong'
  <2>1. ASSUME NEW u \in Track, m_assignments'[u].state = "Active",
               ~m_assignments'[u].appliedBeforeBoot, ~HasJob(u)'
        PROVE  disk'[u] = [source |-> m_assignments'[u].source, gain |-> m_assignments'[u].gain]
    <3>1. u # t BY <1>1, <2>1
    <3>2. ~HasJob(u) BY <1>4, <2>1, LineFacts, NextLineFacts
    <3> QED BY <1>1, <2>1, <3>1, <3>2 DEF QueueInv, ActiveIsChosenSong
  <2> QED BY <2>1 DEF ActiveIsChosenSong
<1>11. OriginalHasNoSource'
  BY <1>1 DEF QueueInv, OriginalHasNoSource, Assigned
<1>12. SettingsSurviveRestart' BY <1>1, <1>11, SaveKeepsSettings
<1> QED BY <1>6, <1>7, <1>8, <1>9, <1>10, <1>11, <1>12 DEF QueueInv

\* A rejected assignment leaves its jobs in the line, but no file it could call usable.
LEMMA RejectAssignQueue ==
  ASSUME TypeOK, QueueInv, UNCHANGED disk,
         NEW t \in Track, NEW s \in Source, RejectAssign(t, s)
  PROVE  QueueInv'
<1>1. /\ \A u \in Track \ {t} : m_assignments'[u] = m_assignments[u]
      /\ m_assignments'[t].state = "Failed" /\ ~m_assignments'[t].hasPac
      /\ m_assignments'[t].source = s
      /\ UNCHANGED <<m_pending, m_inFlight, m_batchTotal, m_batchDone, ini>>
  BY DEF RejectAssign, jobs, Blank, TypeOK
<1>2. Line' = Line /\ \A u \in Track : HasJob(u)' <=> HasJob(u)
  BY <1>1 DEF Line, HasJob, JobsFor
<1>3. BatchAccountsForQueue' BY <1>1 DEF QueueInv, BatchAccountsForQueue
<1>4. ConvertingHasJob' BY <1>1, <1>2 DEF QueueInv, ConvertingHasJob
<1>5. LastIsWanted' BY <1>1, <1>2 DEF QueueInv, LastIsWanted, Wanted
<1>6. ResultIsOfJob' BY <1>1 DEF QueueInv, ResultIsOfJob
<1>7. ActiveIsChosenSong' BY <1>1, <1>2 DEF QueueInv, ActiveIsChosenSong
<1>8. OriginalHasNoSource' BY <1>1 DEF QueueInv, OriginalHasNoSource, Assigned
<1>9. SettingsSurviveRestart' BY <1>1 DEF QueueInv, SettingsSurviveRestart
<1> QED BY <1>3, <1>4, <1>5, <1>6, <1>7, <1>8, <1>9 DEF QueueInv

LEMMA AssignQueue ==
  ASSUME TypeOK, TypeOK', AssignedHasSource', QueueInv,
         NEW t \in Track, NEW s \in Source, NEW gain \in Gain, Assign(t, s, gain)
  PROVE  QueueInv'
BY QueueConversionQueue, RejectAssignQueue DEF Assign

-----------------------------------------------------------------------------
(* An undo takes the jobs of its tracks out of the line. *)

\* f is where the jobs of the shorter line were in the longer one: they kept their order,
\* and those of no other track than the given ones are gone.
Shortened(shorter, longer, tracks, f) ==
  /\ f \in [1 .. Len(shorter) -> 1 .. Len(longer)]
  /\ Len(shorter) <= Len(longer)
  /\ \A i \in 1 .. Len(shorter) : shorter[i] = longer[f[i]]
  /\ \A i, j \in 1 .. Len(shorter) : i < j => f[i] < f[j]
  /\ \A k \in 1 .. Len(longer) :
       longer[k].track \notin tracks => \E i \in 1 .. Len(shorter) : f[i] = k

\* The jobs of the other tracks are all kept, in their order.
LEMMA CancelQueuedKeeps ==
  ASSUME NEW tracks, m_pending \in Seq(Job), CancelQueued(tracks)
  PROVE  \E f : Shortened(m_pending', m_pending, tracks, f)
<1> DEFINE kept == {k \in 1 .. Len(m_pending) : m_pending[k].track \notin tracks}
           n == Cardinality(kept)
<1>1. Len(m_pending) \in Nat BY LenProperties
<1>2. /\ IsFiniteSet(1 .. Len(m_pending))
      /\ Cardinality(1 .. Len(m_pending)) = Len(m_pending)
  BY <1>1, FS_Interval
<1>3. kept \in SUBSET (1 .. Len(m_pending)) OBVIOUS
<1>4. PICK f \in [1 .. n -> kept] :
        /\ \A i, j \in DOMAIN f : i < j => f[i] < f[j]
        /\ m_pending' = [k \in DOMAIN f |-> m_pending[f[k]]]
  BY DEF CancelQueued
<1>5. \A k \in 1 .. Len(m_pending) : m_pending[k].track \notin tracks => k \in kept
  OBVIOUS
<1> HIDE DEF kept
<1>6. IsFiniteSet(kept) /\ n \in Nat /\ n <= Len(m_pending)
  <2>1. IsFiniteSet(kept) /\ Cardinality(kept) <= Cardinality(1 .. Len(m_pending))
    BY <1>2, <1>3, FS_Subset
  <2> QED BY <1>2, <2>1, FS_CardinalityType
<1> HIDE DEF n
<1>7. /\ DOMAIN f = 1 .. n
      /\ \A i, j \in 1 .. n : i < j => f[i] < f[j]
      /\ m_pending' = [k \in 1 .. n |-> m_pending[f[k]]]
  BY <1>4
<1>8. Len(m_pending') = n BY <1>6, <1>7
<1>9. \A v \in kept : \E i \in 1 .. n : f[i] = v
  <2>1. SUFFICES ASSUME NEW v \in kept, \A i \in 1 .. n : f[i] # v PROVE FALSE
    OBVIOUS
  <2>2. f \in [1 .. n -> kept \ {v}] BY <1>4, <2>1
  <2>3. IsFiniteSet(kept \ {v}) /\ Cardinality(kept \ {v}) = n - 1
    BY <1>6, FS_RemoveElement DEF n
  <2>4. IsFiniteSet(1 .. n) /\ Cardinality(1 .. n) = n BY <1>6, FS_Interval
  <2>5. Cardinality(kept \ {v}) < Cardinality(1 .. n) BY <1>6, <2>3, <2>4
  <2>6. PICK x, y \in 1 .. n : x # y /\ f[x] = f[y]
    <3> DEFINE S == 1 .. n
               T == kept \ {v}
    <3>1. /\ IsFiniteSet(S) /\ IsFiniteSet(T) /\ Cardinality(T) < Cardinality(S)
          /\ f \in [S -> T]
      BY <2>2, <2>3, <2>4, <2>5
    <3> HIDE DEF S, T
    <3>2. \E x, y \in S : x # y /\ f[x] = f[y] BY <3>1, FS_PigeonHole
    <3> QED BY <3>2 DEF S
  <2>7. f[x] \in Int /\ f[y] \in Int
    <3>1. f[x] \in kept /\ f[y] \in kept BY <1>4
    <3>2. f[x] \in 1 .. Len(m_pending) /\ f[y] \in 1 .. Len(m_pending) BY <1>3, <3>1
    <3> QED BY <1>1, <3>2
  <2>8. x < y \/ y < x BY <1>6, <2>6
  <2> QED BY <1>7, <2>6, <2>7, <2>8
<1>10. f \in [1 .. n -> 1 .. Len(m_pending)] BY <1>3, <1>4
<1>11. \A i \in 1 .. n : m_pending'[i] = m_pending[f[i]] BY <1>7
<1>12. Shortened(m_pending', m_pending, tracks, f)
  BY <1>5, <1>6, <1>7, <1>8, <1>9, <1>10, <1>11 DEF Shortened
<1> QED BY <1>12

\* The same of the line, whose head is not cancelled.
LEMMA UndoLine ==
  ASSUME TypeOK, TypeOK', NEW tracks, CancelQueued(tracks), UNCHANGED m_inFlight
  PROVE  \E g : Shortened(Line', Line, tracks, g)
<1> DEFINE n == Len(m_pending')
<1>1. PICK f : Shortened(m_pending', m_pending, tracks, f)
  <2>1. m_pending \in Seq(Job) BY DEF TypeOK
  <2> QED BY <2>1, CancelQueuedKeeps
<1>2. /\ f \in [1 .. n -> 1 .. Len(m_pending)] /\ n <= Len(m_pending)
      /\ \A i \in 1 .. n : m_pending'[i] = m_pending[f[i]]
      /\ \A i, j \in 1 .. n : i < j => f[i] < f[j]
      /\ \A k \in 1 .. Len(m_pending) :
           m_pending[k].track \notin tracks => \E i \in 1 .. n : f[i] = k
      /\ n \in Nat
  <2>1. n \in Nat BY NextLineFacts, LenProperties
  <2> QED BY <1>1, <2>1 DEF Shortened
<1>3. Len(m_pending) \in Nat BY LineFacts, LenProperties
<1>4. CASE m_inFlight = Idle
  <2>1. Line = m_pending /\ Line' = m_pending' BY <1>4, LineFacts, NextLineFacts
  <2> QED BY <1>1, <2>1
<1>5. CASE m_inFlight # Idle
  <2>1. /\ Len(Line) = Len(m_pending) + 1 /\ Line[1] = m_inFlight.job
        /\ \A k \in 1 .. Len(m_pending) : Line[k + 1] = m_pending[k]
    BY <1>5, LineFacts
  <2>2. /\ Len(Line') = n + 1 /\ Line'[1] = m_inFlight.job
        /\ \A k \in 1 .. n : Line'[k + 1] = m_pending'[k]
    BY <1>5, NextLineFacts
  <2> HIDE DEF n
  <2> DEFINE g == [k \in 1 .. n + 1 |-> IF k = 1 THEN 1 ELSE f[k - 1] + 1]
  <2>3. /\ g[1] = 1
        /\ \A i \in 2 .. n + 1 : /\ i - 1 \in 1 .. n /\ g[i] = f[i - 1] + 1
                                 /\ f[i - 1] \in 1 .. Len(m_pending)
    <3>1. n \in Nat /\ f \in [1 .. n -> 1 .. Len(m_pending)] BY <1>2
    <3> HIDE DEF n
    <3>2. \A i \in 2 .. n + 1 : i - 1 \in 1 .. n /\ i \in 1 .. n + 1 /\ i # 1 BY <3>1
    <3> QED BY <3>1, <3>2
  <2>4. g \in [1 .. n + 1 -> 1 .. Len(m_pending) + 1]
    <3>1. \A i \in 1 .. n + 1 : g[i] \in 1 .. Len(m_pending) + 1 
      <4>1. TAKE i \in 1 .. n + 1
      <4>2. i = 1 \/ i \in 2 .. n + 1 BY <1>2
      <4> HIDE DEF g
      <4> QED BY <1>3, <2>3, <4>2
    <3> QED BY <3>1
  <2> HIDE DEF g
  <2>5. ASSUME NEW k \in 1 .. n + 1 PROVE Line'[k] = Line[g[k]]
    <3>1. CASE k = 1 BY <2>1, <2>2, <2>3, <3>1
    <3>2. CASE k # 1
      <4>1. k \in 2 .. n + 1 /\ (k - 1) + 1 = k BY <3>2
      <4>2. Line'[k] = m_pending'[k - 1] BY <2>2, <2>3, <4>1
      <4>3. Line[g[k]] = m_pending[f[k - 1]] BY <2>1, <2>3, <4>1
      <4> QED BY <1>2, <2>3, <4>1, <4>2, <4>3
    <3> QED BY <3>1, <3>2
  <2>6. ASSUME NEW i \in 1 .. n + 1, NEW j \in 1 .. n + 1, i < j PROVE g[i] < g[j]
    <3>1. j \in 2 .. n + 1 BY <2>6
    <3>2. CASE i = 1 BY <2>3, <3>1, <3>2
    <3>3. CASE i # 1
      <4>1. i \in 2 .. n + 1 /\ i - 1 < j - 1 BY <2>6, <3>3
      <4>2. f[i - 1] < f[j - 1] BY <1>2, <2>3, <3>1, <4>1
      <4> QED BY <2>3, <3>1, <4>1, <4>2
    <3> QED BY <3>2, <3>3
  <2>7. ASSUME NEW k \in 1 .. Len(m_pending) + 1, Line[k].track \notin tracks
        PROVE  \E i \in 1 .. n + 1 : g[i] = k
    <3>1. CASE k = 1
      <4>1. 1 \in 1 .. n + 1 BY <1>2
      <4> QED BY <2>3, <3>1, <4>1
    <3>2. CASE k # 1
      <4>1. k - 1 \in 1 .. Len(m_pending) /\ (k - 1) + 1 = k BY <1>3, <3>2
      <4>2. m_pending[k - 1].track \notin tracks BY <2>1, <2>7, <4>1
      <4>3. PICK i \in 1 .. n : f[i] = k - 1 BY <1>2, <4>1, <4>2
      <4>4. i + 1 \in 2 .. n + 1 /\ i + 1 \in 1 .. n + 1 /\ (i + 1) - 1 = i BY <1>2
      <4>5. g[i + 1] = k BY <2>3, <4>1, <4>3, <4>4
      <4> QED BY <4>4, <4>5
    <3> QED BY <3>1, <3>2
  <2>8. n + 1 <= Len(m_pending) + 1 BY <1>2, <1>3
  <2>9. Shortened(Line', Line, tracks, g)
    BY <2>1, <2>2, <2>4, <2>5, <2>6, <2>7, <2>8 DEF Shortened
  <2> QED BY <2>9
<1> QED BY <1>4, <1>5

\* What the rows of the other tracks wait for is still in the line, and nothing else is.
LEMMA UndoQueue ==
  ASSUME TypeOK, TypeOK', AssignedHasSource', QueueInv, NEW tracks \in SUBSET Track, Undo(tracks)
  PROVE  QueueInv'
<1>1. /\ \A u \in Track \ tracks : m_assignments'[u] = m_assignments[u] /\ disk'[u] = disk[u]
      /\ \A u \in tracks : /\ m_assignments'[u] = Blank
                           /\ disk'[u] \in {None, disk[u]}
      /\ CancelQueued(tracks) /\ Save
      /\ UNCHANGED <<m_inFlight, m_batchTotal, m_batchDone>>
  BY DEF Undo, TypeOK
<1>2. \A u \in tracks : /\ m_assignments'[u].state = "Original" /\ ~m_assignments'[u].hasPac
                        /\ m_assignments'[u].source = None
  BY <1>1 DEF Blank
<1>3. PICK g : Shortened(Line', Line, tracks, g)
  BY <1>1, UndoLine
<1>4. /\ g \in [1 .. Len(Line') -> 1 .. Len(Line)] /\ Len(Line') <= Len(Line)
      /\ \A i \in 1 .. Len(Line') : Line'[i] = Line[g[i]]
      /\ \A i, j \in 1 .. Len(Line') : i < j => g[i] < g[j]
      /\ \A k \in 1 .. Len(Line) :
           Line[k].track \notin tracks => \E i \in 1 .. Len(Line') : g[i] = k
  BY <1>3 DEF Shortened
<1>5. Len(Line) \in Nat /\ Len(Line') \in Nat
  <2>1. Line \in Seq(Job) /\ Line' \in Seq(Job) BY LineFacts, NextLineFacts
  <2> QED BY <2>1, LenProperties
<1>6. \A u \in Track \ tracks : HasJob(u)' <=> HasJob(u)
  <2>1. SUFFICES ASSUME NEW u \in Track \ tracks PROVE JobIn(Line', u) <=> JobIn(Line, u)
    BY LineFacts, NextLineFacts
  <2>2. ASSUME NEW i \in 1 .. Len(Line'), Line'[i].track = u PROVE JobIn(Line, u)
    BY <1>4, <2>2 DEF JobIn
  <2>3. ASSUME NEW k \in 1 .. Len(Line), Line[k].track = u PROVE JobIn(Line', u)
    <3>1. PICK i \in 1 .. Len(Line') : g[i] = k BY <1>4, <2>1, <2>3
    <3> QED BY <1>4, <2>3, <3>1 DEF JobIn
  <2> QED BY <2>2, <2>3 DEF JobIn
<1>7. BatchAccountsForQueue'
  <2>1. /\ m_batchDone + Len(Line) <= m_batchTotal /\ m_batchDone \in Nat /\ m_batchTotal \in Nat
        /\ Len(Line) = 0 => m_batchTotal = 0
        /\ m_inFlight = Idle => m_pending = <<>>
    BY LineFacts DEF QueueInv, BatchAccountsForQueue, TypeOK
  <2>2. m_batchDone' + Len(Line') <= m_batchTotal' BY <1>1, <1>4, <1>5, <2>1
  <2>3. CASE m_inFlight = Idle
    <3>1. Len(Line) = 0 /\ Len(Line') = 0
      <4>1. Len(Line) = 0 BY <2>1, <2>3, LineFacts
      <4> QED BY <1>4, <1>5, <4>1
    <3>2. m_pending' \in Seq(Job) /\ Len(m_pending') = 0
      BY <1>1, <2>3, <3>1, NextLineFacts
    <3>3. m_pending' = <<>> BY <3>2, EmptySeq
    <3> QED BY <1>1, <2>1, <2>2, <3>1, <3>3, NextLineFacts DEF BatchAccountsForQueue
  <2>4. CASE m_inFlight # Idle
    <3>1. Len(m_pending') \in Nat /\ Len(Line') = Len(m_pending') + 1
      <4>1. m_pending' \in Seq(Job) BY NextLineFacts
      <4> QED BY <1>1, <2>4, <4>1, NextLineFacts, LenProperties
    <3> QED BY <1>1, <2>2, <2>4, <3>1, NextLineFacts DEF BatchAccountsForQueue
  <2> QED BY <2>3, <2>4
<1>8. ConvertingHasJob' BY <1>1, <1>2, <1>6 DEF QueueInv, ConvertingHasJob
<1>9. LastIsWanted'
  <2>1. SUFFICES ASSUME NEW u \in Track, m_assignments'[u].hasPac,
                        NEW k \in 1 .. Len(Line'), LastOf(Line', u, k)
                 PROVE  Line'[k] = Wanted(u)'
    BY DEF LastIsWanted
  <2>2. u \notin tracks BY <1>2, <2>1
  <2>3. LastOf(Line, u, g[k])
    <3>1. g[k] \in 1 .. Len(Line) /\ Line[g[k]].track = u BY <1>4, <2>1 DEF LastOf
    <3>2. ASSUME NEW j \in 1 .. Len(Line), j > g[k], Line[j].track = u PROVE FALSE
      <4>1. PICK i \in 1 .. Len(Line') : g[i] = j BY <1>4, <2>2, <3>2
      <4>2. Line'[i].track = u BY <1>4, <3>2, <4>1
      <4>3. ~(i > k) BY <2>1, <4>2 DEF LastOf
      <4>4. i = k \/ i < k BY <1>5, <4>3
      <4>5. g[i] \in Int /\ g[k] \in Int
        <5>1. g[i] \in 1 .. Len(Line) /\ g[k] \in 1 .. Len(Line) BY <1>4
        <5> QED BY <1>5, <5>1
      <4> QED BY <1>4, <3>2, <4>1, <4>4, <4>5
    <3> QED BY <3>1, <3>2 DEF LastOf
  <2>4. Wanted(u)' = Wanted(u) /\ m_assignments[u].hasPac BY <1>1, <2>1, <2>2 DEF Wanted
  <2>5. g[k] \in 1 .. Len(Line) /\ Line'[k] = Line[g[k]] BY <1>4
  <2> QED BY <2>3, <2>4, <2>5 DEF QueueInv, LastIsWanted
<1>10. ResultIsOfJob'
  <2>1. SUFFICES ASSUME m_inFlight.phase = "ok"
                 PROVE  disk'[m_inFlight.job.track] \in
                          {None, [source |-> m_inFlight.job.source, gain |-> m_inFlight.job.gain]}
    BY <1>1 DEF ResultIsOfJob
  <2>2. m_inFlight.job.track \in Track BY <2>1 DEF TypeOK, Idle, Job
  <2> QED BY <1>1, <2>1, <2>2 DEF QueueInv, ResultIsOfJob
<1>11. ActiveIsChosenSong'
  <2>1. ASSUME NEW u \in Track, m_assignments'[u].state = "Active",
               ~m_assignments'[u].appliedBeforeBoot, ~HasJob(u)'
        PROVE  disk'[u] = [source |-> m_assignments'[u].source, gain |-> m_assignments'[u].gain]
    <3>1. u \in Track \ tracks BY <1>2, <2>1
    <3> QED BY <1>1, <1>6, <2>1, <3>1 DEF QueueInv, ActiveIsChosenSong
  <2> QED BY <2>1 DEF ActiveIsChosenSong
<1>12. OriginalHasNoSource'
  <2>1. ASSUME NEW u \in Track, m_assignments'[u].state = "Original"
        PROVE  m_assignments'[u].source = None
    <3>1. CASE u \in tracks BY <1>2, <3>1
    <3>2. CASE u \notin tracks
      BY <1>1, <2>1, <3>2 DEF QueueInv, OriginalHasNoSource, Assigned
    <3> QED BY <3>1, <3>2
  <2> QED BY <2>1 DEF OriginalHasNoSource, Assigned
<1>13. SettingsSurviveRestart' BY <1>1, <1>12, SaveKeepsSettings
<1> QED BY <1>7, <1>8, <1>9, <1>10, <1>11, <1>12, <1>13 DEF QueueInv

-----------------------------------------------------------------------------
(* Update takes the head of the line. *)

\* A result changes no song and no gain, and a row is Active by it only if the file it
\* found is there and its own was still wanted.
LEMMA UpdateEffect ==
  ASSUME TypeOK, Update
  PROVE  LET t == m_inFlight.job.track
         IN  /\ t \in Track /\ IsReady
             /\ \A u \in Track \ {t} : m_assignments'[u] = m_assignments[u] /\ disk'[u] = disk[u]
             /\ m_assignments'[t].source = m_assignments[t].source
             /\ m_assignments'[t].gain = m_assignments[t].gain
             /\ m_assignments'[t].hasPac = m_assignments[t].hasPac
             /\ m_assignments'[t].state # "Converting"
             /\ m_assignments'[t].state = "Original" <=> m_assignments[t].state = "Original"
             /\ m_assignments'[t].state = "Active" =>
                  /\ m_inFlight.phase = "ok" /\ m_assignments[t].hasPac
                  /\ disk[t] # None /\ disk' = disk
<1> DEFINE t == m_inFlight.job.track
<1>1. t \in Track /\ IsReady
  BY DEF Update, IsReady, Idle, TypeOK, Job
<1>2. IF Assigned(t) THEN ApplyResult(t) ELSE DropStray(t)
  BY DEF Update
<1>3. m_assignments[t] \in Assignment BY <1>1 DEF TypeOK
<1> HIDE DEF t
<1>4. CASE Assigned(t) /\ m_inFlight.phase = "ok" /\ LooksLikeUsablePac(m_assignments[t], t)
  <2>1. /\ disk' = disk /\ disk[t] # None /\ m_assignments[t].hasPac
        /\ RedirectPointer(t)
    BY <1>2, <1>4 DEF ApplyResult, ApplyPointer, LooksLikeUsablePac
  <2>2. PICK state \in {"Active", "Failed"} :
          m_assignments' = [m_assignments EXCEPT ![t].state = state, ![t].appliedBeforeBoot = FALSE]
    BY <1>1, <2>1, RedirectEffect
  <2>3. /\ \A u \in Track : u # t => m_assignments'[u] = m_assignments[u]
        /\ m_assignments'[t] = [m_assignments[t] EXCEPT !.state = state,
                                                       !.appliedBeforeBoot = FALSE]
    BY <1>1, <2>2 DEF TypeOK
  <2> QED BY <1>1, <1>3, <1>4, <2>1, <2>3 DEF Assignment, Assigned, t
<1>5. CASE Assigned(t) /\ m_inFlight.phase = "ok" /\ ~LooksLikeUsablePac(m_assignments[t], t)
  <2>1. /\ disk' = disk
        /\ \A u \in Track : u # t => m_assignments'[u] = m_assignments[u]
        /\ m_assignments'[t] = [m_assignments[t] EXCEPT !.state = "Missing"]
    BY <1>1, <1>2, <1>5 DEF ApplyResult, ApplyPointer, TypeOK
  <2> QED BY <1>1, <1>3, <1>5, <2>1 DEF Assignment, Assigned, t
<1>6. CASE Assigned(t) /\ m_inFlight.phase # "ok"
  <2>1. /\ disk' = disk
        /\ \A u \in Track : u # t => m_assignments'[u] = m_assignments[u]
        /\ m_assignments'[t] = [m_assignments[t] EXCEPT !.state = "Failed"]
    BY <1>1, <1>2, <1>6 DEF ApplyResult, TypeOK
  <2> QED BY <1>1, <1>3, <1>6, <2>1 DEF Assignment, Assigned, t
<1>7. CASE ~Assigned(t)
  <2>1. /\ m_assignments' = m_assignments
        /\ \A u \in Track : u # t => disk'[u] = disk[u]
    BY <1>2, <1>7 DEF DropStray, TypeOK
  <2> QED BY <1>1, <1>7, <2>1 DEF Assigned, t
<1> QED BY <1>4, <1>5, <1>6, <1>7

\* The rest of the line is what was pending.
LEMMA UpdateLine ==
  ASSUME TypeOK, Update
  PROVE  /\ m_inFlight # Idle
         /\ Len(Line) = Len(m_pending) + 1 /\ Line[1] = m_inFlight.job
         /\ \A k \in 1 .. Len(m_pending) : Line[k + 1] = m_pending[k]
         /\ Len(m_pending) \in Nat
         /\ Line' = m_pending
         /\ m_inFlight' = Idle => m_pending' = <<>>
         /\ m_inFlight'.phase # "ok"
<1>1. m_inFlight # Idle
  BY DEF Update, IsReady, Idle, TypeOK
<1>2. Idle \in Flight /\ m_pending \in Seq(Job) /\ Idle.phase # "ok"
  BY LineFacts DEF Flight, Idle
<1>3. LineOf(Idle, m_pending) = m_pending BY <1>2, LineOfProperties
<1>4. /\ LineOf(m_inFlight', m_pending') = LineOf(Idle, m_pending)
      /\ m_inFlight' = Idle => m_pending' = <<>>
      /\ m_inFlight'.phase = "ok" => m_inFlight' = Idle
  BY <1>2, StartNextJobLine DEF Update
<1>5. Line' = m_pending /\ m_inFlight'.phase # "ok" BY <1>2, <1>3, <1>4 DEF Line
<1> QED BY <1>1, <1>4, <1>5, LineFacts, LenProperties

LEMMA UpdateQueue ==
  ASSUME TypeOK, TypeOK', AssignedHasSource', QueueInv, Update
  PROVE  QueueInv'
<1> DEFINE t == m_inFlight.job.track
<1>1. /\ t \in Track
      /\ \A u \in Track \ {t} : m_assignments'[u] = m_assignments[u] /\ disk'[u] = disk[u]
      /\ m_assignments'[t].source = m_assignments[t].source
      /\ m_assignments'[t].gain = m_assignments[t].gain
      /\ m_assignments'[t].hasPac = m_assignments[t].hasPac
      /\ m_assignments'[t].state # "Converting"
      /\ m_assignments'[t].state = "Original" <=> m_assignments[t].state = "Original"
      /\ m_assignments'[t].state = "Active" =>
           /\ m_inFlight.phase = "ok" /\ m_assignments[t].hasPac
           /\ disk[t] # None /\ disk' = disk
  BY UpdateEffect
<1>2. /\ Len(Line) = Len(m_pending) + 1 /\ Line[1] = m_inFlight.job
      /\ \A k \in 1 .. Len(m_pending) : Line[k + 1] = m_pending[k]
      /\ Len(m_pending) \in Nat
      /\ m_inFlight # Idle /\ Line' = m_pending
      /\ m_inFlight' = Idle => m_pending' = <<>>
      /\ m_inFlight'.phase # "ok"
  BY UpdateLine
<1>3. /\ Save
      /\ IF m_pending = <<>>
         THEN m_batchTotal' = 0 /\ m_batchDone' = 0
         ELSE m_batchDone' = m_batchDone + 1 /\ UNCHANGED m_batchTotal
  BY DEF Update
<1> HIDE DEF t
<1>4. \A u \in Track \ {t} : HasJob(u)' <=> HasJob(u)
  <2>1. SUFFICES ASSUME NEW u \in Track \ {t} PROVE JobIn(Line', u) <=> JobIn(Line, u)
    BY LineFacts, NextLineFacts
  <2>2. ASSUME NEW k \in 1 .. Len(Line'), Line'[k].track = u PROVE JobIn(Line, u)
    <3>1. k + 1 \in 1 .. Len(Line) /\ Line[k + 1] = Line'[k] BY <1>2
    <3> QED BY <2>2, <3>1 DEF JobIn
  <2>3. ASSUME NEW k \in 1 .. Len(Line), Line[k].track = u PROVE JobIn(Line', u)
    <3>1. k # 1 BY <1>2, <2>1, <2>3 DEF t
    <3>2. k - 1 \in 1 .. Len(m_pending) /\ (k - 1) + 1 = k BY <1>2, <3>1
    <3> QED BY <1>2, <2>3, <3>2 DEF JobIn
  <2> QED BY <2>2, <2>3 DEF JobIn
<1>5. ASSUME NEW u, NEW k \in 1 .. Len(Line'), LastOf(Line', u, k)
      PROVE  LastOf(Line, u, k + 1) /\ Line[k + 1] = Line'[k] /\ k + 1 \in 1 .. Len(Line)
  <2>1. k + 1 \in 1 .. Len(Line) /\ Line[k + 1] = Line'[k] BY <1>2
  <2>2. Line[k + 1].track = u BY <1>5, <2>1 DEF LastOf
  <2>3. ASSUME NEW j \in 1 .. Len(Line), j > k + 1 PROVE Line[j].track # u
    <3>1. j - 1 \in 1 .. Len(m_pending) /\ (j - 1) + 1 = j /\ j - 1 > k BY <1>2, <2>3
    <3>2. m_pending[j - 1].track # u BY <1>2, <1>5, <3>1 DEF LastOf
    <3> QED BY <1>2, <3>1, <3>2
  <2> QED BY <2>1, <2>2, <2>3 DEF LastOf
<1>6. BatchAccountsForQueue'
  <2>1. m_batchDone + Len(m_pending) + 1 <= m_batchTotal
        /\ m_batchDone \in Nat /\ m_batchTotal \in Nat
    BY <1>2, LineFacts DEF QueueInv, BatchAccountsForQueue, TypeOK
  <2>2. CASE m_pending = <<>>
    <3>1. Len(m_pending) = 0 BY <2>2
    <3> QED BY <1>2, <1>3, <2>2, <3>1, NextLineFacts DEF BatchAccountsForQueue
  <2>3. CASE m_pending # <<>>
    <3>1. Len(m_pending) # 0 BY <2>3, LineFacts, EmptySeq
    <3>2. m_batchDone' + Len(Line') <= m_batchTotal' BY <1>2, <1>3, <2>1, <2>3
    <3> QED BY <1>2, <3>1, <3>2, NextLineFacts DEF BatchAccountsForQueue
  <2> QED BY <2>2, <2>3
<1>7. ConvertingHasJob'
  <2>1. ASSUME NEW u \in Track, m_assignments'[u].state = "Converting" PROVE HasJob(u)'
    <3>1. u \in Track \ {t} BY <1>1, <2>1
    <3> QED BY <1>1, <1>4, <2>1, <3>1 DEF QueueInv, ConvertingHasJob
  <2> QED BY <2>1 DEF ConvertingHasJob
<1>8. LastIsWanted'
  <2>1. SUFFICES ASSUME NEW u \in Track, m_assignments'[u].hasPac,
                        NEW k \in 1 .. Len(Line'), LastOf(Line', u, k)
                 PROVE  Line'[k] = Wanted(u)'
    BY DEF LastIsWanted
  <2>2. Wanted(u)' = Wanted(u) /\ m_assignments[u].hasPac
    BY <1>1, <2>1 DEF Wanted
  <2> QED BY <1>5, <2>1, <2>2 DEF QueueInv, LastIsWanted
<1>9. ResultIsOfJob' BY <1>2 DEF ResultIsOfJob
<1>10. ActiveIsChosenSong'
  <2>1. SUFFICES ASSUME NEW u \in Track, m_assignments'[u].state = "Active",
                        ~m_assignments'[u].appliedBeforeBoot, ~HasJob(u)'
                 PROVE  disk'[u] = [source |-> m_assignments'[u].source,
                                    gain |-> m_assignments'[u].gain]
    BY DEF ActiveIsChosenSong
  <2>2. CASE u # t BY <1>1, <1>4, <2>1, <2>2 DEF QueueInv, ActiveIsChosenSong
  <2>3. CASE u = t
    <3>1. /\ m_inFlight.phase = "ok" /\ m_assignments[t].hasPac
          /\ disk[t] # None /\ disk' = disk
      BY <1>1, <2>1, <2>3
    <3>2. LastOf(Line, t, 1)
      <4>1. ~JobIn(m_pending, t) BY <1>1, <1>2, <2>1, <2>3, NextLineFacts
      <4>2. ASSUME NEW j \in 1 .. Len(Line), j > 1 PROVE Line[j].track # t
        <5>1. j - 1 \in 1 .. Len(m_pending) /\ (j - 1) + 1 = j BY <1>2, <4>2
        <5> QED BY <1>2, <4>1, <5>1 DEF JobIn
      <4>3. 1 \in 1 .. Len(Line) BY <1>2
      <4> QED BY <1>2, <4>2, <4>3 DEF LastOf, t
    <3>3. m_inFlight.job = Wanted(t)
      BY <1>1, <1>2, <3>1, <3>2 DEF QueueInv, LastIsWanted, LastOf
    <3>4. disk[t] \in {None, [source |-> m_inFlight.job.source, gain |-> m_inFlight.job.gain]}
      BY <3>1 DEF QueueInv, ResultIsOfJob, t
    <3> QED BY <1>1, <2>3, <3>1, <3>3, <3>4 DEF Wanted
  <2> QED BY <2>2, <2>3
<1>11. OriginalHasNoSource'
  <2>1. ASSUME NEW u \in Track, ~Assigned(u)' PROVE m_assignments'[u].source = None
    <3>1. CASE u = t BY <1>1, <2>1, <3>1 DEF QueueInv, OriginalHasNoSource, Assigned
    <3>2. CASE u # t BY <1>1, <2>1, <3>2 DEF QueueInv, OriginalHasNoSource, Assigned
    <3> QED BY <3>1, <3>2
  <2> QED BY <2>1 DEF OriginalHasNoSource
<1>12. SettingsSurviveRestart' BY <1>3, <1>11, SaveKeepsSettings
<1> QED BY <1>6, <1>7, <1>8, <1>9, <1>10, <1>11, <1>12 DEF QueueInv

-----------------------------------------------------------------------------
(* The worker, a start of the game, and what touches none of this *)

\* The file being written is that of a track with a job: no row is held to it yet.
LEMMA ConvertQueue ==
  ASSUME TypeOK, QueueInv, Convert
  PROVE  QueueInv'
<1>1. /\ m_inFlight.job \in Job
      /\ m_inFlight \in [job : Job, phase : {"running", "ok", "failed"}]
  BY DEF Convert, Idle, TypeOK
<1>2. /\ m_inFlight' # Idle /\ m_inFlight # Idle /\ m_inFlight'.job = m_inFlight.job
      /\ \A u \in Track : u # m_inFlight.job.track => disk'[u] = disk[u]
      /\ disk'[m_inFlight.job.track] =
           [source |-> m_inFlight.job.source, gain |-> m_inFlight.job.gain]
      /\ UNCHANGED <<m_assignments, m_pending, m_batchTotal, m_batchDone, ini>>
  BY <1>1 DEF Convert, Idle, TypeOK, Job
<1>3. Line' = Line BY <1>2 DEF Line, LineOf
<1>4. \A u \in Track : HasJob(u)' <=> HasJob(u) BY <1>2 DEF HasJob, JobsFor
<1>5. BatchAccountsForQueue' BY <1>2 DEF QueueInv, BatchAccountsForQueue
<1>6. ConvertingHasJob' BY <1>2, <1>4 DEF QueueInv, ConvertingHasJob
<1>7. LastIsWanted' BY <1>2, <1>3 DEF QueueInv, LastIsWanted, Wanted
<1>8. ResultIsOfJob' BY <1>2 DEF ResultIsOfJob
<1>9. ActiveIsChosenSong'
  <2>1. ASSUME NEW u \in Track, ~HasJob(u) PROVE disk'[u] = disk[u]
    BY <1>2, <2>1 DEF HasJob
  <2> QED BY <1>2, <1>4, <2>1 DEF QueueInv, ActiveIsChosenSong
<1>10. OriginalHasNoSource' /\ SettingsSurviveRestart'
  BY <1>2 DEF QueueInv, OriginalHasNoSource, Assigned, SettingsSurviveRestart
<1> QED BY <1>5, <1>6, <1>7, <1>8, <1>9, <1>10 DEF QueueInv

LEMMA ConvertFailsQueue ==
  ASSUME TypeOK, QueueInv, ConvertFails
  PROVE  QueueInv'
<1>1. m_inFlight \in [job : Job, phase : {"running", "ok", "failed"}]
  BY DEF ConvertFails, Idle, TypeOK
<1>2. /\ m_inFlight' # Idle /\ m_inFlight # Idle /\ m_inFlight'.job = m_inFlight.job
      /\ m_inFlight'.phase # "ok"
      /\ UNCHANGED <<m_assignments, m_pending, m_batchTotal, m_batchDone, disk, ini>>
  BY <1>1 DEF ConvertFails, Idle, files
<1>3. Line' = Line BY <1>2 DEF Line, LineOf
<1>4. \A u \in Track : HasJob(u)' <=> HasJob(u) BY <1>2 DEF HasJob, JobsFor
<1>5. BatchAccountsForQueue' BY <1>2 DEF QueueInv, BatchAccountsForQueue
<1>6. ConvertingHasJob' /\ ActiveIsChosenSong'
  BY <1>2, <1>4 DEF QueueInv, ConvertingHasJob, ActiveIsChosenSong
<1>7. LastIsWanted' BY <1>2, <1>3 DEF QueueInv, LastIsWanted, Wanted
<1>8. ResultIsOfJob' BY <1>2 DEF ResultIsOfJob
<1>9. OriginalHasNoSource' /\ SettingsSurviveRestart'
  BY <1>2 DEF QueueInv, OriginalHasNoSource, Assigned, SettingsSurviveRestart
<1> QED BY <1>5, <1>6, <1>7, <1>8, <1>9 DEF QueueInv

\* No job outlives the process, and every row is as the ini has it.
LEMMA RestartQueue ==
  ASSUME TypeOK, Restart
  PROVE  QueueInv'
<1>1. PICK gone \in SUBSET Track :
        LET kept == [t \in Track |-> IF t \in gone THEN None ELSE disk[t]]
        IN  disk' = kept /\ Initialize(kept) /\ UNCHANGED <<ini, songs>>
  BY DEF Restart
<1> DEFINE kept == [t \in Track |-> IF t \in gone THEN None ELSE disk[t]]
<1>2. Initialize(kept) /\ UNCHANGED ini BY <1>1
<1> HIDE DEF kept
<1>3. /\ m_pending' = <<>> /\ m_inFlight' = Idle /\ m_batchTotal' = 0 /\ m_batchDone' = 0
      /\ \E refused : m_assignments' = [t \in Track |-> Restored(ini[t], kept[t], t \in refused)]
  BY <1>2 DEF Initialize
<1>4. ASSUME NEW t \in Track
      PROVE  /\ ini[t] = None => /\ m_assignments'[t].state = "Original"
                                 /\ m_assignments'[t].source = None
                                 /\ ~m_assignments'[t].hasPac
             /\ ini[t] # None =>
                  /\ m_assignments'[t].state \in {"Active", "Missing", "Failed"}
                  /\ m_assignments'[t].state = "Active" => m_assignments'[t].appliedBeforeBoot
                  /\ [source |-> m_assignments'[t].source,
                      gain |-> m_assignments'[t].gain] = ini[t]
  <2>1. ini[t] \in Song \cup {None} BY DEF TypeOK
  <2>4. PICK refused : m_assignments'[t] = Restored(ini[t], kept[t], t \in refused)
    BY <1>3, Zenon
  <2>2. CASE ini[t] = None
    <3>1. m_assignments'[t] = Blank BY <2>2, <2>4 DEF Restored
    <3> QED BY <2>2, <3>1 DEF Blank
  <2>3. CASE ini[t] # None
    <3> DEFINE state == IF kept[t] = None THEN "Missing"
                        ELSE IF t \in refused THEN "Failed" ELSE "Active"
    <3>1. m_assignments'[t] =
            [state |-> state, source |-> ini[t].source, gain |-> ini[t].gain,
             hasPac |-> TRUE, appliedBeforeBoot |-> kept[t] # None]
      BY <2>3, <2>4 DEF Restored
    <3>5. state \in {"Active", "Missing", "Failed"} /\ (state = "Active" => kept[t] # None)
      OBVIOUS
    <3> HIDE DEF state
    <3>2. ini[t] = [source |-> ini[t].source, gain |-> ini[t].gain] BY <2>1, <2>3 DEF Song
    <3>3. /\ m_assignments'[t].state = state
          /\ m_assignments'[t].source = ini[t].source
          /\ m_assignments'[t].gain = ini[t].gain
      BY <3>1
    <3>4. ASSUME kept[t] # None PROVE m_assignments'[t].appliedBeforeBoot
      <4>1. (kept[t] # None) = TRUE BY <3>4
      <4>2. m_assignments'[t] =
              [state |-> state, source |-> ini[t].source, gain |-> ini[t].gain,
               hasPac |-> TRUE, appliedBeforeBoot |-> TRUE]
        BY <3>1, <4>1, Zenon
      <4> QED BY <4>2
    <3> QED BY <2>3, <3>2, <3>3, <3>4, <3>5
  <2> QED BY <2>2, <2>3
<1>5. Line' = <<>> /\ Len(Line') = 0
  <2>1. <<>> \in Seq(Job) /\ Idle \in Flight BY DEF Flight
  <2>2. LineOf(Idle, <<>>) = <<>> BY <2>1, LineOfProperties
  <2> QED BY <1>3, <2>2 DEF Line
<1>6. BatchAccountsForQueue'
  <2>1. Len(m_pending') = 0 BY <1>3
  <2> QED BY <1>3, <2>1 DEF BatchAccountsForQueue
<1>7. ConvertingHasJob' /\ ActiveIsChosenSong'
  BY <1>4 DEF ConvertingHasJob, ActiveIsChosenSong
<1>8. LastIsWanted' BY <1>5 DEF LastIsWanted
<1>9. ResultIsOfJob' BY <1>3 DEF ResultIsOfJob, Idle
<1>10. OriginalHasNoSource' /\ SettingsSurviveRestart'
  BY <1>2, <1>4 DEF OriginalHasNoSource, Assigned, SettingsSurviveRestart
<1> QED BY <1>6, <1>7, <1>8, <1>9, <1>10 DEF QueueInv

LEMMA QueueUnchanged ==
  ASSUME QueueInv, UNCHANGED <<m_assignments, m_pending, m_inFlight, m_batchTotal, m_batchDone,
                               disk, ini>>
  PROVE  QueueInv'
<1>1. Line' = Line BY DEF Line
<1>2. \A u \in Track : HasJob(u)' <=> HasJob(u) BY DEF HasJob, JobsFor
<1>3. BatchAccountsForQueue' BY DEF QueueInv, BatchAccountsForQueue
<1>4. ConvertingHasJob' /\ ActiveIsChosenSong'
  BY <1>2 DEF QueueInv, ConvertingHasJob, ActiveIsChosenSong
<1>5. LastIsWanted' BY <1>1 DEF QueueInv, LastIsWanted, Wanted
<1>6. ResultIsOfJob' BY DEF QueueInv, ResultIsOfJob
<1>7. OriginalHasNoSource' /\ SettingsSurviveRestart'
  BY DEF QueueInv, OriginalHasNoSource, Assigned, SettingsSurviveRestart
<1> QED BY <1>3, <1>4, <1>5, <1>6, <1>7 DEF QueueInv

-----------------------------------------------------------------------------
LEMMA QueueStep ==
  ASSUME TypeOK, TypeOK', PointerInv, PointerInv', QueueInv, [Next]_vars
  PROVE  QueueInv'
<1> USE DEF PointerInv
<1>1. ASSUME NEW t \in Track, Retry(t)
      PROVE  QueueInv'
  <2>1. m_assignments[t].source \in Source /\ m_assignments[t].gain \in Gain
    BY <1>1 DEF Retry, AssignedHasSource, Assigned, TypeOK, Assignment
  <2> QED BY <1>1, <2>1, AssignQueue DEF Retry
<1>2. ASSUME NEW t \in Track, NEW gain \in Gain, SetGainDb(t, gain)
      PROVE  QueueInv'
  <2>1. m_assignments[t].source \in Source
    BY <1>2 DEF SetGainDb, AssignedHasSource, Assigned
  <2> QED BY <1>2, <2>1, AssignQueue DEF SetGainDb
<1>3. ASSUME NEW t \in Track, AssignFromVanilla(t)
      PROVE  QueueInv'
  <2>1. vanillaFor \in Track /\ t \in Source
    BY <1>3 DEF AssignFromVanilla, Source, TypeOK
  <2> QED BY <1>3, <2>1, CarriedGainType, AssignQueue DEF AssignFromVanilla
<1>4. ASSUME NEW s \in UserSource, PollPicker(s)
      PROVE  QueueInv'
  <2>1. picker \in Track /\ s \in Source
    BY <1>4 DEF PollPicker, Source, TypeOK
  <2> QED BY <1>4, <2>1, CarriedGainType, AssignQueue DEF PollPicker
<1>5. ASSUME (\E t \in Track : Unassign(t)) \/ UnassignAll
      PROVE  QueueInv'
  <2>1. PICK tracks \in SUBSET Track : Undo(tracks)
    BY <1>5 DEF Unassign, UnassignAll
  <2> QED BY <2>1, UndoQueue
<1>6. CASE Update BY <1>6, UpdateQueue
<1>7. CASE Convert BY <1>7, ConvertQueue
<1>8. CASE ConvertFails BY <1>8, ConvertFailsQueue
<1>9. CASE Restart BY <1>9, RestartQueue
<1>10. ASSUME NEW t \in Track, OpenPickerFor(t) \/ OpenVanillaModal(t)
       PROVE  QueueInv'
  BY <1>10, QueueUnchanged DEF OpenPickerFor, OpenVanillaModal, jobs, files
<1>11. ASSUME NEW s \in UserSource, SongRemoved(s)
       PROVE  QueueInv'
  BY <1>11, QueueUnchanged DEF SongRemoved, jobs
<1>12. CASE CancelPicker \/ CancelVanillaModal \/ UNCHANGED vars
  BY <1>12, QueueUnchanged DEF CancelPicker, CancelVanillaModal, jobs, files, vars
<1> QED
  BY <1>1, <1>2, <1>3, <1>4, <1>5, <1>6, <1>7, <1>8, <1>9, <1>10, <1>11, <1>12
  DEF Next, RowAction

LEMMA InitQueue == Init => QueueInv
<1> SUFFICES ASSUME Init PROVE QueueInv
  OBVIOUS
<1>1. /\ m_pending = <<>> /\ m_inFlight = Idle /\ m_batchTotal = 0 /\ m_batchDone = 0
      /\ \A t \in Track : /\ m_assignments[t].state = "Original" /\ ~m_assignments[t].hasPac
                          /\ m_assignments[t].source = None /\ ini[t] = None
  BY DEF Init, Blank
<1>2. Len(m_pending) = 0 BY <1>1
<1>3. BatchAccountsForQueue BY <1>1, <1>2 DEF BatchAccountsForQueue
<1>4. ConvertingHasJob /\ ActiveIsChosenSong /\ LastIsWanted /\ OriginalHasNoSource
      /\ SettingsSurviveRestart
  BY <1>1 DEF ConvertingHasJob, ActiveIsChosenSong, LastIsWanted, OriginalHasNoSource,
              SettingsSurviveRestart
<1>5. ResultIsOfJob BY <1>1 DEF ResultIsOfJob, Idle
<1> QED BY <1>3, <1>4, <1>5 DEF QueueInv

\* In every reachable state the queue is as its counters and its rows say.
THEOREM QueueInvariance == Spec => []QueueInv
<1>1. Init => TypeOK /\ PointerInv /\ QueueInv
  BY InitInv, InitQueue
<1>2. TypeOK /\ PointerInv /\ QueueInv /\ [Next]_vars => (TypeOK /\ PointerInv /\ QueueInv)'
  <2> SUFFICES ASSUME TypeOK, PointerInv, QueueInv, [Next]_vars
               PROVE  TypeOK' /\ PointerInv' /\ QueueInv'
    OBVIOUS
  <2>1. TypeOK' BY TypeStep DEF PointerInv
  <2>2. PointerInv' BY PointerStep
  <2>3. QueueInv' BY <2>1, <2>2, QueueStep
  <2> QED BY <2>1, <2>2, <2>3
<1> QED BY <1>1, <1>2, PTL DEF Spec

\* The progress bar never counts fewer conversions than are still to come, it is cleared
\* when the queue is dry, and the worker is never idle while a job waits.
THEOREM BatchIsAccounted == Spec => []BatchAccountsForQueue
<1>1. QueueInv => BatchAccountsForQueue BY DEF QueueInv
<1> QED BY <1>1, QueueInvariance, PTL

\* A row that says it is converting has a job that will end it.
THEOREM ConvertingRowsHaveJobs == Spec => []ConvertingHasJob
<1>1. QueueInv => ConvertingHasJob BY DEF QueueInv
<1> QED BY <1>1, QueueInvariance, PTL

\* However often a row was assigned again, undone or cancelled while earlier conversions
\* of it were under way, it plays in the end the song and gain it shows.
THEOREM ChosenSongPlays == Spec => []ActiveIsChosenSong
<1>1. QueueInv => ActiveIsChosenSong BY DEF QueueInv
<1> QED BY <1>1, QueueInvariance, PTL

\* The process may end at any moment: what is in effect is in the ini.
THEOREM SettingsArePersistent == Spec => []SettingsSurviveRestart
<1>1. QueueInv => SettingsSurviveRestart BY DEF QueueInv
<1> QED BY <1>1, QueueInvariance, PTL

-----------------------------------------------------------------------------
(* Nobody is overtaken *)

\* Counted from 0, the places a track waits at are its jobs in the line.
PlacesIn(line, t) == {k \in Nat : k + 1 \in 1 .. Len(line) /\ line[k + 1].track = t}

LEMMA PlacesOfLine ==
  ASSUME NEW flight \in Flight, NEW pending \in Seq(Job), NEW t,
         flight = Idle => pending = <<>>
  PROVE  {k \in 1 .. Len(pending) : pending[k].track = t}
           \cup (IF flight # Idle /\ flight.job.track = t THEN {0} ELSE {})
           = PlacesIn(LineOf(flight, pending), t)
<1> DEFINE line == LineOf(flight, pending)
<1>1. Len(pending) \in Nat BY LenProperties
<1>2. CASE flight = Idle
  <2>1. line = <<>> /\ pending = <<>> BY <1>2, LineOfProperties
  <2> HIDE DEF line
  <2> QED BY <1>2, <2>1 DEF PlacesIn, line
<1>3. CASE flight # Idle
  <2>1. /\ Len(line) = Len(pending) + 1 /\ line[1] = flight.job
        /\ \A k \in 1 .. Len(pending) : line[k + 1] = pending[k]
    BY <1>3, LineOfProperties
  <2> HIDE DEF line
  <2>2. \A k \in 1 .. Len(pending) : k \in Nat /\ k + 1 \in 1 .. Len(line) BY <1>1, <2>1
  <2>3. \A k \in Nat : k + 1 \in 1 .. Len(line) => k = 0 \/ k \in 1 .. Len(pending)
    BY <1>1, <2>1
  <2>4. 0 \in Nat /\ 0 + 1 \in 1 .. Len(line) /\ line[0 + 1] = flight.job BY <1>1, <2>1
  <2> QED BY <1>3, <2>1, <2>2, <2>3, <2>4 DEF PlacesIn, line
<1> QED BY <1>2, <1>3

LEMMA PlacesInLine ==
  ASSUME TypeOK, BatchAccountsForQueue, NEW t
  PROVE  Places(t) = PlacesIn(Line, t)
BY LineFacts, PlacesOfLine DEF Places, JobsFor, Line, BatchAccountsForQueue

LEMMA NextPlacesInLine ==
  ASSUME TypeOK', BatchAccountsForQueue', NEW t
  PROVE  Places(t)' = PlacesIn(Line', t)
BY NextLineFacts, PlacesOfLine DEF Places, JobsFor, Line, BatchAccountsForQueue

\* A job that kept its order when others were taken out is nowhere behind its old place:
\* there are no i numbers below the old place if that is less than i.
LEMMA ShortenedMovesUp ==
  ASSUME NEW shorter \in Seq(Job), NEW longer \in Seq(Job), NEW tracks, NEW f,
         Shortened(shorter, longer, tracks, f), NEW i \in 1 .. Len(shorter)
  PROVE  i <= f[i]
<1>1. Len(shorter) \in Nat /\ Len(longer) \in Nat BY LenProperties
<1>2. /\ \A j \in 1 .. Len(shorter) : f[j] \in 1 .. Len(longer)
      /\ \A j, k \in 1 .. Len(shorter) : j < k => f[j] < f[k]
  BY DEF Shortened
<1>3. f[i] \in Nat BY <1>1, <1>2
<1> SUFFICES ASSUME f[i] < i PROVE FALSE
  BY <1>1, <1>3
<1> DEFINE S == 1 .. i
           T == 1 .. f[i]
           g == [j \in S |-> f[j]]
<1>4. IsFiniteSet(S) /\ Cardinality(S) = i /\ IsFiniteSet(T) /\ Cardinality(T) = f[i]
  <2>1. \A n \in Nat : IsFiniteSet(1 .. n) /\ Cardinality(1 .. n) = n BY FS_Interval
  <2>2. i \in Nat BY <1>1
  <2> QED BY <1>3, <2>1, <2>2
<1>5. \A j \in S : j \in 1 .. Len(shorter) /\ f[j] \in T
  <2>1. TAKE j \in S
  <2>2. j \in 1 .. Len(shorter) BY <1>1
  <2>3. f[j] \in 1 .. Len(longer) BY <1>2, <2>2
  <2>4. j = i \/ f[j] < f[i] BY <1>2, <2>2
  <2> QED BY <1>1, <1>3, <2>2, <2>3, <2>4
<1>6. g \in [S -> T] BY <1>5
<1>7. \A j \in S : g[j] = f[j] OBVIOUS
<1>8. \A j, k \in S : j # k => f[j] # f[k]
  <2>1. SUFFICES ASSUME NEW j \in S, NEW k \in S, j # k PROVE f[j] # f[k]
    OBVIOUS
  <2>2. f[j] \in Int /\ f[k] \in Int
    <3>1. f[j] \in 1 .. Len(longer) /\ f[k] \in 1 .. Len(longer) BY <1>2, <1>5
    <3> QED BY <1>1, <3>1
  <2>3. j < k \/ k < j BY <1>1, <2>1
  <2> QED BY <1>2, <1>5, <2>2, <2>3
<1>9. Cardinality(T) < Cardinality(S) BY <1>4
<1> HIDE DEF S, T, g
<1>10. \E j, k \in S : j # k /\ g[j] = g[k] BY <1>4, <1>6, <1>9, FS_PigeonHole
<1> QED BY <1>7, <1>8, <1>10

LEMMA WaitingRowAdvances ==
  ASSUME TypeOK, TypeOK', PointerInv, QueueInv, QueueInv', [Next]_vars, NEW t \in Track,
         m_assignments[t].state = "Converting", m_assignments'[t].state = "Converting",
         NEW k \in Places(t)
  PROVE  \E j \in Places(t)' : j <= k /\ (Update => j < k)
<1>1. Places(t) = PlacesIn(Line, t) /\ Places(t)' = PlacesIn(Line', t)
  BY PlacesInLine, NextPlacesInLine DEF QueueInv
<1>2. k \in Nat /\ k + 1 \in 1 .. Len(Line) /\ Line[k + 1].track = t
  BY <1>1 DEF PlacesIn
<1>3. Len(Line) \in Nat /\ Len(Line') \in Nat
  <2>1. Line \in Seq(Job) /\ Line' \in Seq(Job) BY LineFacts, NextLineFacts
  <2> QED BY <2>1, LenProperties
<1>4. CASE Update
  <2>1. m_inFlight.job.track # t
    <3>1. m_assignments'[m_inFlight.job.track].state # "Converting" BY <1>4, UpdateEffect
    <3> QED BY <3>1
  <2>2. /\ Len(Line) = Len(m_pending) + 1 /\ Line[1] = m_inFlight.job
        /\ \A j \in 1 .. Len(m_pending) : Line[j + 1] = m_pending[j]
        /\ Len(m_pending) \in Nat /\ Line' = m_pending
    BY <1>4, UpdateLine
  <2>3. k # 0 BY <1>2, <2>1, <2>2
  <2>4. k \in 1 .. Len(m_pending) /\ k - 1 \in Nat /\ (k - 1) + 1 = k /\ k - 1 < k
    BY <1>2, <2>2, <2>3
  <2>5. k - 1 \in PlacesIn(Line', t) BY <1>2, <2>2, <2>4 DEF PlacesIn
  <2> QED BY <1>1, <2>4, <2>5
<1>5. ASSUME Line' = Line, ~Update PROVE \E j \in Places(t)' : j <= k
  BY <1>1, <1>2, <1>5
<1>6. ASSUME NEW u \in Track, NEW s \in Source, NEW gain \in Gain, Assign(u, s, gain), ~Update
      PROVE  \E j \in Places(t)' : j <= k
  <2>1. CASE QueueConversion(u, s, gain)
    <3>1. Len(Line') = Len(Line) + 1 /\ \A j \in 1 .. Len(Line) : Line'[j] = Line[j]
      BY <2>1, QueueConversionLine
    <3>2. k + 1 \in 1 .. Len(Line') /\ Line'[k + 1] = Line[k + 1] BY <1>2, <1>3, <3>1
    <3>3. k \in PlacesIn(Line', t) BY <1>2, <3>2 DEF PlacesIn
    <3>4. k <= k BY <1>2
    <3> QED BY <1>1, <3>3, <3>4
  <2>2. CASE RejectAssign(u, s)
    <3>1. Line' = Line BY <2>2 DEF RejectAssign, jobs, Line
    <3> QED BY <1>5, <1>6, <3>1
  <2> QED BY <1>6, <2>1, <2>2 DEF Assign
<1>7. ASSUME NEW tracks \in SUBSET Track, Undo(tracks)
      PROVE  \E j \in Places(t)' : j <= k
  <2>1. t \notin tracks
    <3>1. t \in tracks => m_assignments'[t].state = "Original" BY <1>7 DEF Undo, Blank
    <3> QED BY <3>1
  <2>2. PICK g : Shortened(Line', Line, tracks, g) BY <1>7, UndoLine DEF Undo
  <2>3. PICK i \in 1 .. Len(Line') : g[i] = k + 1 BY <1>2, <2>1, <2>2 DEF Shortened
  <2>4. i <= k + 1 BY <2>2, <2>3, LineFacts, NextLineFacts, ShortenedMovesUp
  <2>5. Line'[i].track = t BY <1>2, <2>2, <2>3 DEF Shortened
  <2>6. i - 1 \in Nat /\ (i - 1) + 1 = i /\ i - 1 <= k BY <1>2, <1>3, <2>4
  <2>7. i - 1 \in PlacesIn(Line', t) BY <2>5, <2>6 DEF PlacesIn
  <2> QED BY <1>1, <2>6, <2>7
<1> SUFFICES ASSUME ~Update PROVE \E j \in Places(t)' : j <= k
  BY <1>4
<1>8. ASSUME NEW u \in Track, Retry(u) PROVE \E j \in Places(t)' : j <= k
  <2>1. m_assignments[u].source \in Source /\ m_assignments[u].gain \in Gain
    BY <1>8 DEF Retry, PointerInv, AssignedHasSource, Assigned, TypeOK, Assignment
  <2> QED BY <1>6, <1>8, <2>1 DEF Retry
<1>9. ASSUME NEW u \in Track, NEW gain \in Gain, SetGainDb(u, gain)
      PROVE  \E j \in Places(t)' : j <= k
  <2>1. m_assignments[u].source \in Source
    BY <1>9 DEF SetGainDb, PointerInv, AssignedHasSource, Assigned
  <2> QED BY <1>6, <1>9, <2>1 DEF SetGainDb
<1>10. ASSUME NEW s \in Track, AssignFromVanilla(s) PROVE \E j \in Places(t)' : j <= k
  <2>1. vanillaFor \in Track /\ s \in Source BY <1>10 DEF AssignFromVanilla, Source, TypeOK
  <2> QED BY <1>6, <1>10, <2>1, CarriedGainType DEF AssignFromVanilla
<1>11. ASSUME NEW s \in UserSource, PollPicker(s) PROVE \E j \in Places(t)' : j <= k
  <2>1. picker \in Track /\ s \in Source BY <1>11 DEF PollPicker, Source, TypeOK
  <2> QED BY <1>6, <1>11, <2>1, CarriedGainType DEF PollPicker
<1>12. ASSUME (\E u \in Track : Unassign(u)) \/ UnassignAll PROVE \E j \in Places(t)' : j <= k
  <2>1. PICK tracks \in SUBSET Track : Undo(tracks) BY <1>12 DEF Unassign, UnassignAll
  <2> QED BY <1>7, <2>1
<1>13. CASE Convert \/ ConvertFails
  <2>1. m_inFlight \in [job : Job, phase : {"running", "ok", "failed"}]
    BY <1>13 DEF Convert, ConvertFails, Idle, TypeOK
  <2>2. m_inFlight # Idle /\ m_inFlight' # Idle /\ m_inFlight'.job = m_inFlight.job
        /\ m_pending' = m_pending
    BY <1>13, <2>1 DEF Convert, ConvertFails, Idle
  <2>3. Line' = Line BY <2>2 DEF Line, LineOf
  <2> QED BY <1>5, <2>3
<1>14. CASE Restart
  <2>1. PICK kept : Initialize(kept) BY <1>14 DEF Restart
  <2>2. PICK refused : m_assignments' = [u \in Track |-> Restored(ini[u], kept[u], u \in refused)]
    BY <2>1 DEF Initialize
  <2>3. m_assignments'[t] = Restored(ini[t], kept[t], t \in refused) BY <2>2, Zenon
  <2>4. Restored(ini[t], kept[t], t \in refused).state # "Converting" BY DEF Restored, Blank
  <2> QED BY <2>3, <2>4
<1>15. ASSUME UNCHANGED <<m_inFlight, m_pending>> PROVE \E j \in Places(t)' : j <= k
  BY <1>5, <1>15 DEF Line
<1>16. ASSUME NEW u \in Track, OpenPickerFor(u) \/ OpenVanillaModal(u)
       PROVE  \E j \in Places(t)' : j <= k
  BY <1>15, <1>16 DEF OpenPickerFor, OpenVanillaModal, jobs
<1>17. ASSUME NEW s \in UserSource, SongRemoved(s) PROVE \E j \in Places(t)' : j <= k
  BY <1>15, <1>17 DEF SongRemoved, jobs
<1>18. CASE CancelPicker \/ CancelVanillaModal \/ UNCHANGED vars
  BY <1>15, <1>18 DEF CancelPicker, CancelVanillaModal, jobs, vars
<1> QED
  BY <1>8, <1>9, <1>10, <1>11, <1>12, <1>13, <1>14, <1>16, <1>17, <1>18 DEF Next, RowAction

\* A row that stays at "please wait" is never put back in the line, and every result that is
\* retired brings it nearer: with any number of rows waiting, songs queued and rows undone.
THEOREM WaitingRowsMoveUp == Spec => WaitingRowsAdvance
<1>1. TypeOK /\ TypeOK' /\ PointerInv /\ QueueInv /\ QueueInv' /\ [Next]_vars =>
        [\A t \in Track :
           m_assignments[t].state = "Converting" /\ m_assignments'[t].state = "Converting" =>
             \A k \in Places(t) : \E j \in Places(t)' : j <= k /\ (Update => j < k)]_vars
  BY WaitingRowAdvances
<1>2. Spec => [](TypeOK /\ PointerInv) /\ []QueueInv /\ [][Next]_vars
  BY Invariance, QueueInvariance DEF Spec
<1> QED BY <1>1, <1>2, PTL DEF WaitingRowsAdvance
=============================================================================
