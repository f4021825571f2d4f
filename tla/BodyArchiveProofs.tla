--------------------------- MODULE BodyArchiveProofs ---------------------------
(***************************************************************************)
(* Proofs about BodyArchive and, where nothing keeps jobs of different     *)
(* processes apart, about BodyOverlap.                                     *)
(***************************************************************************)
EXTENDS BodyOverlap, TLAPS

USE ArchiveAssumption

\* An empty file's table is a table of rows.
LEMMA NoRowsType == NoRows \in RowSet
BY DEF NoRows, NoRow, RowSet

\* A process at rest is a job record.
LEMMA NoJobType == NoJob \in Job
BY NoRowsType DEF NoJob, Job, PCs, AnyDay, MaybeFile

\* The first state is well typed.
LEMMA TypeInit == Init => TypeOK
BY NoJobType, NoRowsType DEF Init, TypeOK, RowSet, MaybeFile

\* A collection of any events' days is a job record.
LEMMA CollectingType ==
    ASSUME NEW S \in SUBSET Events
    PROVE  Collecting(S) \in Job
BY NoJobType DEF Collecting, NoJob, Job, PCs, CollectPCs

\* Ending an archiver run, into a collection or at rest, keeps the job records.
LEMMA RunOverType ==
    ASSUME TypeOK, NEW p \in Procs, RunOver(p)
    PROVE  job' \in [Procs -> Job]
<1>1. Collecting({}) \in Job
  BY CollectingType
<1>. QED BY <1>1, NoJobType DEF RunOver, TypeOK

\* The job that turns to its next batch is a job record.
LEMMA NextBatchType ==
    ASSUME TypeOK, NEW p \in Procs
    PROVE  NextBatch(p) \in Job
BY NoJobType DEF TypeOK, NextBatch, Job, PCs, ArchivePCs

\* What the components of a well-typed state are.
LEMMA JobParts ==
    ASSUME TypeOK, NEW p \in Procs
    PROVE  /\ job[p] \in Job
           /\ job[p].day \in Days
           /\ job[p].fd \in MaybeFile
           /\ job[p].ids \in SUBSET Events
           /\ job[p].rows \in RowSet
<1>1. job[p] \in Job
  BY DEF TypeOK
<1>. QED BY <1>1 DEF Job

\* A process's handle of a day is a file or none.
LEMMA CacheParts ==
    ASSUME TypeOK, NEW p \in Procs, NEW d \in Days
    PROVE  cache[p][d] \in MaybeFile
<1>1. cache[p] \in [Days -> MaybeFile]
  BY DEF TypeOK
<1>. QED BY <1>1

\* Each event's hot columns, marker and file rows are sets of columns.
LEMMA RowParts ==
    ASSUME TypeOK, NEW e \in Events
    PROVE  /\ hot[e] \in SUBSET Cols
           /\ marker[e] \in SUBSET Cols
           /\ \A i \in Inodes : data[i] \in RowSet /\ data[i][e] \in SUBSET Cols
<1>1. hot \in RowSet /\ marker \in RowSet /\ \A i \in Inodes : data[i] \in RowSet
  BY DEF TypeOK
<1>. QED BY <1>1 DEF RowSet

\* Caching a handle keeps the caches well typed.
LEMMA CacheType ==
    ASSUME TypeOK, NEW p \in Procs, NEW d \in Days, NEW i \in MaybeFile,
           cache' = [cache EXCEPT ![p][d] = i]
    PROVE  cache' \in [Procs -> [Days -> MaybeFile]]
<1>1. cache[p] \in [Days -> MaybeFile]
  BY DEF TypeOK
<1>2. [cache[p] EXCEPT ![d] = i] \in [Days -> MaybeFile]
  BY <1>1
<1>3. cache' = [cache EXCEPT ![p] = [cache[p] EXCEPT ![d] = i]]
  OBVIOUS
<1>. QED BY <1>2, <1>3 DEF TypeOK

\* Opening or creating a day file keeps the directory and the files typed.
LEMMA OpensAsType ==
    ASSUME TypeOK, NEW d \in Days, NEW i \in Inodes, OpensAs(d, i)
    PROVE  dirent' \in [Days -> MaybeFile] /\ data' \in [Inodes -> RowSet]
BY NoRowsType DEF OpensAs, TypeOK, MaybeFile

\* Each step of the archiver keeps the types.
LEMMA TypeArchive ==
    ASSUME TypeOK, NEW p \in Procs, ArchiveStep(p)
    PROVE  TypeOK'
<1>. USE DEF rowVars, fileVars
<1>0. job[p] \in Job /\ NextBatch(p) \in Job
  BY NextBatchType DEF TypeOK
<1>1. CASE SelectBatch(p)
  <2>1. PICK first \in Candidates(p), last \in Candidates(p) :
          job' = [job EXCEPT ![p] =
                    [@ EXCEPT !.pc = "read", !.cur = last, !.day = DayOf[first],
                              !.ids = {e \in Candidates(p) : e <= last}]]
    BY <1>1 DEF SelectBatch, TakeBatch
  <2>2. Candidates(p) \subseteq Events
    BY DEF Candidates, Live
  <2>3. last \in 0..NumEvents /\ DayOf[first] \in Days
    BY <2>2 DEF Events
  <2>4. {e \in Candidates(p) : e <= last} \in SUBSET Events
    BY <2>2
  <2>5. job' \in [Procs -> Job]
    BY <1>0, <2>1, <2>3, <2>4 DEF TypeOK, Job, PCs, ArchivePCs
  <2>. QED BY <1>1, <2>5 DEF SelectBatch, TypeOK
<1>2. CASE NoCandidates(p)
  BY <1>2, RunOverType DEF NoCandidates, TypeOK
<1>3. CASE ReadBodies(p)
  <2>. DEFINE got == {e \in job[p].ids : hot[e] # {}}
              copy == [e \in Events |-> IF e \in got THEN hot[e] ELSE NoRow]
  <2>1. got \in SUBSET Events /\ copy \in RowSet
    BY JobParts, RowParts DEF NoRow, RowSet
  <2>. HIDE DEF got, copy
  <2>2. [job[p] EXCEPT !.pc = "open", !.ids = got, !.rows = copy] \in Job
    BY <1>0, <2>1 DEF Job, PCs, ArchivePCs
  <2>3. job' \in [Procs -> Job]
    BY <1>0, <1>3, <2>2 DEF ReadBodies, TypeOK, got, copy
  <2>. QED BY <1>3, <2>3 DEF ReadBodies, TypeOK
<1>4. CASE OpenDay(p)
  <2>1. PICK i \in Inodes :
          /\ OpensAs(job[p].day, i)
          /\ table' = table \cup {i}
          /\ job' = [job EXCEPT ![p] = [@ EXCEPT !.pc = "commit", !.fd = i]]
    BY <1>4 DEF OpenDay
  <2>2. dirent' \in [Days -> MaybeFile] /\ data' \in [Inodes -> RowSet]
    BY <2>1, OpensAsType, JobParts
  <2>3. job' \in [Procs -> Job]
    BY <1>0, <2>1 DEF TypeOK, Job, PCs, ArchivePCs, MaybeFile
  <2>. QED BY <1>4, <2>1, <2>2, <2>3 DEF OpenDay, TypeOK
<1>5. CASE CommitDay(p)
  <2>. DEFINE i == job[p].fd
              new == [e \in Events |-> IF e \in job[p].ids
                                       THEN Upsert(data[i][e], job[p].rows[e])
                                       ELSE data[i][e]]
  <2>1. job' \in [Procs -> Job]
    BY <1>0, <1>5 DEF CommitDay, TypeOK, Job, PCs, ArchivePCs, MaybeFile
  <2>2. i \in Inodes => new \in RowSet
    BY JobParts, RowParts DEF Upsert, RowSet
  <2>3. data' = [data EXCEPT ![i] = new]
    BY <1>5 DEF CommitDay
  <2>. HIDE DEF i, new
  <2>4. data' \in [Inodes -> RowSet]
    BY <2>2, <2>3 DEF TypeOK
  <2>. QED BY <1>5, <2>1, <2>4 DEF CommitDay, TypeOK
<1>6. CASE ReadMasks(p)
  <2>. DEFINE i == Handle(p, job[p].day)
              masks == [e \in Events |-> IF e \in job[p].ids THEN data[i][e] ELSE NoRow]
  <2>1. i \in MaybeFile
    BY JobParts, CacheParts DEF Handle, TypeOK
  <2>2. cache' \in [Procs -> [Days -> MaybeFile]]
    BY <1>6, <2>1, CacheType, JobParts DEF ReadMasks, TypeOK
  <2>3. CASE RunOver(p)
    BY <1>6, <2>2, <2>3, RunOverType DEF ReadMasks, TypeOK
  <2>4. CASE ~RunOver(p)
    <3>1. i \in Inodes
      BY <1>6, <2>1, <2>4 DEF ReadMasks, MaybeFile
    <3>2. masks \in RowSet
      BY <3>1, RowParts DEF NoRow, RowSet
    <3>3. job' = [job EXCEPT ![p] = [@ EXCEPT !.pc = "clear", !.rows = masks]]
      BY <1>6, <2>4 DEF ReadMasks
    <3>. HIDE DEF masks
    <3>4. job' \in [Procs -> Job]
      BY <1>0, <3>2, <3>3 DEF TypeOK, Job, PCs, ArchivePCs
    <3>. QED BY <1>6, <2>2, <3>4 DEF ReadMasks, TypeOK
  <2>. QED BY <2>3, <2>4
<1>7. CASE MarkAndClear(p)
  <2>2. job' \in [Procs -> Job]
    BY <1>0, <1>7, RunOverType DEF MarkAndClear, Cleared, TypeOK
  <2>3. hot' \in RowSet /\ marker' \in RowSet
    <3>1. CASE UNCHANGED <<marker, hot>>
      BY <3>1 DEF TypeOK
    <3>2. CASE ~UNCHANGED <<marker, hot>>
      <4>. DEFINE found == {e \in job[p].ids : job[p].rows[e] # {}}
      <4>1. /\ marker' = [e \in Events |-> IF e \in found THEN marker[e] \cup job[p].rows[e]
                                                           ELSE marker[e]]
            /\ hot' = [e \in Events |-> IF e \in found THEN hot[e] \ job[p].rows[e] ELSE hot[e]]
        BY <1>7, <3>2 DEF MarkAndClear, Cleared
      <4>. HIDE DEF found
      <4>. QED BY <4>1, JobParts, RowParts DEF RowSet
    <3>. QED BY <3>1, <3>2
  <2>. QED BY <1>7, <2>2, <2>3 DEF MarkAndClear, Cleared, TypeOK
<1>. QED BY <1>1, <1>2, <1>3, <1>4, <1>5, <1>6, <1>7 DEF ArchiveStep

\* Each step of a collection keeps the types.
LEMMA TypeCollect ==
    ASSUME TypeOK, NEW p \in Procs, CollectStep(p)
    PROVE  TypeOK'
<1>. USE DEF rowVars, fileVars
<1>0. job[p] \in Job
  BY DEF TypeOK
<1>1. CASE GCDone(p)
  BY <1>1, NoJobType DEF GCDone, TypeOK
<1>2. CASE GCOpen(p)
  <2>1. PICK d \in job[p].days, i \in Inodes :
          /\ OpensAs(d, i)
          /\ table' = IF dirent[d] = i /\ i \in table THEN table ELSE table \ {i}
          /\ cache' = [cache EXCEPT ![p][d] = NoFile]
          /\ job' = [job EXCEPT ![p] =
                       IF ~(dirent[d] = i /\ i \in table) THEN NoJob
                       ELSE [@ EXCEPT !.pc = "gcMarkers", !.day = d, !.fd = i,
                                      !.days = job[p].days \ {d},
                                      !.ids = {e \in Events : data[i][e] # NoRow}]]
    BY <1>2 DEF GCOpen, Evicted
  <2>2. d \in Days /\ NoFile \in MaybeFile
    BY <1>0 DEF Job, MaybeFile
  <2>3. dirent' \in [Days -> MaybeFile] /\ data' \in [Inodes -> RowSet]
    BY <2>1, <2>2, OpensAsType
  <2>4. cache' \in [Procs -> [Days -> MaybeFile]]
    BY <2>1, <2>2, CacheType
  <2>. DEFINE ids == {e \in Events : data[i][e] # NoRow}
              rest == job[p].days \ {d}
              j == [job[p] EXCEPT !.pc = "gcMarkers", !.day = d, !.fd = i,
                                  !.days = rest, !.ids = ids]
  <2>a. ids \in SUBSET Events /\ rest \in SUBSET Days /\ i \in MaybeFile
    BY <1>0 DEF Job, MaybeFile
  <2>5. j \in Job
    <3>. HIDE DEF ids, rest
    <3>. QED BY <1>0, <2>2, <2>a DEF Job, PCs, CollectPCs
  <2>6. job' = [job EXCEPT ![p] = IF ~(dirent[d] = i /\ i \in table) THEN NoJob ELSE j]
    BY <2>1
  <2>. HIDE DEF j
  <2>7. job' \in [Procs -> Job]
    BY <2>5, <2>6, NoJobType DEF TypeOK
  <2>8. table' \subseteq Inodes
    BY <2>1 DEF TypeOK
  <2>. QED BY <1>2, <2>3, <2>4, <2>7, <2>8 DEF GCOpen, TypeOK
<1>3. CASE GCMarkers(p)
  <2>. DEFINE ids == {e \in job[p].ids : marker[e] = {}}
  <2>1. ids \in SUBSET Events
    BY JobParts
  <2>2. job' = [job EXCEPT ![p] = [@ EXCEPT !.pc = "gcHot", !.ids = ids]]
    BY <1>3 DEF GCMarkers
  <2>. HIDE DEF ids
  <2>3. [job[p] EXCEPT !.pc = "gcHot", !.ids = ids] \in Job
    BY <1>0, <2>1 DEF Job, PCs, CollectPCs
  <2>4. job' \in [Procs -> Job]
    BY <2>2, <2>3 DEF TypeOK
  <2>. QED BY <1>3, <2>4 DEF GCMarkers, TypeOK
<1>4. CASE GCHot(p)
  <2>. DEFINE ids == {e \in job[p].ids : hot[e] = {}}
  <2>1. ids \in SUBSET Events
    BY JobParts
  <2>2. job' = [job EXCEPT ![p] = [@ EXCEPT !.pc = "gcSweep", !.ids = ids]]
    BY <1>4 DEF GCHot
  <2>. HIDE DEF ids
  <2>3. [job[p] EXCEPT !.pc = "gcSweep", !.ids = ids] \in Job
    BY <1>0, <2>1 DEF Job, PCs, CollectPCs
  <2>4. job' \in [Procs -> Job]
    BY <2>2, <2>3 DEF TypeOK
  <2>. QED BY <1>4, <2>4 DEF GCHot, TypeOK
<1>5. CASE GCSweep(p)
  <2>. DEFINE i == job[p].fd
              new == [e \in Events |-> IF e \in job[p].ids THEN NoRow ELSE data[i][e]]
  <2>1. job' \in [Procs -> Job]
    BY <1>0, <1>5 DEF GCSweep, TypeOK, Job, PCs, CollectPCs
  <2>2. i \in Inodes => new \in RowSet
    BY RowParts DEF NoRow, RowSet
  <2>3. data' = [data EXCEPT ![i] = new]
    BY <1>5 DEF GCSweep
  <2>. HIDE DEF i, new
  <2>4. data' \in [Inodes -> RowSet]
    BY <2>2, <2>3 DEF TypeOK
  <2>. QED BY <1>5, <2>1, <2>4 DEF GCSweep, TypeOK
<1>6. CASE GCCount(p)
  BY <1>0, <1>6 DEF GCCount, TypeOK, Job, PCs, CollectPCs, MaybeFile
<1>7. CASE GCRemove(p)
  <2>1. job' \in [Procs -> Job]
    BY <1>0, <1>7 DEF GCRemove, TypeOK, Job, PCs, CollectPCs
  <2>2. dirent' \in [Days -> MaybeFile]
    BY <1>7 DEF GCRemove, TypeOK, MaybeFile
  <2>. QED BY <1>7, <2>1, <2>2 DEF GCRemove, TypeOK
<1>. QED BY <1>1, <1>2, <1>3, <1>4, <1>5, <1>6, <1>7 DEF CollectStep

\* Each step of a restore keeps the types.
LEMMA TypeRestore ==
    ASSUME TypeOK, NEW p \in Procs, RestoreStep(p)
    PROVE  TypeOK'
<1>. USE DEF rowVars, fileVars
<1>0. job[p] \in Job
  BY DEF TypeOK
<1>1. CASE RestoreDay(p)
  <2>. DEFINE of(first) == {e \in job[p].todo : DayOf[e] = DayOf[first]}
              i(first) == dirent[DayOf[first]]
              ids(first) == {e \in of(first) : data[i(first)][e] # NoRow}
              copy(first) == [e \in Events |-> IF e \in of(first) THEN data[i(first)][e]
                                                                 ELSE NoRow]
  <2>1. PICK first \in job[p].todo :
          /\ cache' = IF i(first) = NoFile THEN cache
                      ELSE [cache EXCEPT ![p][DayOf[first]] = NoFile]
          /\ job' = [job EXCEPT ![p] =
               IF i(first) \notin table THEN [@ EXCEPT !.todo = job[p].todo \ of(first)]
               ELSE [@ EXCEPT !.pc = "rsRow", !.todo = job[p].todo \ of(first), !.day = DayOf[first],
                              !.fd = i(first), !.ids = ids(first), !.rows = copy(first)]]
    BY <1>1 DEF RestoreDay, Evicted
  <2>2. first \in Events /\ DayOf[first] \in Days /\ NoFile \in MaybeFile /\ job[p].todo \subseteq Events
    BY <1>0 DEF Job, MaybeFile
  <2>3. cache' \in [Procs -> [Days -> MaybeFile]]
    BY <2>1, <2>2, CacheType DEF TypeOK
  <2>4. i(first) \in table => i(first) \in Inodes /\ i(first) \in MaybeFile
    BY DEF TypeOK, MaybeFile
  <2>5. i(first) \in Inodes => copy(first) \in RowSet
    BY RowParts DEF NoRow, RowSet
  <2>6. of(first) \subseteq Events /\ ids(first) \subseteq Events
    BY <2>2
  <2>. HIDE DEF of, i, ids, copy
  <2>7. i(first) \in table =>
          [job[p] EXCEPT !.pc = "rsRow", !.todo = job[p].todo \ of(first), !.day = DayOf[first],
                         !.fd = i(first), !.ids = ids(first), !.rows = copy(first)] \in Job
    BY <1>0, <2>2, <2>4, <2>5, <2>6 DEF Job, PCs, CollectPCs
  <2>8. [job[p] EXCEPT !.todo = job[p].todo \ of(first)] \in Job
    BY <1>0 DEF Job
  <2>9. job' \in [Procs -> Job]
    BY <2>1, <2>7, <2>8 DEF TypeOK
  <2>. QED BY <1>1, <2>3, <2>9 DEF RestoreDay, TypeOK
<1>2. CASE RestoreRow(p)
  <2>1. PICK e \in job[p].ids :
          /\ hot' = [hot EXCEPT ![e] = IF stage[e] = "live" THEN @ \cup job[p].rows[e] ELSE @]
          /\ marker' = [marker EXCEPT ![e] = {}]
          /\ job' = [job EXCEPT ![p] = [@ EXCEPT !.pc = "rsDrop", !.cur = e]]
    BY <1>2 DEF RestoreRow
  <2>2. e \in Events /\ e \in 0..NumEvents
    BY JobParts DEF Events
  <2>3. job[p].rows[e] \in SUBSET Cols
    BY <2>2, JobParts DEF RowSet
  <2>4. hot' \in RowSet /\ marker' \in RowSet
    BY <2>1, <2>2, <2>3, RowParts DEF TypeOK, RowSet
  <2>5. job' \in [Procs -> Job]
    BY <1>0, <2>1, <2>2 DEF TypeOK, Job, PCs, CollectPCs
  <2>. QED BY <1>2, <2>4, <2>5 DEF RestoreRow, TypeOK
<1>3. CASE RestoreDrop(p)
  <2>. DEFINE i == job[p].fd
              c == job[p].cur
              new == [x \in Events |-> IF x = c THEN NoRow ELSE data[i][x]]
              rest == [x \in Events |-> IF x = c THEN NoRow ELSE job[p].rows[x]]
              left == job[p].ids \ {c}
  <2>1. i \in Inodes => new \in RowSet
    BY RowParts DEF NoRow, RowSet
  <2>2. rest \in RowSet /\ left \in SUBSET Events /\ 0 \in 0..NumEvents
    BY JobParts DEF NoRow, RowSet
  <2>3. /\ data' = [data EXCEPT ![i] = new]
        /\ job' = [job EXCEPT ![p] = [@ EXCEPT !.pc = "rsRow", !.cur = 0, !.ids = left,
                                               !.rows = rest]]
    BY <1>3 DEF RestoreDrop
  <2>. HIDE DEF i, c, new, rest, left
  <2>4. data' \in [Inodes -> RowSet]
    BY <2>1, <2>3 DEF TypeOK
  <2>5. job' \in [Procs -> Job]
    BY <1>0, <2>2, <2>3 DEF TypeOK, Job, PCs, CollectPCs
  <2>. QED BY <1>3, <2>4, <2>5 DEF RestoreDrop, TypeOK
<1>4. CASE RestoreDayDone(p)
  <2>1. [NoJob EXCEPT !.pc = "rsDay", !.todo = job[p].todo] \in Job
    BY <1>0, NoJobType DEF Job, PCs, CollectPCs
  <2>. QED BY <1>4, <2>1 DEF RestoreDayDone, TypeOK
<1>5. CASE RestoreOver(p)
  <2>1. Collecting({}) \in Job
    BY CollectingType
  <2>. QED BY <1>5, <2>1 DEF RestoreOver, TypeOK
<1>. QED BY <1>1, <1>2, <1>3, <1>4, <1>5 DEF RestoreStep

\* Captures, merges and the tool-name backfill keep the types.
LEMMA TypeRow ==
    ASSUME TypeOK, RowStep
    PROVE  TypeOK'
<1>. USE DEF rowVars, fileVars
<1>1. ASSUME NEW e \in Events, NEW S \in SUBSET Cols, Capture(e, S)
      PROVE  TypeOK'
  BY <1>1 DEF Capture, TypeOK, RowSet
<1>2. ASSUME NEW e \in Events, NEW S \in SUBSET Cols, Merge(e, S)
      PROVE  TypeOK'
  <2>1. hot' \in RowSet
    BY <1>2, RowParts DEF Merge, Backfill, TypeOK, RowSet
  <2>2. MergedNames(e, S) \in {"null", "blank", "set"}
    BY DEF MergedNames, TypeOK
  <2>. QED BY <1>2, <2>1, <2>2 DEF Merge, Backfill, TypeOK
<1>3. ASSUME NEW e \in Events, BackfillToolNames(e)
      PROVE  TypeOK'
  BY <1>3 DEF BackfillToolNames, TypeOK
<1>. QED BY <1>1, <1>2, <1>3 DEF RowStep

\* Starting, failing, dying and reading keep the types.
LEMMA TypeControl ==
    ASSUME TypeOK, NEW p \in Procs,
           StartJob(p) \/ Fail(p) \/ Crash(p) \/ \E e \in Events : Hydrate(p, e)
    PROVE  TypeOK'
<1>. USE DEF rowVars, fileVars
<1>1. ASSUME NEW cut \in 1..(NumEvents + 1), NEW cycle \in BOOLEAN, StartArchive(p, cut, cycle)
      PROVE  TypeOK'
  <2>1. cut \in 0..(NumEvents + 1)
    OBVIOUS
  <2>2. [NoJob EXCEPT !.pc = "select", !.cut = cut, !.cycle = cycle] \in Job
    BY <2>1, NoJobType DEF Job, PCs, ArchivePCs
  <2>. QED BY <1>1, <2>2 DEF StartArchive, TypeOK
<1>2. CASE StartGC(p)
  <2>1. Collecting({}) \in Job
    BY CollectingType
  <2>. QED BY <1>2, <2>1 DEF StartGC, TypeOK
<1>3. ASSUME NEW S \in SUBSET Events, Purge(p, S)
      PROVE  TypeOK'
  <2>1. Collecting(S) \in Job
    BY CollectingType
  <2>2. hot' \in RowSet /\ marker' \in RowSet
    BY <1>3, RowParts DEF Purge, RowSet
  <2>. QED BY <1>3, <2>1, <2>2 DEF Purge, TypeOK
<1>4. ASSUME NEW lo \in 1..(NumEvents + 1), NEW hi \in 1..(NumEvents + 1), StartRestore(p, lo, hi)
      PROVE  TypeOK'
  <2>1. {e \in lo..(hi - 1) : marker[e] # {}} \in SUBSET Events
    BY DEF Events
  <2>2. [NoJob EXCEPT !.pc = "rsDay", !.todo = {e \in lo..(hi - 1) : marker[e] # {}}] \in Job
    BY <2>1, NoJobType DEF Job, PCs, CollectPCs
  <2>. QED BY <1>4, <2>2 DEF StartRestore, TypeOK
<1>5. CASE Fail(p)
  BY <1>5, RunOverType, NoJobType DEF Fail, TypeOK
<1>6. CASE Crash(p)
  <2>1. [d \in Days |-> NoFile] \in [Days -> MaybeFile]
    BY DEF MaybeFile
  <2>. QED BY <1>6, <2>1, NoJobType DEF Crash, TypeOK
<1>7. ASSUME NEW e \in Events, Hydrate(p, e)
      PROVE  TypeOK'
  <2>1. DayOf[e] \in Days /\ dirent[DayOf[e]] \in MaybeFile
    BY DEF TypeOK
  <2>2. cache' \in [Procs -> [Days -> MaybeFile]]
    BY <1>7, <2>1, CacheType DEF Hydrate
  <2>. QED BY <1>7, <2>2 DEF Hydrate, TypeOK
<1>. QED BY <1>1, <1>2, <1>3, <1>4, <1>5, <1>6, <1>7 DEF StartJob

\* Every step keeps the types.
LEMMA TypeStep == TypeOK /\ [Next]_vars => TypeOK'
<1>. SUFFICES ASSUME TypeOK, [Next]_vars PROVE TypeOK'
  OBVIOUS
<1>1. CASE UNCHANGED vars
  BY <1>1 DEF vars, TypeOK
<1>. QED BY <1>1, TypeArchive, TypeCollect, TypeRestore, TypeRow, TypeControl DEF Next, Work

\* Every reachable state is well typed, whatever overlaps.
THEOREM Typing == Spec => []TypeOK
BY TypeInit, TypeStep, PTL DEF Spec

-----------------------------------------------------------------------------
(* Hot and archived copies never coexist, whatever overlaps. *)

RowsApart == NeverHotAndMarked /\ OnlyLiveRowsHold

\* No step leaves a body both hot and marked.
LEMMA RowsApartStep == TypeOK /\ RowsApart /\ [Next]_vars => RowsApart'
<1>. SUFFICES ASSUME TypeOK, RowsApart, [Next]_vars PROVE RowsApart'
  OBVIOUS
<1>. USE DEF RowsApart, NeverHotAndMarked, OnlyLiveRowsHold, Live
<1>1. CASE UNCHANGED rowVars
  BY <1>1 DEF rowVars
<1>2. ASSUME NEW e \in Events, NEW S \in SUBSET Cols, Capture(e, S)
      PROVE  RowsApart'
  BY <1>2 DEF Capture, TypeOK, RowSet
<1>3. ASSUME NEW e \in Events, NEW S \in SUBSET Cols, Merge(e, S)
      PROVE  RowsApart'
  BY <1>3 DEF Merge, Backfill, TypeOK, RowSet
<1>4. ASSUME NEW e \in Events, BackfillToolNames(e)
      PROVE  RowsApart'
  BY <1>4 DEF BackfillToolNames
<1>5. ASSUME NEW p \in Procs, NEW S \in SUBSET Events, Purge(p, S)
      PROVE  RowsApart'
  BY <1>5 DEF Purge, TypeOK
<1>6. ASSUME NEW p \in Procs, MarkAndClear(p)
      PROVE  RowsApart'
  <2>. DEFINE found == {e \in job[p].ids : job[p].rows[e] # {}}
  <2>1. CASE found \subseteq Live
    <3>1. /\ marker' = [e \in Events |-> IF e \in found THEN marker[e] \cup job[p].rows[e]
                                                         ELSE marker[e]]
          /\ hot' = [e \in Events |-> IF e \in found THEN hot[e] \ job[p].rows[e] ELSE hot[e]]
          /\ stage' = stage
      BY <1>6, <2>1 DEF MarkAndClear, Cleared
    <3>. HIDE DEF found
    <3>. QED BY <2>1, <3>1
  <2>2. CASE ~(found \subseteq Live)
    BY <1>6, <2>2 DEF MarkAndClear, Cleared
  <2>. QED BY <2>1, <2>2
<1>7. ASSUME NEW p \in Procs, RestoreRow(p)
      PROVE  RowsApart'
  BY <1>7 DEF RestoreRow, TypeOK, RowSet
<1>8. CASE RowStep
  BY <1>2, <1>3, <1>4, <1>8 DEF RowStep
<1>9. ASSUME NEW p \in Procs, StartJob(p) \/ Fail(p) \/ Crash(p) \/ \E e \in Events : Hydrate(p, e)
      PROVE  RowsApart'
  BY <1>1, <1>5, <1>9 DEF StartJob, StartArchive, StartGC, StartRestore, Fail, Crash, Hydrate
<1>10. ASSUME NEW p \in Procs, Work(p)
       PROVE  RowsApart'
  BY <1>1, <1>6, <1>7, <1>10
     DEF Work, ArchiveStep, CollectStep, RestoreStep, SelectBatch, NoCandidates, ReadBodies,
         OpenDay, CommitDay, ReadMasks, GCDone, GCOpen, GCMarkers, GCHot, GCSweep, GCCount,
         GCRemove, RestoreDay, RestoreDrop, RestoreDayDone, RestoreOver
<1>. QED BY <1>1, <1>8, <1>9, <1>10 DEF Next, vars, rowVars

\* A body is never both in the hot row and accounted for by the marker, even
\* when archiver runs and collections overlap.
THEOREM Apart == Spec => []NeverHotAndMarked
<1>1. Init => RowsApart
  BY DEF Init, RowsApart, NeverHotAndMarked, OnlyLiveRowsHold
<1>2. RowsApart => NeverHotAndMarked
  BY DEF RowsApart
<1>. QED BY <1>1, <1>2, RowsApartStep, Typing, PTL DEF Spec

-----------------------------------------------------------------------------
(* The archive invariant of a serialised deployment. *)

Global == FilesAreLinked /\ MarkerNeverOverclaims /\ CopiesAreAccounted /\ OnlyLiveRowsHold

Holds(p) == ArchiverHolds(p) /\ CollectorHolds(p) /\ RestoreHolds(p)

\* A step that takes nothing from under an archiver: bodies stay accounted
\* for, files grow, and a linked file stays linked.
KeepsArchivers ==
    /\ \A e \in Events : hot[e] \cup marker[e] \subseteq hot'[e] \cup marker'[e]
    /\ \A e \in Events : FileRow(e) \subseteq FileRow(e)'
    /\ \A d \in Days : dirent[d] # NoFile => dirent'[d] = dirent[d]

\* A step that takes nothing from under a collector or a restore: nothing is
\* marked, files shrink, and bodies of rows not purged stay accounted for.
KeepsCollectors ==
    /\ \A e \in Events : marker[e] = {} => marker'[e] = {}
    /\ \A e \in Events : FileRow(e)' \subseteq FileRow(e)
    /\ \A e \in Events : stage'[e] # "purged" =>
         stage[e] # "purged" /\ hot[e] \cup marker[e] \subseteq hot'[e] \cup marker'[e]
    /\ \A d \in Days : dirent'[d] = dirent[d] \/ DayIsEmpty(d)'

\* What an archiver relies on still holds for one that did not move.
LEMMA ArchiverKept ==
    ASSUME TypeOK, KeepsArchivers, NEW q \in Procs, job'[q] = job[q], ArchiverHolds(q)
    PROVE  ArchiverHolds(q)'
<1>1. job[q].day \in Days /\ job[q].ids \subseteq Events
  BY JobParts
<1>2. job[q].fd \in Inodes => job[q].fd # NoFile
  OBVIOUS
<1>. QED BY <1>1, <1>2 DEF ArchiverHolds, KeepsArchivers

\* What a collection relies on still holds for one that did not move.
LEMMA CollectorKept ==
    ASSUME TypeOK, KeepsCollectors, NEW q \in Procs, job'[q] = job[q], CollectorHolds(q)
    PROVE  CollectorHolds(q)'
<1>1. job[q].day \in Days /\ job[q].ids \subseteq Events
  BY JobParts
<1>2. \A d \in Days : DayIsEmpty(d) => DayIsEmpty(d)'
  BY DEF DayIsEmpty, KeepsCollectors, NoRow
<1>3. CASE job[q].pc \in {"gcMarkers", "gcHot", "gcSweep", "gcCount"}
  BY <1>1, <1>2, <1>3 DEF CollectorHolds, KeepsCollectors
<1>4. CASE job[q].pc \notin {"gcMarkers", "gcHot", "gcSweep", "gcCount"}
  BY <1>1, <1>2, <1>4 DEF CollectorHolds
<1>. QED BY <1>3, <1>4

\* What a restore relies on still holds for one that did not move.
LEMMA RestoreKept ==
    ASSUME TypeOK, KeepsCollectors, NEW q \in Procs, job'[q] = job[q], RestoreHolds(q)
    PROVE  RestoreHolds(q)'
<1>1. job[q].ids \subseteq Events
  BY JobParts
<1>. QED BY <1>1 DEF RestoreHolds, KeepsCollectors

\* Who may be running beside whom.
LEMMA Alone ==
    ASSUME NoOverlap, NEW p \in Procs, NEW q \in Procs
    PROVE  /\ job[p].pc \in ArchivePCs => job[q].pc \notin CollectPCs
           /\ job[p].pc \in CollectPCs => job[q].pc \notin ArchivePCs
BY DEF NoOverlap

\* A process that is idle, selecting, or about to list or open files holds
\* nothing.
LEMMA HoldsNothing ==
    ASSUME NEW p \in Procs, job'[p].pc \in {"idle", "select", "gcOpen", "rsDay"}
    PROVE  Holds(p)'
BY DEF Holds, ArchiverHolds, CollectorHolds, RestoreHolds

\* A process in the archiver has only the archiver's obligations.
LEMMA ArchiverOnly ==
    ASSUME NEW p \in Procs, job'[p].pc \in ArchivePCs, ArchiverHolds(p)'
    PROVE  Holds(p)'
BY DEF Holds, CollectorHolds, RestoreHolds, ArchivePCs

\* A process in a collection has only the collection's obligations.
LEMMA CollectorOnly ==
    ASSUME NEW p \in Procs,
           job'[p].pc \in {"gcMarkers", "gcHot", "gcSweep", "gcCount", "gcRemove"},
           CollectorHolds(p)'
    PROVE  Holds(p)'
BY DEF Holds, ArchiverHolds, RestoreHolds

\* A process in a restore has only the restore's obligations.
LEMMA RestoreOnly ==
    ASSUME NEW p \in Procs, job'[p].pc \in {"rsRow", "rsDrop"}, RestoreHolds(p)'
    PROVE  Holds(p)'
BY DEF Holds, ArchiverHolds, CollectorHolds

\* An archiver's step: the others in the archive are kept, nobody collects.
LEMMA BesideArchiver ==
    ASSUME TypeOK, NoOverlap, JobsInHand, KeepsArchivers, NEW p \in Procs,
           job[p].pc \in ArchivePCs, NEW q \in Procs, q # p, job'[q] = job[q]
    PROVE  Holds(q)'
<1>1. job'[q].pc \notin CollectPCs
  BY Alone
<1>2. CollectorHolds(q)' /\ RestoreHolds(q)'
  BY <1>1 DEF CollectorHolds, RestoreHolds, CollectPCs
<1>. QED BY <1>2, ArchiverKept DEF JobsInHand, Holds

\* A collector's step: the other collectors are kept, nobody archives.
LEMMA BesideCollector ==
    ASSUME TypeOK, JobsInHand, KeepsCollectors,
           NEW q \in Procs, job[q].pc \notin ArchivePCs, job'[q] = job[q]
    PROVE  Holds(q)'
<1>1. ArchiverHolds(q)'
  BY DEF ArchiverHolds, ArchivePCs
<1>. QED BY <1>1, CollectorKept, RestoreKept DEF JobsInHand, Holds

\* The parts of the invariant other than typing.
Rest == Global /\ NoOverlap /\ JobsInHand

\* The invariant is its types and the rest.
LEMMA InvParts == ArchiveInv <=> TypeOK /\ Rest
BY DEF ArchiveInv, Rest, Global

\* A process may change its job to j without overlap.
MayTurnTo(p, j) ==
    /\ j.pc \in ArchivePCs => \A q \in Procs \ {p} : job[q].pc \notin CollectPCs
    /\ j.pc \in CollectPCs => \A q \in Procs \ {p} : job[q].pc \notin ArchivePCs

\* A job's turn that starts no overlap keeps archivers and collections apart.
LEMMA OverlapStep ==
    ASSUME TypeOK, NoOverlap, NEW p \in Procs, NEW j, MayTurnTo(p, j),
           job' = [job EXCEPT ![p] = j]
    PROVE  NoOverlap'
<1>. SUFFICES ASSUME NEW a \in Procs, NEW b \in Procs,
                     job'[a].pc \in ArchivePCs, job'[b].pc \in CollectPCs
              PROVE  FALSE
  BY DEF NoOverlap
<1>1. \A q \in Procs : job'[q] = IF q = p THEN j ELSE job[q]
  BY DEF TypeOK
<1>2. ArchivePCs \cap CollectPCs = {}
  BY DEF ArchivePCs, CollectPCs
<1>. QED BY <1>1, <1>2 DEF MayTurnTo, NoOverlap

\* A step that only changes the job of p, and perhaps a cached handle.
LEMMA JobOnly ==
    ASSUME TypeOK, Rest, UNCHANGED <<rowVars, fileVars>>, NEW p \in Procs, NEW j,
           MayTurnTo(p, j), job' = [job EXCEPT ![p] = j], Holds(p)'
    PROVE  Rest'
<1>1. NoOverlap'
  BY OverlapStep DEF Rest
<1>2. Global'
  BY DEF Rest, Global, FilesAreLinked, MarkerNeverOverclaims, CopiesAreAccounted,
         OnlyLiveRowsHold, FileRow, Live, rowVars, fileVars
<1>3. KeepsArchivers /\ KeepsCollectors
  BY DEF KeepsArchivers, KeepsCollectors, FileRow, rowVars, fileVars
<1>4. ASSUME NEW q \in Procs, q # p
      PROVE  Holds(q)'
  <2>1. job'[q] = job[q]
    BY <1>4 DEF TypeOK
  <2>. QED BY <1>3, <2>1, ArchiverKept, CollectorKept, RestoreKept DEF Rest, JobsInHand, Holds
<1>. QED BY <1>1, <1>2, <1>4 DEF Rest, JobsInHand, Holds

\* The end of an archiver run keeps the rest of the invariant.
LEMMA RunOverStep ==
    ASSUME Serialised, TypeOK, Rest, UNCHANGED <<rowVars, fileVars>>,
           NEW p \in Procs, RunOver(p)
    PROVE  Rest'
<1>1. CASE job' = [job EXCEPT ![p] = NoJob]
  <2>1. job'[p].pc = "idle" /\ MayTurnTo(p, NoJob)
    BY <1>1 DEF TypeOK, NoJob, MayTurnTo, ArchivePCs, CollectPCs
  <2>. QED BY <1>1, <2>1, HoldsNothing, JobOnly
<1>2. CASE MayCollect(p) /\ job' = [job EXCEPT ![p] = Collecting({})]
  <2>1. job'[p].pc = "gcOpen" /\ MayTurnTo(p, Collecting({}))
    BY <1>2 DEF TypeOK, NoJob, MayTurnTo, ArchivePCs, Collecting, MayCollect
  <2>. QED BY <1>2, <2>1, HoldsNothing, JobOnly
<1>. QED BY <1>1, <1>2 DEF RunOver

\* The archived row of an event is a set of columns, in its day's file.
LEMMA FileRowType ==
    ASSUME TypeOK, NEW e \in Events
    PROVE  /\ FileRow(e) \in SUBSET Cols
           /\ DayOf[e] \in Days
           /\ dirent[DayOf[e]] # NoFile =>
                dirent[DayOf[e]] \in Inodes /\ FileRow(e) = data[dirent[DayOf[e]]][e]
<1>1. DayOf[e] \in Days /\ dirent[DayOf[e]] \in MaybeFile
  BY DEF TypeOK
<1>. QED BY <1>1, RowParts DEF FileRow, NoRow, MaybeFile

\* Between the archive states of one process nothing else is disturbed.
LEMMA ArchiverTurns ==
    ASSUME NoOverlap, NEW p \in Procs, job[p].pc \in ArchivePCs, NEW j, j.pc \in ArchivePCs
    PROVE  MayTurnTo(p, j)
BY Alone DEF MayTurnTo, ArchivePCs, CollectPCs

\* A collection that stays one starts no overlap.
LEMMA CollectorTurns ==
    ASSUME NoOverlap, NEW p \in Procs, job[p].pc \in CollectPCs, NEW j, j.pc \in CollectPCs
    PROVE  MayTurnTo(p, j)
BY Alone DEF MayTurnTo, ArchivePCs, CollectPCs

\* What opening a day file for writing leaves in place: the directory gains at
\* most an empty file.
LEMMA OpensAsRows ==
    ASSUME TypeOK, NEW d \in Days, NEW i \in Inodes, OpensAs(d, i)
    PROVE  /\ dirent'[d] = i
           /\ \A x \in Days : dirent[x] # NoFile => dirent'[x] = dirent[x]
           /\ \A x \in Days : x # d => dirent'[x] = dirent[x]
           /\ \A e \in Events : FileRow(e)' = FileRow(e)
           /\ dirent[d] = NoFile => \A e \in Events : DayOf[e] = d => FileRow(e)' = NoRow
<1>1. CASE dirent[d] # NoFile
  BY <1>1 DEF OpensAs, FileRow
<1>2. CASE dirent[d] = NoFile
  <2>1. /\ \A x \in Days : dirent[x] # i
        /\ dirent' = [dirent EXCEPT ![d] = i]
        /\ data' = [data EXCEPT ![i] = NoRows]
    BY <1>2 DEF OpensAs, Fresh
  <2>2. \A x \in Days : dirent'[x] = IF x = d THEN i ELSE dirent[x]
    BY <2>1 DEF TypeOK
  <2>3. \A x \in Inodes, e \in Events : data'[x][e] = IF x = i THEN NoRow ELSE data[x][e]
    BY <2>1 DEF TypeOK, NoRows
  <2>4. ASSUME NEW e \in Events
        PROVE  FileRow(e)' = FileRow(e) /\ (DayOf[e] = d => FileRow(e)' = NoRow)
    <3>1. DayOf[e] \in Days /\ dirent[DayOf[e]] \in MaybeFile
      BY DEF TypeOK
    <3>2. CASE DayOf[e] = d
      <4>1. FileRow(e) = NoRow
        BY <1>2, <3>2 DEF FileRow
      <4>2. dirent'[DayOf[e]] = i /\ i # NoFile /\ data'[i][e] = NoRow
        BY <2>2, <2>3, <3>1, <3>2
      <4>. QED BY <4>1, <4>2 DEF FileRow
    <3>3. CASE DayOf[e] # d
      <4>1. dirent'[DayOf[e]] = dirent[DayOf[e]] /\ dirent[DayOf[e]] # i
        BY <2>1, <2>2, <3>1, <3>3
      <4>2. dirent[DayOf[e]] # NoFile => data'[dirent[DayOf[e]]][e] = data[dirent[DayOf[e]]][e]
        BY <2>3, <3>1, <4>1 DEF MaybeFile
      <4>. QED BY <3>3, <4>1, <4>2 DEF FileRow
    <3>. QED BY <3>2, <3>3
  <2>. QED BY <1>2, <2>2, <2>4
<1>. QED BY <1>1, <1>2

\* And every row of a file is still in the file its day names.
LEMMA OpensAsFacts ==
    ASSUME TypeOK, FilesAreLinked, NEW d \in Days, NEW i \in Inodes, OpensAs(d, i)
    PROVE  /\ dirent'[d] = i
           /\ \A x \in Days : dirent[x] # NoFile => dirent'[x] = dirent[x]
           /\ \A x \in Days : x # d => dirent'[x] = dirent[x]
           /\ \A e \in Events : FileRow(e)' = FileRow(e)
           /\ FilesAreLinked'
           /\ dirent[d] = NoFile => \A e \in Events : DayOf[e] = d => FileRow(e)' = NoRow
<1>1. CASE dirent[d] # NoFile
  BY <1>1, OpensAsRows DEF OpensAs, FilesAreLinked
<1>2. CASE dirent[d] = NoFile
  <2>1. data' = [data EXCEPT ![i] = NoRows]
    BY <1>2 DEF OpensAs
  <2>2. \A x \in Inodes, e \in Events : data'[x][e] = IF x = i THEN NoRow ELSE data[x][e]
    BY <2>1 DEF TypeOK, NoRows
  <2>3. ASSUME NEW x \in Inodes, NEW e \in Events, data'[x][e] # NoRow
        PROVE  dirent'[DayOf[e]] = x
    <3>1. x # i /\ data[x][e] # NoRow
      BY <2>2, <2>3
    <3>2. dirent[DayOf[e]] = x /\ x # NoFile /\ DayOf[e] \in Days
      BY <3>1 DEF FilesAreLinked
    <3>. QED BY <1>2, <3>2, OpensAsRows
  <2>4. FilesAreLinked'
    BY <2>3 DEF FilesAreLinked
  <2>. QED BY <2>4, OpensAsRows
<1>. QED BY <1>1, <1>2

\* Steps 1, 2 (opening) and 4 (reading) of an archiver, and its selections.
LEMMA ArchiverLooks ==
    ASSUME Serialised, TypeOK, Rest, NEW p \in Procs,
           SelectBatch(p) \/ NoCandidates(p) \/ ReadBodies(p) \/ ReadMasks(p)
    PROVE  Rest'
<1>0. job[p] \in Job /\ NoOverlap /\ JobsInHand /\ Global
  BY DEF TypeOK, Rest
<1>1. CASE NoCandidates(p)
  BY <1>1, RunOverStep DEF NoCandidates
<1>2. CASE SelectBatch(p)
  <2>1. PICK first \in Candidates(p), last \in Candidates(p) :
          /\ \A e \in Candidates(p) : e <= last => DayOf[e] = DayOf[first]
          /\ job' = [job EXCEPT ![p] =
                       [@ EXCEPT !.pc = "read", !.cur = last, !.day = DayOf[first],
                                 !.ids = {e \in Candidates(p) : e <= last}]]
    BY <1>2, ZenonT(40) DEF SelectBatch, DayPrefix, TakeBatch
  <2>. DEFINE ids == {e \in Candidates(p) : e <= last}
              j == [job[p] EXCEPT !.pc = "read", !.cur = last, !.day = DayOf[first], !.ids = ids]
  <2>2. \A e \in ids : DayOf[e] = DayOf[first]
    BY <2>1
  <2>. HIDE DEF ids
  <2>3. j.pc = "read" /\ j.ids = ids /\ j.day = DayOf[first]
    BY <1>0 DEF Job
  <2>. HIDE DEF j
  <2>4. job' = [job EXCEPT ![p] = j]
    BY <2>1 DEF j, ids
  <2>5. job'[p] = j
    BY <2>4 DEF TypeOK
  <2>6. Holds(p)'
    BY <2>2, <2>3, <2>5, ArchiverOnly DEF ArchiverHolds, ArchivePCs
  <2>7. MayTurnTo(p, j)
    <3>1. job[p].pc \in ArchivePCs
      BY <1>2 DEF SelectBatch, ArchivePCs
    <3>2. j.pc \in ArchivePCs
      BY <2>3 DEF ArchivePCs
    <3>. QED BY <1>0, <3>1, <3>2, ArchiverTurns
  <2>. QED BY <1>2, <2>4, <2>6, <2>7, JobOnly DEF SelectBatch
<1>3. CASE ReadBodies(p)
  <2>. DEFINE got == {e \in job[p].ids : hot[e] # {}}
              copy == [e \in Events |-> IF e \in got THEN hot[e] ELSE NoRow]
              j == [job[p] EXCEPT !.pc = "open", !.ids = got, !.rows = copy]
  <2>1. CASE job' = [job EXCEPT ![p] = NextBatch(p)]
    <3>1. NextBatch(p).pc = "select"
      BY DEF NextBatch, NoJob
    <3>2. job'[p] = NextBatch(p)
      BY <2>1 DEF TypeOK
    <3>3. MayTurnTo(p, NextBatch(p))
      BY <1>0, <1>3, <3>1, ArchiverTurns DEF ReadBodies, ArchivePCs
    <3>. QED BY <1>3, <2>1, <3>1, <3>2, <3>3, HoldsNothing, JobOnly DEF ReadBodies
  <2>2. CASE job' # [job EXCEPT ![p] = NextBatch(p)]
    <3>1. job' = [job EXCEPT ![p] = j]
      BY <1>3, <2>2 DEF ReadBodies
    <3>2. got \subseteq job[p].ids /\ \A e \in got : e \in Events /\ copy[e] = hot[e]
      BY JobParts
    <3>3. \A e \in got : DayOf[e] = job[p].day
      BY <1>0, <1>3, <3>2 DEF ReadBodies, JobsInHand, ArchiverHolds
    <3>. HIDE DEF got, copy
    <3>4. j.pc = "open" /\ j.ids = got /\ j.day = job[p].day /\ j.rows = copy
      BY <1>0 DEF Job
    <3>. HIDE DEF j
    <3>5. job'[p] = j
      BY <3>1 DEF TypeOK
    <3>6. hot' = hot /\ marker' = marker
      BY <1>3 DEF ReadBodies, rowVars
    <3>7. Holds(p)'
      BY <3>2, <3>3, <3>4, <3>5, <3>6, ArchiverOnly DEF ArchiverHolds, ArchivePCs
    <3>8. MayTurnTo(p, j)
      BY <1>0, <1>3, <3>4, ArchiverTurns DEF ReadBodies, ArchivePCs
    <3>. QED BY <1>3, <3>1, <3>7, <3>8, JobOnly DEF ReadBodies
  <2>. QED BY <2>1, <2>2
<1>4. CASE ReadMasks(p)
  <2>. DEFINE i == Handle(p, job[p].day)
              masks == [e \in Events |-> IF e \in job[p].ids THEN data[i][e] ELSE NoRow]
              j == [job[p] EXCEPT !.pc = "clear", !.rows = masks]
  <2>1. CASE RunOver(p)
    BY <1>4, <2>1, RunOverStep DEF ReadMasks
  <2>2. CASE ~RunOver(p)
    <3>1. job' = [job EXCEPT ![p] = j] /\ i \in table
      BY <1>4, <2>2 DEF ReadMasks
    <3>2. \A e \in Events : masks[e] \subseteq FileRow(e)
      BY <1>0, <3>1, FileRowType DEF TypeOK, Global, FilesAreLinked, NoRow
    <3>3. UNCHANGED <<dirent, data>>
      BY <1>4 DEF ReadMasks, fileVars
    <3>. HIDE DEF masks, i
    <3>4. j.pc = "clear" /\ j.ids = job[p].ids /\ j.day = job[p].day /\ j.rows = masks
      BY <1>0 DEF Job
    <3>. HIDE DEF j
    <3>5. job'[p] = j
      BY <3>1 DEF TypeOK
    <3>6. \A e \in j.ids : DayOf[e] = j.day
      BY <1>0, <1>4, <3>4 DEF ReadMasks, JobsInHand, ArchiverHolds
    <3>7. Holds(p)'
      BY <3>2, <3>3, <3>4, <3>5, <3>6, ArchiverOnly DEF ArchiverHolds, ArchivePCs, FileRow
    <3>8. MayTurnTo(p, j)
      BY <1>0, <1>4, <3>4, ArchiverTurns DEF ReadMasks, ArchivePCs
    <3>. QED BY <1>4, <3>1, <3>7, <3>8, JobOnly DEF ReadMasks
  <2>. QED BY <2>1, <2>2
<1>. QED BY <1>1, <1>2, <1>3, <1>4

\* An archiver's step that changes rows or files, put together.
LEMMA ArchiverWrites ==
    ASSUME TypeOK, Rest, NEW p \in Procs, NEW j,
           job[p].pc \in ArchivePCs, j.pc \in ArchivePCs,
           job' = [job EXCEPT ![p] = j],
           Global', KeepsArchivers, ArchiverHolds(p)'
    PROVE  Rest'
<1>1. NoOverlap'
  BY ArchiverTurns, OverlapStep DEF Rest
<1>2. job'[p].pc \in ArchivePCs /\ \A q \in Procs : q # p => job'[q] = job[q]
  BY DEF TypeOK
<1>3. Holds(p)'
  BY <1>2, ArchiverOnly
<1>4. \A q \in Procs : q # p => Holds(q)'
  BY <1>2, BesideArchiver DEF Rest
<1>. QED BY <1>1, <1>3, <1>4 DEF Rest, JobsInHand, Holds

\* Opening the batch's day file keeps the rest of the invariant.
LEMMA OpenDayStep ==
    ASSUME TypeOK, Rest, NEW p \in Procs, OpenDay(p)
    PROVE  Rest'
<1>0. job[p] \in Job /\ JobsInHand /\ Global /\ UNCHANGED <<stage, hot, marker>>
  BY DEF TypeOK, Rest, OpenDay, rowVars
<1>1. PICK i \in Inodes :
        /\ OpensAs(job[p].day, i)
        /\ job' = [job EXCEPT ![p] = [@ EXCEPT !.pc = "commit", !.fd = i]]
  BY DEF OpenDay
<1>. DEFINE d == job[p].day
            j == [job[p] EXCEPT !.pc = "commit", !.fd = i]
<1>2. /\ j.pc = "commit" /\ j.fd = i /\ j.day = d /\ j.ids = job[p].ids
      /\ j.rows = job[p].rows /\ d \in Days
  BY <1>0 DEF Job
<1>. HIDE DEF j, d
<1>3. job' = [job EXCEPT ![p] = j] /\ OpensAs(d, i)
  BY <1>1 DEF j, d
<1>4. /\ dirent'[d] = i /\ FilesAreLinked'
      /\ \A x \in Days : dirent[x] # NoFile => dirent'[x] = dirent[x]
      /\ \A e \in Events : FileRow(e)' = FileRow(e)
  BY <1>0, <1>2, <1>3, OpensAsFacts DEF Global
<1>5. KeepsArchivers
  BY <1>0, <1>4 DEF KeepsArchivers
<1>6. Global'
  BY <1>0, <1>4 DEF Global, MarkerNeverOverclaims, CopiesAreAccounted, OnlyLiveRowsHold, Live
<1>7. ArchiverHolds(p)'
  <2>1. job'[p] = j
    BY <1>3 DEF TypeOK
  <2>2. /\ \A e \in job[p].ids : DayOf[e] = d
        /\ \A e \in job[p].ids : job[p].rows[e] \subseteq hot[e] \cup marker[e]
    BY <1>0 DEF OpenDay, JobsInHand, ArchiverHolds, d
  <2>. QED BY <1>0, <1>2, <1>4, <2>1, <2>2 DEF ArchiverHolds
<1>8. job[p].pc \in ArchivePCs /\ j.pc \in ArchivePCs
  BY <1>2 DEF OpenDay, ArchivePCs
<1>. QED BY <1>3, <1>5, <1>6, <1>7, <1>8, ArchiverWrites

\* Committing the batch to its day file keeps the rest of the invariant.
LEMMA CommitDayStep ==
    ASSUME TypeOK, Rest, NEW p \in Procs, CommitDay(p)
    PROVE  Rest'
<1>0. /\ job[p] \in Job /\ JobsInHand /\ Global /\ job[p].pc = "commit"
      /\ UNCHANGED <<stage, hot, marker, dirent>>
  BY DEF TypeOK, Rest, CommitDay, rowVars
<1>. DEFINE i == job[p].fd
            d == job[p].day
            ids == job[p].ids
            rows == job[p].rows
            new == [e \in Events |-> IF e \in ids THEN Upsert(data[i][e], rows[e])
                                                  ELSE data[i][e]]
            j == [job[p] EXCEPT !.pc = "masks", !.fd = NoFile]
<1>1. /\ i \in Inodes /\ dirent[d] = i /\ d \in Days /\ ids \subseteq Events
      /\ \A e \in ids : DayOf[e] = d /\ rows[e] \subseteq hot[e] \cup marker[e]
  BY <1>0, JobParts DEF JobsInHand, ArchiverHolds
<1>2. job' = [job EXCEPT ![p] = j] /\ data' = [data EXCEPT ![i] = new]
  BY DEF CommitDay
<1>3. \A e \in Events : new[e] = IF e \in ids THEN data[i][e] \cup rows[e] ELSE data[i][e]
  BY DEF Upsert
<1>4. j.pc = "masks" /\ j.ids = ids /\ j.day = d
  BY <1>0 DEF Job
<1>. HIDE DEF i, d, ids, rows, new, j
<1>5. \A x \in Inodes : data'[x] = IF x = i THEN new ELSE data[x]
  BY <1>2 DEF TypeOK
<1>6. \A e \in Events : FileRow(e)' = IF e \in ids THEN FileRow(e) \cup rows[e] ELSE FileRow(e)
  <2>. TAKE e \in Events
  <2>1. DayOf[e] \in Days /\ i # NoFile
    BY <1>1
  <2>2. dirent[DayOf[e]] # NoFile => dirent[DayOf[e]] \in Inodes
    BY FileRowType
  <2>3. CASE dirent[DayOf[e]] = i
    BY <1>0, <1>1, <1>3, <1>5, <2>1, <2>3 DEF FileRow
  <2>4. CASE dirent[DayOf[e]] # i
    <3>1. e \notin ids
      BY <1>1, <2>4
    <3>. QED BY <1>0, <1>5, <2>2, <2>4, <3>1 DEF FileRow
  <2>. QED BY <2>3, <2>4
<1>7. FilesAreLinked'
  BY <1>0, <1>1, <1>3, <1>5, SMTT(30) DEF Global, FilesAreLinked, NoRow
<1>8. Global'
  BY <1>0, <1>1, <1>6, <1>7 DEF Global, MarkerNeverOverclaims, CopiesAreAccounted,
                               OnlyLiveRowsHold, Live
<1>9. KeepsArchivers
  BY <1>0, <1>6 DEF KeepsArchivers
<1>10. ArchiverHolds(p)'
  <2>1. job'[p] = j
    BY <1>2 DEF TypeOK
  <2>. QED BY <1>1, <1>4, <2>1 DEF ArchiverHolds
<1>11. job[p].pc \in ArchivePCs /\ j.pc \in ArchivePCs
  BY <1>0, <1>4 DEF ArchivePCs
<1>. QED BY <1>2, <1>8, <1>9, <1>10, <1>11, ArchiverWrites

\* Marking and clearing the hot rows keeps the rest of the invariant.
LEMMA MarkAndClearStep ==
    ASSUME Serialised, TypeOK, Rest, NEW p \in Procs, MarkAndClear(p)
    PROVE  Rest'
<1>0. /\ JobsInHand /\ Global /\ job[p].pc = "clear"
      /\ UNCHANGED <<stage, dirent, data, table, names>>
  BY DEF Rest, MarkAndClear, fileVars
<1>. DEFINE mask == job[p].rows
            found == {e \in job[p].ids : mask[e] # {}}
<1>1. CASE ~(found \subseteq Live)
  BY <1>0, <1>1, RunOverStep DEF MarkAndClear, Cleared, rowVars, fileVars
<1>2. CASE found \subseteq Live
  <2>1. /\ marker' = [e \in Events |-> IF e \in found THEN marker[e] \cup mask[e] ELSE marker[e]]
        /\ hot' = [e \in Events |-> IF e \in found THEN hot[e] \ mask[e] ELSE hot[e]]
        /\ job' = [job EXCEPT ![p] = NextBatch(p)]
    BY <1>2 DEF MarkAndClear, Cleared
  <2>2. \A e \in Events : mask[e] \subseteq FileRow(e)
    BY <1>0 DEF JobsInHand, ArchiverHolds
  <2>. HIDE DEF found, mask
  <2>3. NextBatch(p).pc = "select"
    BY DEF NextBatch, NoJob
  <2>4. \A e \in Events : FileRow(e)' = FileRow(e)
    BY <1>0 DEF FileRow
  <2>5. KeepsArchivers
    BY <1>0, <2>1, <2>4 DEF KeepsArchivers
  <2>6. FilesAreLinked' /\ MarkerNeverOverclaims'
    BY <1>0, <2>1, <2>2, <2>4 DEF Global, FilesAreLinked, MarkerNeverOverclaims
  <2>7. CopiesAreAccounted' /\ OnlyLiveRowsHold'
    BY <1>0, <1>2, <2>1, <2>4 DEF Global, CopiesAreAccounted, OnlyLiveRowsHold, Live
  <2>8. job'[p].pc = "select"
    BY <2>1, <2>3 DEF TypeOK
  <2>9. ArchiverHolds(p)'
    BY <2>8 DEF ArchiverHolds
  <2>10. job[p].pc \in ArchivePCs /\ NextBatch(p).pc \in ArchivePCs
    BY <1>0, <2>3 DEF ArchivePCs
  <2>. QED BY <2>1, <2>5, <2>6, <2>7, <2>9, <2>10, ArchiverWrites DEF Global
<1>. QED BY <1>1, <1>2

\* A collector's step that changes rows or files, put together.
LEMMA CollectorWrites ==
    ASSUME TypeOK, Rest, NEW p \in Procs, NEW j, MayTurnTo(p, j), j.pc \in CollectPCs \cup {"idle"},
           \A q \in Procs \ {p} : job[q].pc \notin ArchivePCs,
           job' = [job EXCEPT ![p] = j],
           Global', KeepsCollectors, Holds(p)'
    PROVE  Rest'
<1>1. NoOverlap'
  BY OverlapStep DEF Rest
<1>2. \A q \in Procs : q # p => job'[q] = job[q]
  BY DEF TypeOK
<1>3. \A q \in Procs : q # p => Holds(q)'
  BY <1>2, BesideCollector DEF Rest
<1>. QED BY <1>1, <1>3 DEF Rest, JobsInHand, Holds

\* No archiver runs beside a collection.
LEMMA NoArchiverBeside ==
    ASSUME NoOverlap, NEW p \in Procs, job[p].pc \in CollectPCs
    PROVE  \A q \in Procs \ {p} : job[q].pc \notin ArchivePCs
BY Alone

\* A process that comes to rest starts no overlap.
LEMMA IdleTurn ==
    ASSUME NEW p \in Procs, NEW j, j.pc = "idle"
    PROVE  MayTurnTo(p, j)
BY DEF MayTurnTo, ArchivePCs, CollectPCs

\* Opening the file to collect keeps the rest of the invariant.
LEMMA GCOpenStep ==
    ASSUME TypeOK, Rest, NEW p \in Procs, GCOpen(p)
    PROVE  Rest'
<1>0. /\ job[p] \in Job /\ JobsInHand /\ Global /\ NoOverlap /\ job[p].pc = "gcOpen"
      /\ UNCHANGED <<stage, hot, marker>>
  BY DEF TypeOK, Rest, GCOpen, rowVars
<1>1. PICK d \in job[p].days, i \in Inodes :
        /\ OpensAs(d, i)
        /\ job' = [job EXCEPT ![p] =
                     IF ~(dirent[d] = i /\ i \in table) THEN NoJob
                     ELSE [@ EXCEPT !.pc = "gcMarkers", !.day = d, !.fd = i,
                                    !.days = job[p].days \ {d},
                                    !.ids = {e \in Events : data[i][e] # NoRow}]]
  BY DEF GCOpen
<1>. DEFINE k == [job[p] EXCEPT !.pc = "gcMarkers", !.day = d, !.fd = i,
                                !.days = job[p].days \ {d},
                                !.ids = {e \in Events : data[i][e] # NoRow}]
            j == IF ~(dirent[d] = i /\ i \in table) THEN NoJob ELSE k
<1>2. k.pc = "gcMarkers" /\ k.day = d /\ k.fd = i /\ d \in Days
  BY <1>0 DEF Job
<1>3. job' = [job EXCEPT ![p] = j]
  BY <1>1
<1>. HIDE DEF k
<1>4. j.pc = "idle" \/ (j = k /\ j.pc = "gcMarkers")
  BY <1>2 DEF NoJob
<1>. HIDE DEF j
<1>5. /\ dirent'[d] = i /\ FilesAreLinked'
      /\ \A x \in Days : dirent[x] # NoFile => dirent'[x] = dirent[x]
      /\ \A x \in Days : x # d => dirent'[x] = dirent[x]
      /\ \A e \in Events : FileRow(e)' = FileRow(e)
      /\ dirent[d] = NoFile => \A e \in Events : DayOf[e] = d => FileRow(e)' = NoRow
  BY <1>0, <1>1, <1>2, OpensAsFacts DEF Global
<1>6. Global'
  BY <1>0, <1>5 DEF Global, MarkerNeverOverclaims, CopiesAreAccounted, OnlyLiveRowsHold, Live
<1>7. KeepsCollectors
  BY <1>0, <1>2, <1>5 DEF KeepsCollectors, DayIsEmpty
<1>8. Holds(p)'
  <2>1. job'[p] = j
    BY <1>3 DEF TypeOK
  <2>2. CASE j.pc = "idle"
    BY <2>1, <2>2, HoldsNothing
  <2>3. CASE j = k /\ j.pc = "gcMarkers"
    BY <1>2, <1>5, <2>1, <2>3, CollectorOnly DEF CollectorHolds
  <2>. QED BY <1>4, <2>2, <2>3
<1>9. job[p].pc \in CollectPCs /\ j.pc \in CollectPCs \cup {"idle"} /\ MayTurnTo(p, j)
  <2>1. job[p].pc \in CollectPCs /\ j.pc \in CollectPCs \cup {"idle"}
    BY <1>0, <1>4 DEF CollectPCs
  <2>. QED BY <1>0, <2>1, CollectorTurns, IdleTurn
<1>. QED BY <1>0, <1>3, <1>6, <1>7, <1>8, <1>9, CollectorWrites, NoArchiverBeside

\* The collection's queries and counts.
LEMMA CollectorLooks ==
    ASSUME TypeOK, Rest, NEW p \in Procs,
           GCDone(p) \/ GCMarkers(p) \/ GCHot(p) \/ GCCount(p)
    PROVE  Rest'
<1>0. /\ job[p] \in Job /\ JobsInHand /\ NoOverlap /\ job[p].pc \in CollectPCs
      /\ UNCHANGED <<rowVars, fileVars>>
      /\ UNCHANGED <<hot, marker, dirent, data>>
  BY DEF TypeOK, Rest, GCDone, GCMarkers, GCHot, GCCount, CollectPCs, rowVars, fileVars
<1>. DEFINE d == job[p].day
            i == job[p].fd
<1>1. CASE GCDone(p)
  <2>1. job'[p].pc = "idle" /\ NoJob.pc = "idle"
    BY <1>1 DEF GCDone, TypeOK, NoJob
  <2>. QED BY <1>0, <1>1, <2>1, HoldsNothing, IdleTurn, JobOnly DEF GCDone
<1>2. CASE GCMarkers(p)
  <2>. DEFINE ids == {e \in job[p].ids : marker[e] = {}}
              j == [job[p] EXCEPT !.pc = "gcHot", !.ids = ids]
  <2>1. job' = [job EXCEPT ![p] = j]
    BY <1>2 DEF GCMarkers
  <2>2. \A e \in ids : marker[e] = {}
    OBVIOUS
  <2>3. i \in Inodes /\ (dirent[d] = i \/ DayIsEmpty(d))
    BY <1>0, <1>2 DEF GCMarkers, JobsInHand, CollectorHolds
  <2>. HIDE DEF ids
  <2>4. j.pc = "gcHot" /\ j.ids = ids /\ j.day = d /\ j.fd = i
    BY <1>0 DEF Job
  <2>. HIDE DEF j
  <2>5. job'[p] = j
    BY <2>1 DEF TypeOK
  <2>6. Holds(p)'
    BY <1>0, <2>2, <2>3, <2>4, <2>5, CollectorOnly DEF CollectorHolds, DayIsEmpty, FileRow
  <2>7. MayTurnTo(p, j)
    <3>1. j.pc \in CollectPCs
      BY <2>4 DEF CollectPCs
    <3>. QED BY <1>0, <3>1, CollectorTurns
  <2>. QED BY <1>0, <2>1, <2>6, <2>7, JobOnly
<1>3. CASE GCHot(p)
  <2>. DEFINE ids == {e \in job[p].ids : hot[e] = {}}
              j == [job[p] EXCEPT !.pc = "gcSweep", !.ids = ids]
  <2>1. job' = [job EXCEPT ![p] = j]
    BY <1>3 DEF GCHot
  <2>2. /\ \A e \in ids : marker[e] = {}
        /\ i \in Inodes /\ (dirent[d] = i \/ DayIsEmpty(d))
    BY <1>0, <1>3 DEF GCHot, JobsInHand, CollectorHolds
  <2>. HIDE DEF ids
  <2>3. j.pc = "gcSweep" /\ j.ids = ids /\ j.day = d /\ j.fd = i
    BY <1>0 DEF Job
  <2>. HIDE DEF j
  <2>4. job'[p] = j
    BY <2>1 DEF TypeOK
  <2>5. Holds(p)'
    BY <1>0, <2>2, <2>3, <2>4, CollectorOnly DEF CollectorHolds, DayIsEmpty, FileRow
  <2>6. MayTurnTo(p, j)
    <3>1. j.pc \in CollectPCs
      BY <2>3 DEF CollectPCs
    <3>. QED BY <1>0, <3>1, CollectorTurns
  <2>. QED BY <1>0, <2>1, <2>5, <2>6, JobOnly
<1>4. CASE GCCount(p)
  <2>. DEFINE j == [job[p] EXCEPT !.pc = IF data[i] = NoRows THEN "gcRemove" ELSE "gcOpen",
                                  !.fd = NoFile]
  <2>1. job' = [job EXCEPT ![p] = j]
    BY <1>4 DEF GCCount
  <2>2. dirent[d] = i \/ DayIsEmpty(d)
    BY <1>0, <1>4 DEF GCCount, JobsInHand, CollectorHolds
  <2>3. data[i] = NoRows => DayIsEmpty(d)
    BY <2>2 DEF DayIsEmpty, FileRow, NoRows
  <2>4. /\ j.pc = IF data[i] = NoRows THEN "gcRemove" ELSE "gcOpen"
        /\ j.day = d
    BY <1>0 DEF Job
  <2>. HIDE DEF j
  <2>5. job'[p] = j
    BY <2>1 DEF TypeOK
  <2>6. Holds(p)'
    <3>1. CASE data[i] = NoRows
      BY <1>0, <2>3, <2>4, <2>5, <3>1, CollectorOnly DEF CollectorHolds, DayIsEmpty, FileRow
    <3>2. CASE data[i] # NoRows
      BY <2>4, <2>5, <3>2, HoldsNothing
    <3>. QED BY <3>1, <3>2
  <2>7. MayTurnTo(p, j)
    <3>1. j.pc \in CollectPCs
      BY <2>4 DEF CollectPCs
    <3>. QED BY <1>0, <3>1, CollectorTurns
  <2>. QED BY <1>0, <2>1, <2>6, <2>7, JobOnly
<1>. QED BY <1>1, <1>2, <1>3, <1>4

\* Taking rows that no marker needs out of one inode keeps the store's parts
\* and everybody else's hand.
LEMMA RowsTaken ==
    ASSUME TypeOK, Global, UNCHANGED <<stage, hot, marker, dirent>>,
           NEW i \in Inodes, NEW gone \in SUBSET Events, \A e \in gone : marker[e] = {},
           data' = [data EXCEPT ![i] = [e \in Events |-> IF e \in gone THEN NoRow ELSE data[i][e]]]
    PROVE  Global' /\ KeepsCollectors
<1>1. \A x \in Inodes, e \in Events :
        data'[x][e] = IF x = i /\ e \in gone THEN NoRow ELSE data[x][e]
  BY DEF TypeOK
<1>2. \A e \in Events : FileRow(e)' \subseteq FileRow(e)
  BY <1>1, FileRowType DEF FileRow, NoRow
<1>3. \A e \in Events : e \notin gone => FileRow(e)' = FileRow(e)
  BY <1>1, FileRowType DEF FileRow
<1>4. FilesAreLinked'
  BY <1>1 DEF Global, FilesAreLinked
<1>5. MarkerNeverOverclaims'
  BY <1>3 DEF Global, MarkerNeverOverclaims
<1>6. CopiesAreAccounted' /\ OnlyLiveRowsHold'
  BY <1>2 DEF Global, CopiesAreAccounted, OnlyLiveRowsHold, Live
<1>7. KeepsCollectors
  BY <1>2 DEF KeepsCollectors
<1>. QED BY <1>4, <1>5, <1>6, <1>7 DEF Global

\* Sweeping the orphans keeps the rest of the invariant.
LEMMA GCSweepStep ==
    ASSUME TypeOK, Rest, NEW p \in Procs, GCSweep(p)
    PROVE  Rest'
<1>0. /\ job[p] \in Job /\ JobsInHand /\ Global /\ NoOverlap /\ job[p].pc \in CollectPCs
      /\ UNCHANGED <<stage, hot, marker, dirent>>
  BY DEF TypeOK, Rest, GCSweep, rowVars, CollectPCs
<1>. DEFINE i == job[p].fd
            d == job[p].day
            gone == job[p].ids
            j == [job[p] EXCEPT !.pc = "gcCount", !.ids = {}]
<1>1. /\ i \in Inodes /\ (dirent[d] = i \/ DayIsEmpty(d))
      /\ gone \in SUBSET Events /\ d \in Days /\ \A e \in gone : marker[e] = {}
  BY <1>0, JobParts DEF GCSweep, JobsInHand, CollectorHolds
<1>2. job' = [job EXCEPT ![p] = j]
  BY DEF GCSweep
<1>3. j.pc = "gcCount" /\ j.fd = i /\ j.day = d
  BY <1>0 DEF Job
<1>4. data' = [data EXCEPT ![i] = [e \in Events |-> IF e \in gone THEN NoRow ELSE data[i][e]]]
  BY DEF GCSweep
<1>. HIDE DEF i, d, gone, j
<1>5. Global' /\ KeepsCollectors
  BY <1>0, <1>1, <1>4, RowsTaken
<1>6. Holds(p)'
  <2>1. job'[p] = j
    BY <1>2 DEF TypeOK
  <2>2. \A x \in Days : DayIsEmpty(x) => DayIsEmpty(x)'
    BY <1>5 DEF KeepsCollectors, DayIsEmpty, NoRow
  <2>. QED BY <1>0, <1>1, <1>3, <2>1, <2>2, CollectorOnly DEF CollectorHolds
<1>7. j.pc \in CollectPCs
  BY <1>3 DEF CollectPCs
<1>. QED BY <1>0, <1>2, <1>5, <1>6, <1>7, CollectorTurns, CollectorWrites, NoArchiverBeside

\* Unlinking an empty file keeps the rest of the invariant.
LEMMA GCRemoveStep ==
    ASSUME TypeOK, Rest, NEW p \in Procs, GCRemove(p)
    PROVE  Rest'
<1>0. /\ job[p] \in Job /\ JobsInHand /\ Global /\ NoOverlap /\ job[p].pc \in CollectPCs
      /\ UNCHANGED <<stage, hot, marker, data>>
  BY DEF TypeOK, Rest, GCRemove, rowVars, CollectPCs
<1>. DEFINE d == job[p].day
            j == [job[p] EXCEPT !.pc = "gcOpen"]
<1>1. d \in Days /\ \A e \in Events : DayOf[e] = d => FileRow(e) = NoRow
  BY <1>0, JobParts DEF GCRemove, JobsInHand, CollectorHolds, DayIsEmpty
<1>2. job' = [job EXCEPT ![p] = j]
  BY DEF GCRemove
<1>3. j.pc = "gcOpen"
  BY <1>0 DEF Job
<1>4. \A x \in Days : dirent'[x] = IF x = d THEN NoFile ELSE dirent[x]
  BY DEF GCRemove, TypeOK
<1>. HIDE DEF d, j
<1>5. \A e \in Events : FileRow(e)' = FileRow(e)
  BY <1>0, <1>1, <1>4, FileRowType DEF FileRow
<1>6. FilesAreLinked'
  <2>. SUFFICES ASSUME NEW x \in Inodes, NEW e \in Events, data[x][e] # NoRow
                PROVE  dirent'[DayOf[e]] = x
    BY <1>0 DEF FilesAreLinked
  <2>1. dirent[DayOf[e]] = x /\ x # NoFile /\ DayOf[e] \in Days
    BY <1>0 DEF Global, FilesAreLinked
  <2>2. DayOf[e] # d
    BY <1>1, <2>1 DEF FileRow
  <2>. QED BY <1>4, <2>1, <2>2
<1>7. Global'
  BY <1>0, <1>5, <1>6 DEF Global, MarkerNeverOverclaims, CopiesAreAccounted, OnlyLiveRowsHold, Live
<1>8. KeepsCollectors
  BY <1>0, <1>1, <1>4, <1>5 DEF KeepsCollectors, DayIsEmpty
<1>9. job'[p].pc = "gcOpen" /\ j.pc \in CollectPCs
  BY <1>2, <1>3 DEF TypeOK, CollectPCs
<1>. QED BY <1>0, <1>2, <1>7, <1>8, <1>9, HoldsNothing, CollectorTurns, CollectorWrites,
            NoArchiverBeside

\* Reading the next day to restore keeps the rest of the invariant.
LEMMA RestoreDayStep ==
    ASSUME TypeOK, Rest, NEW p \in Procs, RestoreDay(p)
    PROVE  Rest'
<1>0. /\ job[p] \in Job /\ JobsInHand /\ Global /\ NoOverlap /\ job[p].pc \in CollectPCs
      /\ UNCHANGED <<rowVars, fileVars>>
      /\ UNCHANGED <<stage, hot, marker, dirent, data>>
  BY DEF TypeOK, Rest, RestoreDay, rowVars, fileVars, CollectPCs
<1>. DEFINE of(first) == {e \in job[p].todo : DayOf[e] = DayOf[first]}
            i(first) == dirent[DayOf[first]]
            ids(first) == {e \in of(first) : data[i(first)][e] # NoRow}
            copy(first) == [e \in Events |-> IF e \in of(first) THEN data[i(first)][e] ELSE NoRow]
<1>1. PICK first \in job[p].todo :
        job' = [job EXCEPT ![p] =
             IF i(first) \notin table THEN [@ EXCEPT !.todo = job[p].todo \ of(first)]
             ELSE [@ EXCEPT !.pc = "rsRow", !.todo = job[p].todo \ of(first),
                            !.day = DayOf[first],
                            !.fd = i(first), !.ids = ids(first), !.rows = copy(first)]]
  BY DEF RestoreDay
<1>2. CASE i(first) \notin table
  <2>. DEFINE j == [job[p] EXCEPT !.todo = job[p].todo \ of(first)]
  <2>1. job' = [job EXCEPT ![p] = j]
    BY <1>1, <1>2
  <2>. HIDE DEF of
  <2>2. j.pc = "rsDay"
    BY <1>0 DEF Job, RestoreDay
  <2>. HIDE DEF j
  <2>3. job'[p].pc = "rsDay" /\ j.pc \in CollectPCs
    BY <2>1, <2>2 DEF TypeOK, CollectPCs
  <2>. QED BY <1>0, <2>1, <2>3, HoldsNothing, CollectorTurns, JobOnly
<1>3. CASE i(first) \in table
  <2>. DEFINE j == [job[p] EXCEPT !.pc = "rsRow", !.todo = job[p].todo \ of(first),
                                  !.day = DayOf[first],
                                  !.fd = i(first), !.ids = ids(first), !.rows = copy(first)]
  <2>1. job' = [job EXCEPT ![p] = j]
    BY <1>1, <1>3
  <2>2. i(first) \in Inodes /\ i(first) # NoFile
    BY <1>3 DEF TypeOK
  <2>3. \A e \in ids(first) :
          /\ copy(first)[e] = FileRow(e)
          /\ stage[e] # "purged" => FileRow(e) \subseteq hot[e] \cup marker[e]
    <3>. TAKE e \in ids(first)
    <3>1. e \in Events /\ DayOf[e] = DayOf[first] /\ e \in of(first)
      BY <1>0 DEF Job
    <3>2. copy(first)[e] = FileRow(e)
      BY <2>2, <3>1 DEF FileRow
    <3>. QED BY <1>0, <3>1, <3>2 DEF Global, CopiesAreAccounted
  <2>. HIDE DEF of, i, ids, copy
  <2>4. j.pc = "rsRow" /\ j.fd = i(first) /\ j.ids = ids(first) /\ j.rows = copy(first)
    BY <1>0 DEF Job
  <2>. HIDE DEF j
  <2>5. job'[p] = j
    BY <2>1 DEF TypeOK
  <2>6. Holds(p)'
    BY <1>0, <2>2, <2>3, <2>4, <2>5, RestoreOnly DEF RestoreHolds, FileRow
  <2>7. j.pc \in CollectPCs
    BY <2>4 DEF CollectPCs
  <2>. QED BY <1>0, <2>1, <2>6, <2>7, CollectorTurns, JobOnly
<1>. QED BY <1>2, <1>3

\* Writing the hot row back keeps the rest of the invariant.
LEMMA RestoreRowStep ==
    ASSUME TypeOK, Rest, NEW p \in Procs, RestoreRow(p)
    PROVE  Rest'
<1>0. /\ job[p] \in Job /\ JobsInHand /\ Global /\ NoOverlap /\ job[p].pc = "rsRow"
      /\ job[p].pc \in CollectPCs /\ UNCHANGED <<stage, dirent, data>>
  BY DEF TypeOK, Rest, RestoreRow, fileVars, CollectPCs
<1>1. PICK e \in job[p].ids :
        /\ hot' = [hot EXCEPT ![e] = IF stage[e] = "live" THEN @ \cup job[p].rows[e] ELSE @]
        /\ marker' = [marker EXCEPT ![e] = {}]
        /\ job' = [job EXCEPT ![p] = [@ EXCEPT !.pc = "rsDrop", !.cur = e]]
  BY DEF RestoreRow
<1>. DEFINE rows == job[p].rows
            ids == job[p].ids
            j == [job[p] EXCEPT !.pc = "rsDrop", !.cur = e]
<1>2. /\ ids \subseteq Events /\ e \in Events /\ e \in ids /\ job[p].fd \in Inodes
      /\ \A x \in ids : /\ FileRow(x) \subseteq rows[x]
                        /\ stage[x] # "purged" => rows[x] \subseteq hot[x] \cup marker[x]
  BY <1>0, JobParts DEF JobsInHand, RestoreHolds
<1>3. j.pc = "rsDrop" /\ j.cur = e /\ j.fd = job[p].fd /\ j.ids = ids /\ j.rows = rows
  BY <1>0 DEF Job
<1>4. job' = [job EXCEPT ![p] = j]
  BY <1>1
<1>. HIDE DEF j, rows, ids
<1>5. \A x \in Events :
        /\ marker'[x] = IF x = e THEN {} ELSE marker[x]
        /\ hot'[x] = IF x = e /\ stage[e] = "live" THEN hot[e] \cup rows[e] ELSE hot[x]
  BY <1>1, <1>2 DEF TypeOK, RowSet, rows
<1>6. \A x \in Events : FileRow(x)' = FileRow(x)
  BY <1>0 DEF FileRow
<1>7. marker[e] \subseteq rows[e]
  BY <1>0, <1>2 DEF Global, MarkerNeverOverclaims
<1>8. \A x \in Events : stage[x] # "purged" => hot[x] \cup marker[x] = hot'[x] \cup marker'[x]
  BY <1>0, <1>2, <1>5, <1>7 DEF Global, OnlyLiveRowsHold, Live
<1>9. KeepsCollectors
  BY <1>0, <1>5, <1>6, <1>8 DEF KeepsCollectors
<1>10. Global'
  <2>1. FilesAreLinked' /\ MarkerNeverOverclaims'
    BY <1>0, <1>5, <1>6 DEF Global, FilesAreLinked, MarkerNeverOverclaims
  <2>2. CopiesAreAccounted'
    BY <1>0, <1>6, <1>8 DEF Global, CopiesAreAccounted
  <2>3. OnlyLiveRowsHold'
    BY <1>0, <1>5 DEF Global, OnlyLiveRowsHold, Live
  <2>. QED BY <2>1, <2>2, <2>3 DEF Global
<1>11. Holds(p)'
  <2>1. job'[p] = j
    BY <1>4 DEF TypeOK
  <2>2. \A x \in ids : /\ FileRow(x)' \subseteq rows[x]
                       /\ stage'[x] # "purged" => rows[x] \subseteq hot'[x] \cup marker'[x]
    BY <1>0, <1>2, <1>6, <1>8
  <2>. QED BY <1>2, <1>3, <1>5, <2>1, <2>2, RestoreOnly DEF RestoreHolds
<1>12. j.pc \in CollectPCs
  BY <1>3 DEF CollectPCs
<1>. QED BY <1>0, <1>4, <1>9, <1>10, <1>11, <1>12, CollectorTurns, CollectorWrites,
            NoArchiverBeside

\* Dropping the restored row of the file keeps the rest of the invariant.
LEMMA RestoreDropStep ==
    ASSUME TypeOK, Rest, NEW p \in Procs, RestoreDrop(p)
    PROVE  Rest'
<1>0. /\ job[p] \in Job /\ JobsInHand /\ Global /\ NoOverlap /\ job[p].pc = "rsDrop"
      /\ job[p].pc \in CollectPCs /\ UNCHANGED <<stage, hot, marker, dirent>>
  BY DEF TypeOK, Rest, RestoreDrop, rowVars, CollectPCs
<1>. DEFINE c == job[p].cur
            i == job[p].fd
            ids == job[p].ids \ {c}
            rest == [x \in Events |-> IF x = c THEN NoRow ELSE job[p].rows[x]]
            j == [job[p] EXCEPT !.pc = "rsRow", !.cur = 0, !.ids = ids, !.rows = rest]
<1>1. /\ i \in Inodes /\ c \in Events /\ marker[c] = {}
      /\ \A x \in job[p].ids :
           /\ FileRow(x) \subseteq job[p].rows[x]
           /\ stage[x] # "purged" => job[p].rows[x] \subseteq hot[x] \cup marker[x]
  BY <1>0 DEF JobsInHand, RestoreHolds
<1>2. /\ data' = [data EXCEPT ![i] = [x \in Events |-> IF x = c THEN NoRow ELSE data[i][x]]]
      /\ job' = [job EXCEPT ![p] = j]
  BY DEF RestoreDrop
<1>3. ids \subseteq job[p].ids /\ \A x \in ids : x \in Events /\ rest[x] = job[p].rows[x]
  BY JobParts
<1>. HIDE DEF ids, rest, c, i
<1>4. j.pc = "rsRow" /\ j.fd = i /\ j.ids = ids /\ j.rows = rest
  BY <1>0 DEF Job, i
<1>. HIDE DEF j
<1>5. Global' /\ KeepsCollectors
  <2>1. data' = [data EXCEPT ![i] = [x \in Events |-> IF x \in {c} THEN NoRow ELSE data[i][x]]]
    BY <1>2
  <2>2. {c} \in SUBSET Events /\ \A x \in {c} : marker[x] = {}
    BY <1>1
  <2>. QED BY <1>0, <1>1, <2>1, <2>2, RowsTaken
<1>6. Holds(p)'
  <2>1. job'[p] = j
    BY <1>2 DEF TypeOK
  <2>2. \A x \in ids : /\ FileRow(x)' \subseteq rest[x]
                       /\ stage'[x] # "purged" => rest[x] \subseteq hot'[x] \cup marker'[x]
    BY <1>0, <1>1, <1>3, <1>5 DEF KeepsCollectors
  <2>. QED BY <1>1, <1>4, <2>1, <2>2, RestoreOnly DEF RestoreHolds
<1>7. j.pc \in CollectPCs
  BY <1>4 DEF CollectPCs
<1>. QED BY <1>0, <1>2, <1>5, <1>6, <1>7, CollectorTurns, CollectorWrites, NoArchiverBeside

\* Captures, merges and the backfill only add hot bodies to live rows.
LEMMA RowStepRest ==
    ASSUME TypeOK, Rest, RowStep
    PROVE  Rest'
<1>0. Global /\ NoOverlap /\ JobsInHand
  BY DEF Rest
<1>1. /\ UNCHANGED <<marker, dirent, data, job>>
      /\ \A e \in Events : hot[e] \subseteq hot'[e]
      /\ \A e \in Events : stage'[e] # "purged" <=> stage[e] # "purged"
      /\ \A e \in Events : e \in Live => e \in Live'
      /\ \A e \in Events : e \notin Live' => hot'[e] = hot[e]
  <2>1. ASSUME NEW e \in Events, NEW S \in SUBSET Cols, Capture(e, S)
        PROVE  <1>1!:
    <3>1. hot[e] = {}
      BY <1>0, <2>1 DEF Capture, Global, OnlyLiveRowsHold, Live
    <3>. QED BY <2>1, <3>1 DEF Capture, TypeOK, RowSet, Live, fileVars
  <2>2. ASSUME NEW e \in Events, NEW S \in SUBSET Cols, Merge(e, S)
        PROVE  <1>1!:
    BY <2>2 DEF Merge, Backfill, TypeOK, RowSet, Live, fileVars
  <2>3. ASSUME NEW e \in Events, BackfillToolNames(e)
        PROVE  <1>1!:
    BY <2>3 DEF BackfillToolNames, Live, fileVars
  <2>. QED BY <2>1, <2>2, <2>3 DEF RowStep
<1>2. \A e \in Events : FileRow(e)' = FileRow(e)
  BY <1>1 DEF FileRow
<1>3. KeepsArchivers /\ KeepsCollectors
  BY <1>1, <1>2 DEF KeepsArchivers, KeepsCollectors
<1>4. Global'
  BY <1>0, <1>1, <1>2 DEF Global, FilesAreLinked, MarkerNeverOverclaims, CopiesAreAccounted,
                         OnlyLiveRowsHold
<1>5. \A q \in Procs : Holds(q)'
  BY <1>0, <1>1, <1>3, ArchiverKept, CollectorKept, RestoreKept DEF JobsInHand, Holds
<1>6. NoOverlap'
  BY <1>0, <1>1 DEF NoOverlap
<1>. QED BY <1>4, <1>5, <1>6 DEF Rest, JobsInHand, Holds

\* A purge of any events keeps the rest of the invariant.
LEMMA PurgeStep ==
    ASSUME Serialised, TypeOK, Rest, NEW p \in Procs, NEW S \in SUBSET Events, Purge(p, S)
    PROVE  Rest'
<1>0. Global /\ NoOverlap /\ JobsInHand /\ UNCHANGED <<dirent, data>>
  BY DEF Rest, Purge, fileVars
<1>1. \A e \in Events :
        /\ stage'[e] = IF e \in S THEN "purged" ELSE stage[e]
        /\ hot'[e] = IF e \in S THEN {} ELSE hot[e]
        /\ marker'[e] = IF e \in S THEN {} ELSE marker[e]
  BY DEF Purge
<1>2. \A e \in Events : FileRow(e)' = FileRow(e)
  BY <1>0 DEF FileRow
<1>3. KeepsCollectors
  BY <1>0, <1>1, <1>2 DEF KeepsCollectors
<1>4. FilesAreLinked' /\ MarkerNeverOverclaims'
  BY <1>0, <1>1, <1>2 DEF Global, FilesAreLinked, MarkerNeverOverclaims
<1>5. CopiesAreAccounted' /\ OnlyLiveRowsHold'
  BY <1>0, <1>1, <1>2 DEF Global, CopiesAreAccounted, OnlyLiveRowsHold, Live
<1>6. Collecting(S).pc = "gcOpen"
  BY DEF Collecting, NoJob
<1>7. job' = [job EXCEPT ![p] = Collecting(S)] /\ job'[p] = Collecting(S)
  BY DEF Purge, TypeOK
<1>8. \A q \in Procs \ {p} : job[q].pc \notin ArchivePCs
  BY DEF Purge, MayCollect
<1>9. Collecting(S).pc \in CollectPCs /\ MayTurnTo(p, Collecting(S))
  BY <1>6, <1>8 DEF MayTurnTo, ArchivePCs, CollectPCs
<1>10. Holds(p)'
  BY <1>6, <1>7, HoldsNothing
<1>. QED BY <1>3, <1>4, <1>5, <1>7, <1>8, <1>9, <1>10, CollectorWrites DEF Global

\* Starting, failing and crashing jobs, and the reads of the dashboard.
LEMMA ControlStep ==
    ASSUME Serialised, TypeOK, Rest, NEW p \in Procs,
           StartJob(p) \/ Fail(p) \/ Crash(p) \/ \E e \in Events : Hydrate(p, e)
    PROVE  Rest'
<1>. DEFINE Quiet == {"idle", "select", "gcOpen", "rsDay"}
<1>1. ASSUME NEW j, job' = [job EXCEPT ![p] = j], j.pc \in Quiet, MayTurnTo(p, j),
             UNCHANGED <<rowVars, fileVars>>
      PROVE  Rest'
  <2>1. job'[p].pc \in Quiet
    BY <1>1 DEF TypeOK
  <2>. QED BY <1>1, <2>1, HoldsNothing, JobOnly
<1>2. ASSUME NEW cut, NEW cycle, StartArchive(p, cut, cycle)
      PROVE  Rest'
  <2>. DEFINE j == [NoJob EXCEPT !.pc = "select", !.cut = cut, !.cycle = cycle]
  <2>1. j.pc = "select"
    BY DEF NoJob
  <2>2. MayTurnTo(p, j)
    BY <1>2, <2>1 DEF StartArchive, MayArchive, MayTurnTo, CollectPCs
  <2>. QED BY <1>1, <1>2, <2>1, <2>2 DEF StartArchive
<1>3. CASE StartGC(p)
  <2>1. Collecting({}).pc = "gcOpen"
    BY DEF Collecting, NoJob
  <2>2. MayTurnTo(p, Collecting({}))
    BY <1>3, <2>1 DEF StartGC, MayCollect, MayTurnTo, ArchivePCs
  <2>. QED BY <1>1, <1>3, <2>1, <2>2 DEF StartGC
<1>4. ASSUME NEW lo, NEW hi, StartRestore(p, lo, hi)
      PROVE  Rest'
  <2>. DEFINE todo == {e \in lo..(hi - 1) : marker[e] # {}}
              j == [NoJob EXCEPT !.pc = "rsDay", !.todo = todo]
  <2>1. job' = [job EXCEPT ![p] = j]
    BY <1>4 DEF StartRestore
  <2>. HIDE DEF todo
  <2>2. j.pc = "rsDay"
    BY DEF NoJob
  <2>3. MayTurnTo(p, j)
    BY <1>4, <2>2 DEF StartRestore, MayCollect, MayTurnTo, ArchivePCs
  <2>. QED BY <1>1, <1>4, <2>1, <2>2, <2>3 DEF StartRestore
<1>5. ASSUME job' = [job EXCEPT ![p] = NoJob], UNCHANGED <<rowVars, fileVars>>
      PROVE  Rest'
  <2>1. NoJob.pc = "idle"
    BY DEF NoJob
  <2>. QED BY <1>1, <1>5, <2>1, IdleTurn
<1>6. CASE Fail(p)
  BY <1>5, <1>6, RunOverStep DEF Fail
<1>7. CASE Crash(p)
  BY <1>5, <1>7 DEF Crash
<1>8. ASSUME NEW e \in Events, Hydrate(p, e)
      PROVE  Rest'
  <2>1. UNCHANGED <<rowVars, fileVars, job>>
    BY <1>8 DEF Hydrate
  <2>2. KeepsArchivers /\ KeepsCollectors
    BY <2>1 DEF KeepsArchivers, KeepsCollectors, FileRow, rowVars, fileVars
  <2>3. \A q \in Procs : Holds(q)'
    BY <2>1, <2>2, ArchiverKept, CollectorKept, RestoreKept DEF Rest, JobsInHand, Holds
  <2>4. Global' /\ NoOverlap'
    BY <2>1 DEF Rest, Global, FilesAreLinked, MarkerNeverOverclaims, CopiesAreAccounted,
                OnlyLiveRowsHold, NoOverlap, FileRow, Live, rowVars, fileVars
  <2>. QED BY <2>3, <2>4 DEF Rest, JobsInHand, Holds
<1>. QED BY <1>2, <1>3, <1>4, <1>6, <1>7, <1>8, PurgeStep DEF StartJob

\* The ends of a restore's day and of a restore.
LEMMA RestoreTurns ==
    ASSUME TypeOK, Rest, NEW p \in Procs, RestoreDayDone(p) \/ RestoreOver(p)
    PROVE  Rest'
<1>1. PICK j : /\ job' = [job EXCEPT ![p] = j]
               /\ j.pc \in {"rsDay", "gcOpen"}
  <2>1. CASE RestoreDayDone(p)
    <3>. DEFINE k == [NoJob EXCEPT !.pc = "rsDay", !.todo = job[p].todo]
    <3>1. k.pc = "rsDay"
      BY DEF NoJob
    <3>2. job' = [job EXCEPT ![p] = k]
      BY <2>1 DEF RestoreDayDone
    <3>. QED BY <3>1, <3>2
  <2>2. CASE RestoreOver(p)
    <3>1. Collecting({}).pc = "gcOpen"
      BY DEF Collecting, NoJob
    <3>. QED BY <2>2, <3>1 DEF RestoreOver
  <2>. QED BY <2>1, <2>2
<1>2. job[p].pc \in CollectPCs /\ j.pc \in CollectPCs /\ job'[p] = j
  BY <1>1 DEF RestoreDayDone, RestoreOver, CollectPCs, TypeOK
<1>3. UNCHANGED <<rowVars, fileVars>>
  BY DEF RestoreDayDone, RestoreOver
<1>4. MayTurnTo(p, j)
  BY <1>2, CollectorTurns DEF Rest
<1>. QED BY <1>1, <1>2, <1>3, <1>4, HoldsNothing, JobOnly

\* Each working step of a process keeps the rest of the invariant.
LEMMA WorkStep ==
    ASSUME Serialised, TypeOK, Rest, NEW p \in Procs, Work(p)
    PROVE  Rest'
<1>1. CASE ArchiveStep(p)
  BY <1>1, ArchiverLooks, OpenDayStep, CommitDayStep, MarkAndClearStep DEF ArchiveStep
<1>2. CASE CollectStep(p)
  BY <1>2, CollectorLooks, GCOpenStep, GCSweepStep, GCRemoveStep DEF CollectStep
<1>3. CASE RestoreStep(p)
  BY <1>3, RestoreDayStep, RestoreRowStep, RestoreDropStep, RestoreTurns DEF RestoreStep
<1>. QED BY <1>1, <1>2, <1>3 DEF Work

\* Every step keeps the rest of the invariant.
LEMMA RestStep ==
    ASSUME Serialised, TypeOK, Rest, [Next]_vars
    PROVE  Rest'
<1>1. CASE UNCHANGED vars
  BY <1>1 DEF vars, Rest, Global, FilesAreLinked, MarkerNeverOverclaims, CopiesAreAccounted,
              OnlyLiveRowsHold, NoOverlap, JobsInHand, ArchiverHolds, CollectorHolds,
              RestoreHolds, DayIsEmpty, FileRow, Live
<1>. QED BY <1>1, RowStepRest, ControlStep, WorkStep DEF Next

\* The first state satisfies the rest of the invariant.
LEMMA RestInit == Init => Rest
<1>. SUFFICES ASSUME Init PROVE Rest
  OBVIOUS
<1>1. \A p \in Procs : job[p].pc = "idle"
  BY DEF Init, NoJob
<1>2. NoOverlap /\ JobsInHand
  BY <1>1 DEF NoOverlap, JobsInHand, ArchiverHolds, CollectorHolds, RestoreHolds, ArchivePCs
<1>3. Global
  BY DEF Init, Global, FilesAreLinked, MarkerNeverOverclaims, CopiesAreAccounted,
         OnlyLiveRowsHold, FileRow, NoRows, NoRow
<1>. QED BY <1>2, <1>3 DEF Rest

\* When no archiver run overlaps a collection, a restore or a purge, the
\* archive invariant holds whatever else interleaves, fails or crashes.
THEOREM ArchiveSafety == ASSUME Serialised PROVE Spec => []ArchiveInv
<1>1. Init => Rest
  BY RestInit
<1>2. TypeOK /\ Rest /\ [Next]_vars => Rest'
  BY RestStep
<1>3. TypeOK /\ Rest => ArchiveInv
  BY InvParts
<1>. QED BY <1>1, <1>2, <1>3, Typing, PTL DEF Spec

\* In particular the marker never claims a column the day file does not hold.
THEOREM NoOverclaim == ASSUME Serialised PROVE Spec => []MarkerNeverOverclaims
<1>1. ArchiveInv => MarkerNeverOverclaims
  BY DEF ArchiveInv
<1>. QED BY <1>1, ArchiveSafety, PTL

-----------------------------------------------------------------------------
(* The archive implements the abstract store. *)

\* Under the invariant a reader gets exactly the hot and the marked columns.
LEMMA ReadableIs ==
    TypeOK /\ Rest => \A e \in Events : Readable(e) = hot[e] \cup marker[e]
<1>. SUFFICES ASSUME TypeOK, Rest, NEW e \in Events
              PROVE  Readable(e) = hot[e] \cup marker[e]
  OBVIOUS
<1>1. marker[e] \subseteq FileRow(e)
  BY DEF Rest, Global, MarkerNeverOverclaims
<1>2. CASE stage[e] # "purged"
  BY <1>1, <1>2 DEF Rest, Global, CopiesAreAccounted, Readable
<1>3. CASE stage[e] = "purged"
  BY <1>3 DEF Rest, Global, OnlyLiveRowsHold, Live, Readable
<1>. QED BY <1>2, <1>3

\* The steps of the row store, told by hot and marker.
LEMMA RowStepBodies ==
    ASSUME TypeOK, Rest, RowStep
    PROVE  \/ UNCHANGED <<stage, hot, marker>>
           \/ \E e \in Events, S \in SUBSET Cols :
                /\ \/ stage[e] = "unused" /\ stage' = [stage EXCEPT ![e] = "live"]
                   \/ stage[e] = "live" /\ UNCHANGED stage
                /\ \A x \in Events : hot'[x] \cup marker'[x] =
                     IF x = e THEN hot[x] \cup marker[x] \cup S ELSE hot[x] \cup marker[x]
<1>1. ASSUME NEW e \in Events, NEW S \in SUBSET Cols, Capture(e, S)
      PROVE  \A x \in Events : hot'[x] \cup marker'[x] =
               IF x = e THEN hot[x] \cup marker[x] \cup S ELSE hot[x] \cup marker[x]
  <2>1. hot[e] = {}
    BY <1>1 DEF Capture, Rest, Global, OnlyLiveRowsHold, Live
  <2>. QED BY <1>1, <2>1 DEF Capture, TypeOK, RowSet
<1>2. ASSUME NEW e \in Events, NEW S \in SUBSET Cols, Merge(e, S)
      PROVE  \A x \in Events : hot'[x] \cup marker'[x] =
               IF x = e THEN hot[x] \cup marker[x] \cup S ELSE hot[x] \cup marker[x]
  BY <1>2 DEF Merge, Backfill, TypeOK, RowSet
<1>3. ASSUME NEW e \in Events, BackfillToolNames(e)
      PROVE  UNCHANGED <<stage, hot, marker>>
  BY <1>3 DEF BackfillToolNames
<1>4. ASSUME NEW e \in Events, NEW S \in SUBSET Cols, Capture(e, S) \/ Merge(e, S)
      PROVE  \/ stage[e] = "unused" /\ stage' = [stage EXCEPT ![e] = "live"]
             \/ stage[e] = "live" /\ UNCHANGED stage
  BY <1>4 DEF Capture, Merge
<1>5. CASE \E e \in Events : BackfillToolNames(e)
  BY <1>3, <1>5
<1>6. CASE \E e \in Events, S \in SUBSET Cols : Capture(e, S) \/ Merge(e, S)
  <2>1. PICK e \in Events, S \in SUBSET Cols : Capture(e, S) \/ Merge(e, S)
    BY <1>6
  <2>2. \A x \in Events : hot'[x] \cup marker'[x] =
          IF x = e THEN hot[x] \cup marker[x] \cup S ELSE hot[x] \cup marker[x]
    BY <1>1, <1>2, <2>1
  <2>. QED BY <1>4, <2>1, <2>2
<1>. QED BY <1>5, <1>6 DEF RowStep

\* No job step changes what is hot or marked of an event.
LEMMA WorkBodies ==
    ASSUME TypeOK, Rest, NEW p \in Procs, Work(p)
    PROVE  UNCHANGED stage /\ \A e \in Events : hot'[e] \cup marker'[e] = hot[e] \cup marker[e]
<1>1. CASE UNCHANGED <<stage, hot, marker>>
  BY <1>1
<1>2. CASE MarkAndClear(p) /\ ~UNCHANGED <<stage, hot, marker>>
  <2>. DEFINE mask == job[p].rows
              found == {e \in job[p].ids : mask[e] # {}}
  <2>1. /\ found \subseteq Live /\ UNCHANGED stage
        /\ marker' = [e \in Events |-> IF e \in found THEN marker[e] \cup mask[e] ELSE marker[e]]
        /\ hot' = [e \in Events |-> IF e \in found THEN hot[e] \ mask[e] ELSE hot[e]]
    BY <1>2 DEF MarkAndClear, Cleared
  <2>2. \A e \in Events : mask[e] \subseteq FileRow(e)
    BY <1>2 DEF MarkAndClear, Cleared, Rest, JobsInHand, ArchiverHolds
  <2>3. \A e \in found : FileRow(e) \subseteq hot[e] \cup marker[e]
    BY <2>1 DEF Rest, Global, CopiesAreAccounted, Live
  <2>. HIDE DEF found, mask
  <2>. QED BY <2>1, <2>2, <2>3
<1>3. CASE RestoreRow(p)
  <2>1. PICK e \in job[p].ids :
          /\ hot' = [hot EXCEPT ![e] = IF stage[e] = "live" THEN @ \cup job[p].rows[e] ELSE @]
          /\ marker' = [marker EXCEPT ![e] = {}]
    BY <1>3 DEF RestoreRow
  <2>. DEFINE rows == job[p].rows[e]
  <2>2. e \in Events /\ FileRow(e) \subseteq rows /\ stage' = stage
        /\ (stage[e] # "purged" => rows \subseteq hot[e] \cup marker[e])
    BY <1>3, JobParts DEF RestoreRow, Rest, JobsInHand, RestoreHolds
  <2>3. marker[e] \subseteq rows
    BY <2>2 DEF Rest, Global, MarkerNeverOverclaims
  <2>4. stage[e] # "live" => marker[e] = {}
    BY <2>2 DEF Rest, Global, OnlyLiveRowsHold, Live
  <2>5. \A x \in Events :
          /\ marker'[x] = IF x = e THEN {} ELSE marker[x]
          /\ hot'[x] = IF x = e /\ stage[e] = "live" THEN hot[e] \cup rows ELSE hot[x]
    BY <2>1, <2>2 DEF TypeOK, RowSet
  <2>. HIDE DEF rows
  <2>. QED BY <2>2, <2>3, <2>4, <2>5
<1>. QED BY <1>1, <1>2, <1>3
        DEF Work, ArchiveStep, CollectStep, RestoreStep, SelectBatch, NoCandidates, ReadBodies,
            OpenDay, CommitDay, ReadMasks, GCDone, GCOpen, GCMarkers, GCHot, GCSweep, GCCount,
            GCRemove, RestoreDay, RestoreDrop, RestoreDayDone, RestoreOver, rowVars

\* Every step of the archive is a step of the abstract store or leaves it
\* alone.
LEMMA StoreStep ==
    ASSUME TypeOK, Rest, TypeOK', Rest', [Next]_vars
    PROVE  [Store!StoreNext]_(Store!storeVars)
<1>. DEFINE body == [e \in Events |-> Readable(e)]
<1>1. /\ body = [e \in Events |-> hot[e] \cup marker[e]]
      /\ body' = [e \in Events |-> hot'[e] \cup marker'[e]]
  <2>1. \A e \in Events : Readable(e) = hot[e] \cup marker[e]
    BY ReadableIs
  <2>2. TypeOK' /\ Rest' => (\A e \in Events : Readable(e) = hot[e] \cup marker[e])'
    BY ReadableIs, PTL
  <2>. QED BY <2>1, <2>2
<1>. HIDE DEF body
<1>2. ASSUME UNCHANGED stage, \A e \in Events : hot'[e] \cup marker'[e] = hot[e] \cup marker[e]
      PROVE  UNCHANGED (Store!storeVars)
  BY <1>1, <1>2 DEF Store!storeVars, body
<1>3. CASE RowStep
  <2>1. CASE UNCHANGED <<stage, hot, marker>>
    BY <1>2, <2>1
  <2>2. ASSUME NEW e \in Events, NEW S \in SUBSET Cols,
               \A x \in Events : hot'[x] \cup marker'[x] =
                 IF x = e THEN hot[x] \cup marker[x] \cup S ELSE hot[x] \cup marker[x]
        PROVE  body' = [body EXCEPT ![e] = @ \cup S]
    BY <1>1, <2>2
  <2>3. ASSUME NEW e \in Events, NEW S \in SUBSET Cols,
               stage[e] = "unused", stage' = [stage EXCEPT ![e] = "live"],
               body' = [body EXCEPT ![e] = @ \cup S]
        PROVE  Store!StoreCapture(e, S)
    <3>1. body[e] = {}
      BY <1>1, <2>3 DEF Rest, Global, OnlyLiveRowsHold, Live
    <3>. QED BY <2>3, <3>1 DEF Store!StoreCapture, body
  <2>4. ASSUME NEW e \in Events, NEW S \in SUBSET Cols, stage[e] = "live", UNCHANGED stage,
               body' = [body EXCEPT ![e] = @ \cup S]
        PROVE  Store!StoreMerge(e, S)
    BY <2>4 DEF Store!StoreMerge, body
  <2>. QED BY <1>3, <2>1, <2>2, <2>3, <2>4, RowStepBodies DEF Store!StoreNext
<1>4. ASSUME NEW p \in Procs, NEW S \in SUBSET Events, Purge(p, S)
      PROVE  Store!StorePurge(S)
  <2>1. body' = [e \in Events |-> IF e \in S THEN {} ELSE body[e]]
    BY <1>1, <1>4 DEF Purge
  <2>. QED BY <1>4, <2>1 DEF Purge, Live, Store!StorePurge, body
<1>5. ASSUME UNCHANGED rowVars
      PROVE  UNCHANGED (Store!storeVars)
  BY <1>2, <1>5 DEF rowVars
<1>6. CASE UNCHANGED vars
  BY <1>5, <1>6 DEF vars, rowVars
<1>7. ASSUME NEW p \in Procs, Work(p)
      PROVE  UNCHANGED (Store!storeVars)
  BY <1>2, <1>7, WorkBodies
<1>8. ASSUME NEW p \in Procs, StartJob(p) \/ Fail(p) \/ Crash(p) \/ \E e \in Events : Hydrate(p, e)
      PROVE  UNCHANGED rowVars \/ \E S \in SUBSET Events : Purge(p, S)
  BY <1>8 DEF StartJob, StartArchive, StartGC, StartRestore, Fail, Crash, Hydrate
<1>. QED BY <1>3, <1>4, <1>5, <1>6, <1>7, <1>8 DEF Next, Store!StoreNext

\* In a serialised deployment the archive is invisible: it implements the
\* abstract store, in which only captures, merges and purges change a body.
THEOREM Invisible == ASSUME Serialised PROVE Spec => ArchiveIsInvisible
<1>1. Init => Store!StoreInit
  BY DEF Init, Store!StoreInit, Readable
<1>2. Init => Rest
  BY RestInit
<1>3. TypeOK /\ Rest /\ [Next]_vars => Rest'
  BY RestStep
<1>4. TypeOK /\ Rest /\ TypeOK' /\ Rest' /\ [Next]_vars => [Store!StoreNext]_(Store!storeVars)
  BY StoreStep
<1>. QED BY <1>1, <1>2, <1>3, <1>4, Typing, PTL DEF Spec, ArchiveIsInvisible, Store!StoreSpec
-----------------------------------------------------------------------------
(* A row awaiting the tool-name backfill keeps its request body. *)

InHand == {"read", "open", "commit", "masks", "clear"}

\* Its marker does not list the request body, and no archiver that selected it
\* before it had one can still hold it: selected rows exist, and a request body
\* that a merge adds later brings its tool names.
Awaits(e) == names[e] = "null" /\ ToolCol \in hot[e]

AwaitInv ==
    /\ \A e \in Events : names[e] = "null" => ToolCol \notin marker[e]
    /\ \A p \in Procs : job[p].pc \in InHand =>
         \A e \in job[p].ids : stage[e] # "unused" /\ ~Awaits(e)

\* Captures, merges and the backfill keep the bodies that the backfill awaits.
LEMMA AwaitRow ==
    ASSUME TypeOK, Rest, AwaitInv, RowStep
    PROVE  AwaitInv'
<1>0. OnlyLiveRowsHold
  BY DEF Rest, Global
<1>1. ASSUME NEW e \in Events, NEW S \in SUBSET Cols, Capture(e, S)
      PROVE  AwaitInv'
  <2>1. UNCHANGED <<marker, job>> /\ stage[e] = "unused" /\ marker[e] = {}
    BY <1>0, <1>1 DEF Capture, OnlyLiveRowsHold, Live
  <2>2. \A x \in Events : x # e => stage'[x] = stage[x] /\ hot'[x] = hot[x] /\ names'[x] = names[x]
    BY <1>1 DEF Capture, TypeOK
  <2>3. \A p \in Procs : job[p].ids \subseteq Events
    BY JobParts
  <2>. QED BY <2>1, <2>2, <2>3 DEF AwaitInv, Awaits
<1>2. ASSUME NEW e \in Events, NEW S \in SUBSET Cols, Merge(e, S)
      PROVE  AwaitInv'
  <2>1. UNCHANGED <<stage, marker, job>>
    BY <1>2 DEF Merge, fileVars
  <2>2. /\ \A x \in Events : x # e => hot'[x] = hot[x] /\ names'[x] = names[x]
        /\ names'[e] = MergedNames(e, S) /\ hot'[e] \subseteq hot[e] \cup S
    BY <1>2 DEF Merge, Backfill, TypeOK, RowSet
  <2>3. names'[e] = "null" => ToolCol \notin hot[e] \cup marker[e] \cup S
    BY <2>2 DEF MergedNames
  <2>4. \A p \in Procs : job[p].ids \subseteq Events
    BY JobParts
  <2>. QED BY <2>1, <2>2, <2>3, <2>4 DEF AwaitInv, Awaits
<1>3. ASSUME NEW e \in Events, BackfillToolNames(e)
      PROVE  AwaitInv'
  <2>1. UNCHANGED <<stage, hot, marker, job>> /\ names' = [names EXCEPT ![e] = "set"]
    BY <1>3 DEF BackfillToolNames, fileVars
  <2>2. \A x \in Events : names'[x] = "null" => names[x] = "null"
    BY <2>1 DEF TypeOK
  <2>3. \A p \in Procs : job[p].ids \subseteq Events
    BY JobParts
  <2>. QED BY <2>1, <2>2, <2>3 DEF AwaitInv, Awaits
<1>. QED BY <1>1, <1>2, <1>3 DEF RowStep

\* A step that leaves the rows alone and takes no row in hand.
LEMMA AwaitQuiet ==
    ASSUME AwaitInv, UNCHANGED rowVars,
           \A p \in Procs : job'[p].pc \in InHand =>
               job[p].pc \in InHand /\ job'[p].ids \subseteq job[p].ids
    PROVE  AwaitInv'
BY DEF AwaitInv, Awaits, rowVars

\* A run's end takes no row into a batch.
LEMMA RunOverTakesNothing ==
    ASSUME TypeOK, NEW p \in Procs, RunOver(p), NEW q \in Procs, job'[q].pc \in InHand
    PROVE  job'[q] = job[q]
<1>1. NoJob.pc \notin InHand /\ Collecting({}).pc \notin InHand
  BY DEF NoJob, Collecting, InHand
<1>. QED BY <1>1 DEF RunOver, TypeOK

\* The archiver moves no body that the backfill awaits.
LEMMA AwaitArchive ==
    ASSUME TypeOK, Rest, AwaitInv, NEW p \in Procs, ArchiveStep(p)
    PROVE  AwaitInv'
<1>0. job[p] \in Job /\ job \in [Procs -> Job] /\ NextBatch(p).pc \notin InHand
  BY DEF TypeOK, NextBatch, NoJob, InHand
<1>1. CASE SelectBatch(p)
  <2>1. PICK first \in Candidates(p), last \in Candidates(p) :
          job' = [job EXCEPT ![p] = TakeBatch(p, first, last)]
    BY <1>1 DEF SelectBatch
  <2>2. TakeBatch(p, first, last).ids \subseteq Candidates(p)
    BY <1>0 DEF TakeBatch, Job
  <2>3. \A e \in Candidates(p) : stage[e] # "unused" /\ ~Awaits(e)
    BY DEF Candidates, Live, Awaits
  <2>4. \A q \in Procs : job'[q] = IF q = p THEN TakeBatch(p, first, last) ELSE job[q]
    BY <1>0, <2>1
  <2>5. UNCHANGED rowVars
    BY <1>1 DEF SelectBatch
  <2>. QED BY <2>2, <2>3, <2>4, <2>5 DEF AwaitInv, Awaits, rowVars
<1>2. ASSUME NEW j, job' = [job EXCEPT ![p] = j],
             j.pc \in InHand => job[p].pc \in InHand /\ j.ids \subseteq job[p].ids,
             UNCHANGED rowVars
      PROVE  AwaitInv'
  BY <1>0, <1>2, AwaitQuiet
<1>3. ASSUME RunOver(p), UNCHANGED rowVars
      PROVE  AwaitInv'
  BY <1>3, RunOverTakesNothing, AwaitQuiet
<1>4. CASE NoCandidates(p)
  BY <1>3, <1>4 DEF NoCandidates
<1>5. CASE ReadBodies(p)
  <2>. DEFINE got == {e \in job[p].ids : hot[e] # {}}
              k == [job[p] EXCEPT !.pc = "open", !.ids = got,
                                  !.rows = [e \in Events |-> IF e \in got THEN hot[e] ELSE NoRow]]
              j == IF got = {} THEN NextBatch(p) ELSE k
  <2>1. job' = [job EXCEPT ![p] = j] /\ job[p].pc \in InHand /\ UNCHANGED rowVars
    BY <1>5 DEF ReadBodies, InHand
  <2>2. k.ids = got
    BY <1>0 DEF Job
  <2>3. j.pc \in InHand => j.ids \subseteq job[p].ids
    BY <1>0, <2>2
  <2>. QED BY <1>2, <2>1, <2>3
<1>6. CASE OpenDay(p)
  <2>1. PICK i \in Inodes : job' = [job EXCEPT ![p] = [@ EXCEPT !.pc = "commit", !.fd = i]]
    BY <1>6 DEF OpenDay
  <2>. DEFINE j == [job[p] EXCEPT !.pc = "commit", !.fd = i]
  <2>2. j.ids = job[p].ids
    BY <1>0 DEF Job
  <2>3. job[p].pc \in InHand /\ UNCHANGED rowVars
    BY <1>6 DEF OpenDay, InHand
  <2>. QED BY <1>2, <2>1, <2>2, <2>3
<1>7. CASE CommitDay(p)
  <2>. DEFINE j == [job[p] EXCEPT !.pc = "masks", !.fd = NoFile]
  <2>1. job' = [job EXCEPT ![p] = j] /\ job[p].pc \in InHand /\ UNCHANGED rowVars
    BY <1>7 DEF CommitDay, InHand
  <2>2. j.ids = job[p].ids
    BY <1>0 DEF Job
  <2>. QED BY <1>2, <2>1, <2>2
<1>8. CASE ReadMasks(p)
  <2>. DEFINE i == Handle(p, job[p].day)
              rows == [e \in Events |-> IF e \in job[p].ids THEN data[i][e] ELSE NoRow]
              j == [job[p] EXCEPT !.pc = "clear", !.rows = rows]
  <2>1. RunOver(p) \/ job' = [job EXCEPT ![p] = j]
    BY <1>8 DEF ReadMasks
  <2>2. job[p].pc \in InHand /\ UNCHANGED rowVars
    BY <1>8 DEF ReadMasks, InHand
  <2>. HIDE DEF rows
  <2>3. j.ids = job[p].ids
    BY <1>0 DEF Job
  <2>. QED BY <1>2, <1>3, <2>1, <2>2, <2>3
<1>9. CASE MarkAndClear(p)
  <2>. DEFINE mask == job[p].rows
              found == {e \in job[p].ids : mask[e] # {}}
  <2>1. CASE ~(found \subseteq Live)
    <3>1. RunOver(p) /\ UNCHANGED rowVars
      BY <1>9, <2>1 DEF MarkAndClear, rowVars
    <3>. QED BY <1>3, <3>1
  <2>2. CASE found \subseteq Live
    <3>1. /\ marker' = [e \in Events |-> IF e \in found THEN marker[e] \cup mask[e] ELSE marker[e]]
          /\ hot' = [e \in Events |-> IF e \in found THEN hot[e] \ mask[e] ELSE hot[e]]
          /\ job' = [job EXCEPT ![p] = NextBatch(p)]
          /\ UNCHANGED <<stage, names>>
      BY <1>9, <2>2 DEF MarkAndClear, Cleared
    <3>2. \A e \in found : mask[e] \subseteq hot[e] \cup marker[e]
      <4>1. \A e \in Events : mask[e] \subseteq FileRow(e)
        BY <1>9 DEF MarkAndClear, Rest, JobsInHand, ArchiverHolds
      <4>2. \A e \in Live : FileRow(e) \subseteq hot[e] \cup marker[e]
        BY DEF Rest, Global, CopiesAreAccounted, Live
      <4>. QED BY <2>2, <4>1, <4>2 DEF Live
    <3>3. \A e \in found : names[e] = "null" => ToolCol \notin hot[e] /\ ToolCol \notin marker[e]
      BY <1>9, JobParts DEF MarkAndClear, AwaitInv, Awaits, InHand
    <3>4. \A q \in Procs : job'[q] = IF q = p THEN NextBatch(p) ELSE job[q]
      BY <1>0, <3>1
    <3>5. \A q \in Procs : job[q].ids \subseteq Events
      BY JobParts
    <3>. HIDE DEF found, mask
    <3>6. \A e \in Events : names'[e] = "null" => ToolCol \notin marker'[e]
      BY <3>1, <3>2, <3>3 DEF AwaitInv
    <3>7. \A e \in Events : Awaits(e)' => Awaits(e)
      BY <3>1 DEF Awaits
    <3>. QED BY <1>0, <3>1, <3>4, <3>5, <3>6, <3>7 DEF AwaitInv
  <2>. QED BY <2>1, <2>2
<1>. QED BY <1>1, <1>4, <1>5, <1>6, <1>7, <1>8, <1>9 DEF ArchiveStep

\* A collector never turns into an archiver.
LEMMA CollectorsTakeNothing ==
    ASSUME TypeOK, NEW p \in Procs, CollectStep(p) \/ RestoreStep(p)
    PROVE  \A q \in Procs : job'[q].pc \in InHand => job'[q] = job[q]
<1>0. job \in [Procs -> Job]
  BY DEF TypeOK
<1>1. ASSUME NEW j, job' = [job EXCEPT ![p] = j], j.pc \notin InHand
      PROVE  \A q \in Procs : job'[q].pc \in InHand => job'[q] = job[q]
  BY <1>0, <1>1
<1>2. /\ NoJob.pc \notin InHand /\ \A S : Collecting(S).pc \notin InHand
      /\ \A S : [NoJob EXCEPT !.pc = "rsDay", !.todo = S].pc \notin InHand
  BY DEF NoJob, Collecting, InHand
<1>3. job[p] \in Job
  BY <1>0
<1>4. CASE GCDone(p) \/ RestoreDayDone(p) \/ RestoreOver(p)
  BY <1>1, <1>2, <1>4 DEF GCDone, RestoreDayDone, RestoreOver
<1>5. CASE GCOpen(p)
  <2>1. PICK d \in job[p].days, i \in Inodes :
          job' = [job EXCEPT ![p] =
                     IF ~(dirent[d] = i /\ i \in table) THEN NoJob
                     ELSE [@ EXCEPT !.pc = "gcMarkers", !.day = d, !.fd = i,
                                    !.days = job[p].days \ {d},
                                    !.ids = {e \in Events : data[i][e] # NoRow}]]
    BY <1>5 DEF GCOpen
  <2>. DEFINE ids == {e \in Events : data[i][e] # NoRow}
              k == [job[p] EXCEPT !.pc = "gcMarkers", !.day = d, !.fd = i,
                                  !.days = job[p].days \ {d}, !.ids = ids]
  <2>2. k.pc = "gcMarkers"
    BY <1>3 DEF Job
  <2>3. k.pc \notin InHand
    BY <2>2 DEF InHand
  <2>. QED BY <1>1, <1>2, <2>1, <2>3
<1>6. CASE GCMarkers(p) \/ GCHot(p) \/ GCSweep(p) \/ GCCount(p) \/ GCRemove(p) \/ RestoreRow(p)
           \/ RestoreDrop(p)
  <2>1. job'[p].pc \notin InHand
    <3>1. ASSUME NEW c \in PCs \ InHand, NEW ids,
                 job' = [job EXCEPT ![p] = [@ EXCEPT !.pc = c, !.ids = ids]]
          PROVE  job'[p].pc \notin InHand
      BY <1>0, <1>3, <3>1 DEF Job
    <3>6. {"gcHot", "gcSweep", "gcOpen", "gcRemove"} \subseteq PCs \ InHand
      BY DEF PCs, CollectPCs, InHand
    <3>7. CASE GCMarkers(p)
      BY <3>1, <3>6, <3>7 DEF GCMarkers
    <3>8. CASE GCHot(p)
      BY <3>1, <3>6, <3>8 DEF GCHot
    <3>2. CASE GCSweep(p)
      BY <1>0, <1>3, <3>2 DEF GCSweep, Job, InHand
    <3>3. CASE GCCount(p)
      <4>1. PICK c \in {"gcRemove", "gcOpen"} :
              job' = [job EXCEPT ![p] = [@ EXCEPT !.pc = c, !.fd = NoFile]]
        BY <3>3 DEF GCCount
      <4>. QED BY <1>0, <1>3, <4>1 DEF Job, InHand
    <3>9. CASE GCRemove(p)
      BY <1>0, <1>3, <3>9 DEF GCRemove, Job, InHand
    <3>4. CASE RestoreRow(p)
      BY <1>0, <1>3, <3>4 DEF RestoreRow, Job, InHand
    <3>5. CASE RestoreDrop(p)
      <4>1. PICK ids, rows : job' = [job EXCEPT ![p] = [@ EXCEPT !.pc = "rsRow", !.cur = 0,
                                                         !.ids = ids, !.rows = rows]]
        BY <3>5 DEF RestoreDrop
      <4>. QED BY <1>0, <1>3, <4>1 DEF Job, InHand
    <3>. QED BY <1>6, <3>2, <3>3, <3>4, <3>5, <3>7, <3>8, <3>9
  <2>2. \A q \in Procs : q # p => job'[q] = job[q]
    BY <1>0, <1>6
       DEF GCMarkers, GCHot, GCSweep, GCCount, GCRemove, RestoreRow, RestoreDrop
  <2>. QED BY <2>1, <2>2
<1>7. CASE RestoreDay(p)
  <2>1. job'[p].pc \notin InHand
    <3>1. PICK first, of, ids, rows :
            job' = [job EXCEPT ![p] =
                      IF dirent[DayOf[first]] \notin table
                      THEN [@ EXCEPT !.todo = job[p].todo \ of]
                      ELSE [@ EXCEPT !.pc = "rsRow", !.todo = job[p].todo \ of,
                                     !.day = DayOf[first], !.fd = dirent[DayOf[first]],
                                     !.ids = ids, !.rows = rows]]
      BY <1>7 DEF RestoreDay
    <3>. QED BY <1>0, <1>3, <1>7, <3>1 DEF Job, InHand, RestoreDay
  <2>2. \A q \in Procs : q # p => job'[q] = job[q]
    BY <1>0, <1>7 DEF RestoreDay
  <2>. QED BY <2>1, <2>2
<1>. QED BY <1>4, <1>5, <1>6, <1>7 DEF CollectStep, RestoreStep

\* Collections and restores take no body that the backfill awaits.
LEMMA AwaitCollect ==
    ASSUME TypeOK, Rest, AwaitInv, NEW p \in Procs, CollectStep(p) \/ RestoreStep(p)
    PROVE  AwaitInv'
<1>1. CASE UNCHANGED rowVars
  BY <1>1, CollectorsTakeNothing, AwaitQuiet
<1>2. CASE RestoreRow(p)
  <2>1. PICK e \in job[p].ids :
          /\ hot' = [hot EXCEPT ![e] = IF stage[e] = "live" THEN @ \cup job[p].rows[e] ELSE @]
          /\ marker' = [marker EXCEPT ![e] = {}]
    BY <1>2 DEF RestoreRow
  <2>2. e \in Events /\ UNCHANGED <<stage, names>>
        /\ (stage[e] # "purged" => job[p].rows[e] \subseteq hot[e] \cup marker[e])
    BY <1>2, JobParts DEF RestoreRow, Rest, JobsInHand, RestoreHolds
  <2>. DEFINE rows == job[p].rows[e]
  <2>3. \A x \in Events :
          /\ marker'[x] = IF x = e THEN {} ELSE marker[x]
          /\ hot'[x] = IF x = e /\ stage[e] = "live" THEN hot[e] \cup rows ELSE hot[x]
    BY <2>1, <2>2 DEF TypeOK, RowSet
  <2>. HIDE DEF rows
  <2>4. \A x \in Events : Awaits(x)' => Awaits(x)
    BY <2>2, <2>3 DEF Awaits, AwaitInv, rows
  <2>5. \A q \in Procs : job[q].ids \subseteq Events
    BY JobParts
  <2>. QED BY <2>2, <2>3, <2>4, <2>5, CollectorsTakeNothing DEF AwaitInv
<1>. QED BY <1>1, <1>2
        DEF CollectStep, RestoreStep, GCDone, GCOpen, GCMarkers, GCHot, GCSweep, GCCount,
            GCRemove, RestoreDay, RestoreDrop, RestoreDayDone, RestoreOver

\* Starting, failing, dying and reading take no body that the backfill awaits.
LEMMA AwaitControl ==
    ASSUME TypeOK, Rest, AwaitInv, NEW p \in Procs,
           StartJob(p) \/ Fail(p) \/ Crash(p) \/ \E e \in Events : Hydrate(p, e)
    PROVE  AwaitInv'
<1>0. job \in [Procs -> Job]
  BY DEF TypeOK
<1>1. /\ NoJob.pc \notin InHand /\ \A S : Collecting(S).pc \notin InHand
      /\ \A S : [NoJob EXCEPT !.pc = "rsDay", !.todo = S].pc \notin InHand
      /\ \A cut, cycle : [NoJob EXCEPT !.pc = "select", !.cut = cut, !.cycle = cycle].pc \notin InHand
  BY DEF NoJob, Collecting, InHand
<1>2. ASSUME NEW j, job' = [job EXCEPT ![p] = j], j.pc \notin InHand, UNCHANGED rowVars
      PROVE  AwaitInv'
  BY <1>0, <1>2, AwaitQuiet
<1>3. ASSUME NEW S \in SUBSET Events, Purge(p, S)
      PROVE  AwaitInv'
  <2>1. job' = [job EXCEPT ![p] = Collecting(S)] /\ S \subseteq Live
    BY <1>3 DEF Purge
  <2>2. \A x \in Events :
          /\ stage'[x] = IF x \in S THEN "purged" ELSE stage[x]
          /\ hot'[x] = IF x \in S THEN {} ELSE hot[x]
          /\ marker'[x] = IF x \in S THEN {} ELSE marker[x]
          /\ names'[x] = IF x \in S THEN "null" ELSE names[x]
    BY <1>3 DEF Purge
  <2>3. \A x \in Events : Awaits(x)' => Awaits(x)
    BY <2>2 DEF Awaits
  <2>4. \A q \in Procs : job'[q].pc \in InHand => job'[q] = job[q]
    BY <1>0, <1>1, <2>1
  <2>5. \A q \in Procs : job[q].ids \subseteq Events
    BY JobParts
  <2>. QED BY <2>2, <2>3, <2>4, <2>5 DEF AwaitInv
<1>4. CASE UNCHANGED <<rowVars, job>>
  BY <1>4, AwaitQuiet
<1>5. CASE Fail(p)
  <2>1. UNCHANGED rowVars
    BY <1>5 DEF Fail
  <2>2. RunOver(p) \/ job' = [job EXCEPT ![p] = NoJob]
    BY <1>5 DEF Fail
  <2>. QED BY <1>1, <1>2, <2>1, <2>2, RunOverTakesNothing, AwaitQuiet
<1>6. CASE Crash(p)
  BY <1>1, <1>2, <1>6 DEF Crash
<1>7. CASE StartJob(p)
  BY <1>1, <1>2, <1>3, <1>7 DEF StartJob, StartArchive, StartGC, StartRestore
<1>. QED BY <1>4, <1>5, <1>6, <1>7 DEF Hydrate

\* Every step keeps the bodies that the backfill awaits.
LEMMA AwaitStep ==
    ASSUME TypeOK, Rest, AwaitInv, [Next]_vars
    PROVE  AwaitInv'
<1>1. CASE UNCHANGED vars
  BY <1>1, AwaitQuiet DEF vars, rowVars
<1>. QED BY <1>1, AwaitRow, AwaitArchive, AwaitCollect, AwaitControl DEF Next, Work

\* In a serialised deployment a row that awaits the tool-name backfill never
\* has its request body moved to the archive, where the backfill would not
\* look: whatever interleaves, fails or crashes, and for any number of
\* processes.
THEOREM AwaitingAlwaysHot == ASSUME Serialised PROVE Spec => []AwaitingStaysHot
<1>1. Init => Rest
  BY RestInit
<1>2. Init => AwaitInv
  BY DEF Init, AwaitInv, NoJob, InHand
<1>3. TypeOK /\ Rest /\ [Next]_vars => Rest'
  BY RestStep
<1>4. TypeOK /\ Rest /\ AwaitInv /\ [Next]_vars => AwaitInv'
  BY AwaitStep
<1>5. TypeOK /\ Rest /\ AwaitInv => AwaitingStaysHot
  BY ReadableIs DEF AwaitingStaysHot, AwaitInv
<1>. QED BY <1>1, <1>2, <1>3, <1>4, <1>5, Typing, PTL DEF Spec

-----------------------------------------------------------------------------
(* Jobs of different processes that overlap: what a collection or a restore
   spares, and what a purge's collection leaves. *)

\* A step of a collection or of an archiver turns no other process's job.
LEMMA OthersRest ==
    ASSUME TypeOK, NEW q \in Procs, Work(q), NEW p \in Procs, p # q
    PROVE  job'[p] = job[p]
BY DEF Work, ArchiveStep, CollectStep, RestoreStep, SelectBatch, NoCandidates, ReadBodies,
       OpenDay, CommitDay, ReadMasks, MarkAndClear, GCDone, GCOpen, GCMarkers, GCHot, GCSweep,
       GCCount, GCRemove, RestoreDay, RestoreRow, RestoreDrop, RestoreDayDone, RestoreOver,
       RunOver, TypeOK

\* Rows that are taken out of one file leave every file with at most its rows.
LEMMA TakenOut ==
    ASSUME TypeOK, NEW i, NEW gone, UNCHANGED dirent,
           data' = [data EXCEPT ![i] = [x \in Events |-> IF x \in gone THEN NoRow ELSE data[i][x]]],
           NEW e \in Events
    PROVE  /\ FileRow(e)' \subseteq FileRow(e)
           /\ e \notin gone => FileRow(e)' = FileRow(e)
<1>1. CASE dirent[DayOf[e]] = NoFile
  BY <1>1 DEF FileRow
<1>2. CASE dirent[DayOf[e]] # NoFile
  <2>1. dirent[DayOf[e]] \in Inodes
    BY <1>2, FileRowType
  <2>2. data'[dirent[DayOf[e]]][e] =
          IF dirent[DayOf[e]] = i /\ e \in gone THEN NoRow ELSE data[dirent[DayOf[e]]][e]
    BY <2>1 DEF TypeOK
  <2>. QED BY <1>2, <2>2 DEF FileRow, NoRow
<1>. QED BY <1>1, <1>2

\* Files grow by nothing but an archiver's commit, and by its batch only.
LEMMA FilesMove ==
    ASSUME TypeOK, NEW q \in Procs, Work(q), NEW e \in Events
    PROVE  FileRow(e)' \subseteq FileRow(e) \/ (CommitDay(q) /\ e \in job[q].ids)
<1>0. job[q].day \in Days
  BY JobParts
<1>1. CASE UNCHANGED <<dirent, data>>
  BY <1>1 DEF FileRow
<1>2. ASSUME NEW d \in Days, NEW i \in Inodes, OpensAs(d, i)
      PROVE  FileRow(e)' \subseteq FileRow(e)
  BY <1>2, OpensAsRows
<1>3. CASE GCOpen(q)
  <2>1. PICK d \in job[q].days, i \in Inodes : OpensAs(d, i)
    BY <1>3 DEF GCOpen
  <2>2. d \in Days
    <3>1. job[q] \in Job
      BY DEF TypeOK
    <3>. QED BY <2>1, <3>1 DEF Job
  <2>. QED BY <1>2, <2>1, <2>2
<1>4. CASE OpenDay(q)
  BY <1>0, <1>2, <1>4 DEF OpenDay
<1>5. CASE GCSweep(q)
  BY <1>5, TakenOut DEF GCSweep
<1>6. CASE RestoreDrop(q)
  <2>. DEFINE gone == {job[q].cur}
  <2>1. /\ UNCHANGED dirent
        /\ data' = [data EXCEPT ![job[q].fd] =
                      [x \in Events |-> IF x \in gone THEN NoRow ELSE data[job[q].fd][x]]]
    BY <1>6 DEF RestoreDrop
  <2>. HIDE DEF gone
  <2>. QED BY <2>1, TakenOut
<1>7. CASE GCRemove(q)
  <2>1. FileRow(e)' = NoRow \/ FileRow(e)' = FileRow(e)
    BY <1>7, FileRowType DEF GCRemove, FileRow, TypeOK
  <2>. QED BY <2>1 DEF NoRow
<1>8. CASE CommitDay(q) /\ e \notin job[q].ids
  <2>1. dirent[DayOf[e]] \in Inodes => data'[dirent[DayOf[e]]][e] = data[dirent[DayOf[e]]][e]
    BY <1>8 DEF CommitDay, TypeOK
  <2>. QED BY <1>8, <2>1, FileRowType DEF CommitDay, FileRow
<1>. QED BY <1>1, <1>3, <1>4, <1>5, <1>6, <1>7, <1>8
        DEF Work, ArchiveStep, CollectStep, RestoreStep, SelectBatch, NoCandidates, ReadBodies,
            ReadMasks, MarkAndClear, GCDone, GCMarkers, GCHot, GCCount,
            RestoreDay, RestoreRow, RestoreDayDone, RestoreOver, fileVars

\* A day's name leads to another file only if it led nowhere, or the day's rows
\* are gone with the old one.
LEMMA NamesMove ==
    ASSUME TypeOK, NEW q \in Procs, Work(q), NEW d \in Days
    PROVE  \/ dirent'[d] = dirent[d]
           \/ dirent[d] = NoFile
           \/ \A e \in Events : DayOf[e] = d => FileRow(e)' = NoRow
<1>0. job[q].day \in Days
  BY JobParts
<1>1. CASE UNCHANGED dirent
  BY <1>1
<1>2. CASE GCOpen(q)
  <2>1. PICK x \in job[q].days, i \in Inodes : OpensAs(x, i)
    BY <1>2 DEF GCOpen
  <2>2. x \in Days
    <3>1. job[q] \in Job
      BY DEF TypeOK
    <3>. QED BY <2>1, <3>1 DEF Job
  <2>. QED BY <2>1, <2>2, OpensAsRows
<1>3. CASE OpenDay(q)
  BY <1>0, <1>3, OpensAsRows DEF OpenDay
<1>4. CASE GCRemove(q)
  <2>1. dirent'[d] = IF d = job[q].day THEN NoFile ELSE dirent[d]
    BY <1>4 DEF GCRemove, TypeOK
  <2>. QED BY <2>1 DEF FileRow
<1>. QED BY <1>1, <1>2, <1>3, <1>4
        DEF Work, ArchiveStep, CollectStep, RestoreStep, SelectBatch, NoCandidates, ReadBodies,
            CommitDay, ReadMasks, MarkAndClear, GCDone, GCMarkers, GCHot, GCSweep, GCCount,
            RestoreDay, RestoreRow, RestoreDrop, RestoreDayDone, RestoreOver, fileVars

\* A row is marked by nothing but an archiver's step.
LEMMA MarkersMove ==
    ASSUME TypeOK, [Next]_vars, NEW e \in Events, marker[e] = {}
    PROVE  marker'[e] = {} \/ e \in Moved
<1>1. CASE UNCHANGED marker
  BY <1>1
<1>2. ASSUME NEW p \in Procs, MarkAndClear(p)
      PROVE  marker'[e] = {} \/ e \in Moved
  BY <1>2 DEF Moved
<1>3. ASSUME NEW p \in Procs, RestoreRow(p)
      PROVE  marker'[e] = {}
  BY <1>3 DEF RestoreRow, TypeOK
<1>4. ASSUME NEW p \in Procs, NEW S, Purge(p, S)
      PROVE  marker'[e] = {}
  BY <1>4 DEF Purge
<1>5. CASE RowStep
  BY <1>1, <1>5 DEF RowStep, Capture, Merge, BackfillToolNames
<1>6. ASSUME NEW p \in Procs, StartJob(p) \/ Fail(p) \/ Crash(p) \/ \E x \in Events : Hydrate(p, x)
      PROVE  marker'[e] = {}
  BY <1>1, <1>4, <1>6
     DEF StartJob, StartArchive, StartGC, StartRestore, Fail, Crash, Hydrate, rowVars
<1>7. ASSUME NEW p \in Procs, Work(p)
      PROVE  marker'[e] = {} \/ e \in Moved
  BY <1>1, <1>2, <1>3, <1>7
     DEF Work, ArchiveStep, CollectStep, RestoreStep, SelectBatch, NoCandidates, ReadBodies,
         OpenDay, CommitDay, ReadMasks, GCDone, GCOpen, GCMarkers, GCHot, GCSweep,
         GCCount, GCRemove, RestoreDay, RestoreDrop, RestoreDayDone, RestoreOver, rowVars
<1>. QED BY <1>1, <1>5, <1>6, <1>7 DEF Next, vars

\* A row stays purged.
LEMMA StaysPurged ==
    ASSUME TypeOK, [Next]_vars, NEW e \in Events, stage[e] = "purged"
    PROVE  stage'[e] = "purged"
<1>1. CASE UNCHANGED stage
  BY <1>1
<1>2. ASSUME NEW x \in Events, NEW S, Capture(x, S)
      PROVE  stage'[e] = "purged"
  BY <1>2 DEF Capture, TypeOK
<1>3. ASSUME NEW p \in Procs, NEW S, Purge(p, S)
      PROVE  stage'[e] = "purged"
  BY <1>3 DEF Purge
<1>4. CASE RowStep
  BY <1>1, <1>2, <1>4 DEF RowStep, Merge, BackfillToolNames
<1>5. ASSUME NEW p \in Procs, StartJob(p) \/ Fail(p) \/ Crash(p) \/ \E x \in Events : Hydrate(p, x)
      PROVE  stage'[e] = "purged"
  BY <1>1, <1>3, <1>5
     DEF StartJob, StartArchive, StartGC, StartRestore, Fail, Crash, Hydrate, rowVars
<1>6. ASSUME NEW p \in Procs, Work(p)
      PROVE  UNCHANGED stage
  BY <1>6
     DEF Work, ArchiveStep, CollectStep, RestoreStep, SelectBatch, NoCandidates, ReadBodies,
         OpenDay, CommitDay, ReadMasks, MarkAndClear, GCDone, GCOpen, GCMarkers, GCHot, GCSweep,
         GCCount, GCRemove, RestoreDay, RestoreRow, RestoreDrop, RestoreDayDone, RestoreOver,
         rowVars
<1>. QED BY <1>1, <1>4, <1>5, <1>6 DEF Next, vars

\* What becomes of the job of a process that moves outside the steps on a day
\* file: it has no file in hand, or it lists the files for a new collection.
TurnsAway(p) ==
    \/ job'[p].pc \notin FileInHand \cup GCPCs
    \/ /\ job[p].pc \notin GCPCs
       /\ \E S : job'[p] = Collecting(S)
       /\ UNCHANGED <<dirent, data>>

\* The end of an archiver's run turns away from it.
LEMMA RunOverTurns ==
    ASSUME TypeOK, NEW p \in Procs, job[p].pc \in ArchivePCs, RunOver(p), UNCHANGED <<dirent, data>>
    PROVE  TurnsAway(p)
<1>1. NoJob.pc \notin FileInHand \cup GCPCs /\ job[p].pc \notin GCPCs
  BY DEF NoJob, FileInHand, GCPCs, ArchivePCs
<1>. QED BY <1>1 DEF RunOver, TurnsAway, TypeOK

\* An archiver has no collector's file in hand.
LEMMA ArchiveTurns ==
    ASSUME TypeOK, NEW p \in Procs, ArchiveStep(p)
    PROVE  TurnsAway(p)
<1>0. job[p] \in Job /\ job \in [Procs -> Job]
  BY DEF TypeOK
<1>1. ASSUME NEW j, job' = [job EXCEPT ![p] = j], j.pc \notin FileInHand \cup GCPCs
      PROVE  TurnsAway(p)
  BY <1>0, <1>1 DEF TurnsAway
<1>2. NextBatch(p).pc \notin FileInHand \cup GCPCs
  BY DEF NextBatch, NoJob, FileInHand, GCPCs
<1>3. CASE SelectBatch(p)
  <2>1. PICK first \in Candidates(p), last \in Candidates(p) :
          job' = [job EXCEPT ![p] = TakeBatch(p, first, last)]
    BY <1>3 DEF SelectBatch
  <2>2. TakeBatch(p, first, last).pc \notin FileInHand \cup GCPCs
    BY <1>0 DEF TakeBatch, Job, FileInHand, GCPCs
  <2>. QED BY <1>1, <2>1, <2>2
<1>4. CASE NoCandidates(p)
  BY <1>4, RunOverTurns DEF NoCandidates, ArchivePCs, fileVars
<1>5. CASE ReadBodies(p)
  <2>. DEFINE got == {e \in job[p].ids : hot[e] # {}}
              k == [job[p] EXCEPT !.pc = "open", !.ids = got,
                                  !.rows = [e \in Events |-> IF e \in got THEN hot[e] ELSE NoRow]]
  <2>1. job' = [job EXCEPT ![p] = IF got = {} THEN NextBatch(p) ELSE k]
    BY <1>5 DEF ReadBodies
  <2>2. k.pc \notin FileInHand \cup GCPCs
    BY <1>0 DEF Job, FileInHand, GCPCs
  <2>. QED BY <1>1, <1>2, <2>1, <2>2
<1>6. CASE OpenDay(p)
  <2>1. PICK i \in Inodes : job' = [job EXCEPT ![p] = [@ EXCEPT !.pc = "commit", !.fd = i]]
    BY <1>6 DEF OpenDay
  <2>2. [job[p] EXCEPT !.pc = "commit", !.fd = i].pc \notin FileInHand \cup GCPCs
    BY <1>0 DEF Job, FileInHand, GCPCs
  <2>. QED BY <1>1, <2>1, <2>2
<1>7. CASE CommitDay(p)
  <2>1. [job[p] EXCEPT !.pc = "masks", !.fd = NoFile].pc \notin FileInHand \cup GCPCs
    BY <1>0 DEF Job, FileInHand, GCPCs
  <2>. QED BY <1>1, <1>7, <2>1 DEF CommitDay
<1>8. CASE ReadMasks(p)
  <2>1. PICK rows : RunOver(p) \/ job' = [job EXCEPT ![p] = [@ EXCEPT !.pc = "clear", !.rows = rows]]
    BY <1>8 DEF ReadMasks
  <2>2. [job[p] EXCEPT !.pc = "clear", !.rows = rows].pc \notin FileInHand \cup GCPCs
    BY <1>0 DEF Job, FileInHand, GCPCs
  <2>3. job[p].pc \in ArchivePCs /\ UNCHANGED <<dirent, data>>
    BY <1>8 DEF ReadMasks, ArchivePCs, fileVars
  <2>. QED BY <1>1, <2>1, <2>2, <2>3, RunOverTurns
<1>9. CASE MarkAndClear(p)
  <2>1. job[p].pc \in ArchivePCs /\ UNCHANGED <<dirent, data>>
    BY <1>9 DEF MarkAndClear, ArchivePCs, fileVars
  <2>. QED BY <1>1, <1>2, <1>9, <2>1, RunOverTurns DEF MarkAndClear
<1>. QED BY <1>3, <1>4, <1>5, <1>6, <1>7, <1>8, <1>9 DEF ArchiveStep

\* Nor has a job that starts, fails or dies.
LEMMA ControlTurns ==
    ASSUME TypeOK, NEW p \in Procs, StartJob(p) \/ Fail(p) \/ Crash(p)
    PROVE  TurnsAway(p) /\ \A q \in Procs \ {p} : job'[q] = job[q]
<1>0. job \in [Procs -> Job] /\ UNCHANGED <<dirent, data>>
  BY DEF TypeOK, StartJob, StartArchive, StartGC, StartRestore, Purge, Fail, Crash, fileVars
<1>1. ASSUME NEW j, job' = [job EXCEPT ![p] = j],
             \/ j.pc \notin FileInHand \cup GCPCs
             \/ job[p].pc = "idle" /\ \E S : j = Collecting(S)
      PROVE  TurnsAway(p) /\ \A q \in Procs \ {p} : job'[q] = job[q]
  <2>1. "idle" \notin GCPCs
    BY DEF GCPCs
  <2>. QED BY <1>0, <1>1, <2>1 DEF TurnsAway
<1>2. /\ NoJob.pc \notin FileInHand \cup GCPCs
      /\ \A S : [NoJob EXCEPT !.pc = "rsDay", !.todo = S].pc \notin FileInHand \cup GCPCs
      /\ \A cut, cycle :
           [NoJob EXCEPT !.pc = "select", !.cut = cut, !.cycle = cycle].pc \notin FileInHand \cup GCPCs
  BY DEF NoJob, FileInHand, GCPCs
<1>3. CASE \E cut \in 1..(NumEvents + 1), cycle \in BOOLEAN : StartArchive(p, cut, cycle)
  BY <1>1, <1>2, <1>3 DEF StartArchive
<1>4. CASE StartGC(p)
  BY <1>1, <1>4 DEF StartGC
<1>5. CASE \E S \in SUBSET Events : Purge(p, S)
  BY <1>1, <1>5 DEF Purge
<1>6. CASE \E lo, hi \in 1..(NumEvents + 1) : StartRestore(p, lo, hi)
  BY <1>1, <1>2, <1>6 DEF StartRestore
<1>7. CASE Crash(p)
  BY <1>1, <1>2, <1>7 DEF Crash
<1>8. CASE Fail(p)
  <2>1. CASE job[p].pc \in ArchivePCs /\ RunOver(p)
    BY <1>0, <2>1, RunOverTurns DEF RunOver
  <2>2. CASE job' = [job EXCEPT ![p] = NoJob]
    BY <1>1, <1>2, <2>2
  <2>. QED BY <1>8, <2>1, <2>2 DEF Fail
<1>. QED BY <1>3, <1>4, <1>5, <1>6, <1>7, <1>8 DEF StartJob

\* A restore that opens the next day either skips it or has its rows in hand.
LEMMA RestoreDayTurns ==
    ASSUME TypeOK, NEW p \in Procs, RestoreDay(p)
    PROVE  job'[p].pc \in {"rsDay", "rsRow"}
<1>0. job[p] \in Job /\ job \in [Procs -> Job]
  BY DEF TypeOK
<1>1. PICK first, of, ids, rows :
        job' = [job EXCEPT ![p] =
                  IF dirent[DayOf[first]] \notin table
                  THEN [@ EXCEPT !.todo = job[p].todo \ of]
                  ELSE [@ EXCEPT !.pc = "rsRow", !.todo = job[p].todo \ of,
                                 !.day = DayOf[first], !.fd = dirent[DayOf[first]],
                                 !.ids = ids, !.rows = rows]]
  BY DEF RestoreDay
<1>. DEFINE missing == [job[p] EXCEPT !.todo = job[p].todo \ of]
            found == [job[p] EXCEPT !.pc = "rsRow", !.todo = job[p].todo \ of,
                                    !.day = DayOf[first], !.fd = dirent[DayOf[first]],
                                    !.ids = ids, !.rows = rows]
<1>2. missing.pc = "rsDay"
  BY <1>0 DEF Job, RestoreDay
<1>3. found.pc = "rsRow"
  BY <1>0 DEF Job
<1>4. job'[p] = missing \/ job'[p] = found
  BY <1>0, <1>1
<1>. QED BY <1>2, <1>3, <1>4

\* An archiver copies only rows that have a hot body.
LEMMA CopiesMove ==
    ASSUME TypeOK, [Next]_vars, NEW q \in Procs, NEW e \in Events, CopiedBy(q, e)'
    PROVE  CopiedBy(q, e) \/ hot[e] # {}
<1>0. job \in [Procs -> Job] /\ job[q] \in Job
  BY DEF TypeOK
<1>. USE DEF CopiedBy
<1>1. CASE job'[q] = job[q]
  BY <1>1
<1>2. job'[q] = job[q] \/ job'[q].pc \notin {"open", "commit"} \/ CopiedBy(q, e) \/ hot[e] # {}
  <2>1. CASE ~ArchiveStep(q)
    <3>1. NoJob.pc = "idle" /\ \A S : Collecting(S).pc = "gcOpen"
      BY DEF NoJob, Collecting
    <3>2. ASSUME NEW p \in Procs, StartJob(p) \/ Fail(p) \/ Crash(p)
          PROVE  job'[q] = job[q] \/ job'[q].pc \notin {"open", "commit"}
      <4>1. CASE p # q
        BY <3>2, <4>1, ControlTurns
      <4>2. CASE p = q
        <5>1. CASE StartJob(q)
          <6>1. PICK cut, cycle, S :
                  \/ job' = [job EXCEPT ![q] = [NoJob EXCEPT !.pc = "select", !.cut = cut, !.cycle = cycle]]
                  \/ job' = [job EXCEPT ![q] = Collecting(S)]
                  \/ job' = [job EXCEPT ![q] = [NoJob EXCEPT !.pc = "rsDay", !.todo = S]]
            BY <5>1 DEF StartJob, StartArchive, StartGC, Purge, StartRestore
          <6>2. /\ [NoJob EXCEPT !.pc = "select", !.cut = cut, !.cycle = cycle].pc = "select"
                /\ [NoJob EXCEPT !.pc = "rsDay", !.todo = S].pc = "rsDay"
            BY DEF NoJob
          <6>. QED BY <1>0, <3>1, <6>1, <6>2
        <5>2. CASE Fail(q)
          BY <1>0, <3>1, <5>2 DEF Fail, RunOver
        <5>3. CASE Crash(q)
          BY <1>0, <3>1, <5>3 DEF Crash
        <5>. QED BY <3>2, <4>2, <5>1, <5>2, <5>3
      <4>. QED BY <4>1, <4>2
    <3>3. ASSUME NEW p \in Procs, CollectStep(p) \/ RestoreStep(p)
          PROVE  job'[q] = job[q] \/ job'[q].pc \notin {"open", "commit"}
      <4>1. CASE p # q
        BY <3>3, <4>1, OthersRest DEF Work
      <4>2. CASE p = q
        <5>1. ASSUME NEW j, job' = [job EXCEPT ![q] = j], j.pc \notin {"open", "commit"}
              PROVE  job'[q].pc \notin {"open", "commit"}
          BY <1>0, <5>1
        <5>2. CASE GCDone(q)
          BY <1>0, <3>1, <5>1, <5>2 DEF GCDone
        <5>3. CASE GCOpen(q)
          <6>1. PICK d \in job[q].days, i \in Inodes :
                  job' = [job EXCEPT ![q] =
                            IF ~(dirent[d] = i /\ i \in table) THEN NoJob
                            ELSE [@ EXCEPT !.pc = "gcMarkers", !.day = d, !.fd = i,
                                           !.days = job[q].days \ {d},
                                           !.ids = {x \in Events : data[i][x] # NoRow}]]
            BY <5>3 DEF GCOpen
          <6>. DEFINE j == [job[q] EXCEPT !.pc = "gcMarkers", !.day = d, !.fd = i,
                                          !.days = job[q].days \ {d},
                                          !.ids = {x \in Events : data[i][x] # NoRow}]
          <6>2. j.pc = "gcMarkers"
            BY <1>0 DEF Job
          <6>3. job' = [job EXCEPT ![q] = NoJob] \/ job' = [job EXCEPT ![q] = j]
            BY <6>1
          <6>. HIDE DEF j
          <6>. QED BY <3>1, <5>1, <6>2, <6>3
        <5>4. CASE GCMarkers(q) \/ GCHot(q) \/ GCSweep(q) \/ GCCount(q) \/ GCRemove(q)
          <6>1. ASSUME GCMarkers(q) PROVE job'[q].pc = "gcHot"
            BY <1>0, <6>1 DEF GCMarkers, Job
          <6>2. ASSUME GCHot(q) PROVE job'[q].pc = "gcSweep"
            BY <1>0, <6>2 DEF GCHot, Job
          <6>3. ASSUME GCSweep(q) PROVE job'[q].pc = "gcCount"
            BY <1>0, <6>3 DEF GCSweep, Job
          <6>4. ASSUME GCCount(q) PROVE job'[q].pc \in {"gcRemove", "gcOpen"}
            BY <1>0, <6>4 DEF GCCount, Job
          <6>5. ASSUME GCRemove(q) PROVE job'[q].pc = "gcOpen"
            BY <1>0, <6>5 DEF GCRemove, Job
          <6>. QED BY <5>4, <6>1, <6>2, <6>3, <6>4, <6>5
        <5>5. CASE RestoreDay(q)
          BY <5>5, RestoreDayTurns
        <5>6. CASE RestoreRow(q) \/ RestoreDrop(q)
          <6>1. PICK cur, ids, rows :
                  \/ job' = [job EXCEPT ![q] = [@ EXCEPT !.pc = "rsDrop", !.cur = cur]]
                  \/ job' = [job EXCEPT ![q] = [@ EXCEPT !.pc = "rsRow", !.cur = 0,
                                                          !.ids = ids, !.rows = rows]]
            BY <5>6 DEF RestoreRow, RestoreDrop
          <6>2. /\ [job[q] EXCEPT !.pc = "rsDrop", !.cur = cur].pc = "rsDrop"
                /\ [job[q] EXCEPT !.pc = "rsRow", !.cur = 0, !.ids = ids, !.rows = rows].pc = "rsRow"
            BY <1>0 DEF Job
          <6>. QED BY <1>0, <6>1, <6>2
        <5>7. CASE RestoreDayDone(q) \/ RestoreOver(q)
          BY <1>0, <3>1, <5>7 DEF RestoreDayDone, RestoreOver, NoJob
        <5>. QED BY <3>3, <4>2, <5>2, <5>3, <5>4, <5>5, <5>6, <5>7 DEF CollectStep, RestoreStep
      <4>. QED BY <4>1, <4>2
    <3>4. ASSUME NEW p \in Procs, p # q, ArchiveStep(p)
          PROVE  job'[q] = job[q]
      BY <3>4, OthersRest DEF Work
    <3>5. RowStep \/ UNCHANGED vars \/ (\E p \in Procs, x \in Events : Hydrate(p, x))
            => job'[q] = job[q]
      BY DEF RowStep, Capture, Merge, BackfillToolNames, vars, Hydrate
    <3>. QED BY <2>1, <3>2, <3>3, <3>4, <3>5 DEF Next, Work
  <2>2. CASE ArchiveStep(q)
    <3>1. CASE SelectBatch(q)
      <4>1. PICK first \in Candidates(q), last \in Candidates(q) :
              job' = [job EXCEPT ![q] = TakeBatch(q, first, last)]
        BY <3>1 DEF SelectBatch
      <4>2. TakeBatch(q, first, last).pc = "read"
        BY <1>0 DEF TakeBatch, Job
      <4>. QED BY <1>0, <4>1, <4>2
    <3>2. CASE ReadBodies(q)
      <4>. DEFINE got == {x \in job[q].ids : hot[x] # {}}
                  k == [job[q] EXCEPT !.pc = "open", !.ids = got,
                                      !.rows = [x \in Events |-> IF x \in got THEN hot[x] ELSE NoRow]]
      <4>1. job'[q] = IF got = {} THEN NextBatch(q) ELSE k
        BY <1>0, <3>2 DEF ReadBodies
      <4>2. k.ids = got /\ NextBatch(q).pc = "select"
        BY <1>0 DEF Job, NextBatch, NoJob
      <4>. QED BY <4>1, <4>2
    <3>3. CASE OpenDay(q)
      <4>1. PICK i \in Inodes : job' = [job EXCEPT ![q] = [@ EXCEPT !.pc = "commit", !.fd = i]]
        BY <3>3 DEF OpenDay
      <4>2. [job[q] EXCEPT !.pc = "commit", !.fd = i].ids = job[q].ids
        BY <1>0 DEF Job
      <4>. QED BY <1>0, <3>3, <4>1, <4>2 DEF OpenDay
    <3>4. CASE CommitDay(q)
      BY <1>0, <3>4 DEF CommitDay, Job
    <3>5. NoJob.pc = "idle" /\ Collecting({}).pc = "gcOpen" /\ NextBatch(q).pc = "select"
      BY DEF NoJob, Collecting, NextBatch
    <3>6. RunOver(q) => job'[q].pc \in {"idle", "gcOpen"}
      BY <1>0, <3>5 DEF RunOver
    <3>7. CASE ReadMasks(q)
      <4>1. PICK rows : RunOver(q) \/ job' = [job EXCEPT ![q] = [@ EXCEPT !.pc = "clear", !.rows = rows]]
        BY <3>7 DEF ReadMasks
      <4>2. [job[q] EXCEPT !.pc = "clear", !.rows = rows].pc = "clear"
        BY <1>0 DEF Job
      <4>. QED BY <1>0, <3>6, <4>1, <4>2
    <3>8. CASE MarkAndClear(q) \/ NoCandidates(q)
      BY <1>0, <3>5, <3>6, <3>8 DEF MarkAndClear, NoCandidates
    <3>. QED BY <2>2, <3>1, <3>2, <3>3, <3>4, <3>7, <3>8 DEF ArchiveStep
  <2>. QED BY <2>1, <2>2
<1>. QED BY <1>1, <1>2

\* A purged row that no archiver has copied stays that way.
LEMMA PurgedStays ==
    ASSUME TypeOK, OnlyLiveRowsHold, [Next]_vars, NEW e \in PurgedForGood
    PROVE  e \in PurgedForGood' /\ e \notin Moved
<1>1. stage'[e] = "purged"
  BY StaysPurged DEF PurgedForGood
<1>2. hot[e] = {}
  BY DEF PurgedForGood, OnlyLiveRowsHold, Live
<1>3. \A q \in Procs : ~CopiedBy(q, e)'
  BY <1>2, CopiesMove DEF PurgedForGood
<1>4. ASSUME NEW q \in Procs, CommitDay(q), e \in job[q].ids
      PROVE  FALSE
  BY <1>4 DEF CommitDay, CopiedBy, PurgedForGood
<1>5. ASSUME NEW q \in Procs, MarkAndClear(q)
      PROVE  marker'[e] = marker[e]
  BY <1>5 DEF MarkAndClear, PurgedForGood, Live
<1>. QED BY <1>1, <1>3, <1>4, <1>5 DEF PurgedForGood, Moved

Sees(p) == CollectorSees(p) /\ RestoreSees(p)

\* A process that turns away from its day file, or begins a collection, has
\* nothing to answer for but the files it just listed.
LEMMA TurnsKeep ==
    ASSUME TypeOK, Remember, NEW p \in Procs, TurnsAway(p)
    PROVE  Sees(p)' /\ Owes(p)'
<1>1. CASE job'[p].pc \notin FileInHand \cup GCPCs
  <2>1. owed'[p] = {}
    BY <1>1 DEF Remember
  <2>2. Sees(p)'
    BY <1>1 DEF Sees, CollectorSees, RestoreSees, FileInHand
  <2>. QED BY <2>1, <2>2 DEF Owes
<1>2. ASSUME job[p].pc \notin GCPCs, NEW S, job'[p] = Collecting(S), UNCHANGED <<dirent, data>>
      PROVE  Sees(p)' /\ Owes(p)'
  <2>1. job'[p].pc = "gcOpen" /\ job'[p].days = {d \in Days : dirent[d] # NoFile}
    BY <1>2 DEF Collecting, NoJob
  <2>2. owed'[p] = PurgedForGood'
    BY <1>2, <2>1 DEF Remember, GCPCs
  <2>3. \A e \in Events : FileRow(e)' = NoRow \/ DayOf[e] \in job'[p].days
    BY <1>2, <2>1 DEF FileRow
  <2>4. late'[p] = {}
    BY <2>1 DEF Remember, FileInHand
  <2>5. Owes(p)'
    BY <2>1, <2>2, <2>3, <2>4 DEF Owes, StillToSweep, GCPCs, PurgedForGood
  <2>. QED BY <2>1, <2>5 DEF Sees, CollectorSees, RestoreSees
<1>. QED BY <1>1, <1>2 DEF TurnsAway

\* What a step may do beside a collector or a restore, as far as these must
\* answer for it.
Beside ==
    /\ \A e \in Events :
         FileRow(e)' \subseteq FileRow(e) \/ (e \in Moved /\ \E q \in Procs : CopiedBy(q, e))
    /\ \A e \in Events : marker[e] = {} => marker'[e] = {} \/ e \in Moved
    /\ \A d \in Days :
         \/ dirent'[d] = dirent[d]
         \/ dirent[d] = NoFile
         \/ \A e \in Events : DayOf[e] = d => FileRow(e)' = NoRow
    /\ \A e \in PurgedForGood : e \in PurgedForGood' /\ e \notin Moved

\* Every step is like that.
LEMMA StepBeside ==
    ASSUME TypeOK, OnlyLiveRowsHold, [Next]_vars
    PROVE  Beside
<1>1. \A e \in Events : marker[e] = {} => marker'[e] = {} \/ e \in Moved
  BY MarkersMove
<1>2. \A e \in PurgedForGood : e \in PurgedForGood' /\ e \notin Moved
  BY PurgedStays
<1>3. ASSUME UNCHANGED <<dirent, data>>
      PROVE  Beside
  <2>1. \A e \in Events : FileRow(e)' = FileRow(e)
    BY <1>3 DEF FileRow
  <2>. QED BY <1>1, <1>2, <1>3, <2>1 DEF Beside
<1>4. ASSUME NEW q \in Procs, Work(q)
      PROVE  Beside
  <2>1. ASSUME NEW e \in Events
        PROVE  FileRow(e)' \subseteq FileRow(e) \/ (e \in Moved /\ \E r \in Procs : CopiedBy(r, e))
    <3>1. CASE FileRow(e)' \subseteq FileRow(e)
      BY <3>1
    <3>2. CASE CommitDay(q) /\ e \in job[q].ids
      <4>1. CopiedBy(q, e)
        BY <3>2 DEF CommitDay, CopiedBy
      <4>2. e \in Moved
        BY <3>2 DEF Moved
      <4>. QED BY <4>1, <4>2
    <3>. QED BY <1>4, <3>1, <3>2, FilesMove
  <2>2. \A d \in Days :
         \/ dirent'[d] = dirent[d]
         \/ dirent[d] = NoFile
         \/ \A e \in Events : DayOf[e] = d => FileRow(e)' = NoRow
    BY <1>4, NamesMove
  <2>. QED BY <1>1, <1>2, <2>1, <2>2 DEF Beside
<1>5. ASSUME NEW p \in Procs, StartJob(p) \/ Fail(p) \/ Crash(p) \/ \E e \in Events : Hydrate(p, e)
      PROVE  UNCHANGED <<dirent, data>>
  BY <1>5 DEF StartJob, StartArchive, StartGC, StartRestore, Purge, Fail, Crash, Hydrate, fileVars
<1>6. RowStep \/ UNCHANGED vars => UNCHANGED <<dirent, data>>
  BY DEF RowStep, Capture, Merge, BackfillToolNames, vars, fileVars
<1>. QED BY <1>3, <1>4, <1>5, <1>6 DEF Next

\* Beside such a step a process that does not move keeps what it has seen.
LEMMA SeesKept ==
    ASSUME TypeOK, Remember, Beside, NEW p \in Procs, Sees(p), job'[p] = job[p]
    PROVE  Sees(p)'
<1>1. job[p].pc \in FileInHand => late'[p] = late[p] \cup Moved
  BY DEF Remember
<1>2. job[p].day \in Days /\ job[p].ids \subseteq Events
  BY JobParts
<1>3. ASSUME job[p].pc \in FileInHand, NEW e \in Events, SpareRow(p, e)
      PROVE  SpareRow(p, e)'
  BY <1>1, <1>3 DEF SpareRow, Beside, NoRow
<1>4. CollectorSees(p)'
  <2>1. ASSUME job[p].pc \in {"gcHot", "gcSweep"}, NEW e \in job[p].ids
        PROVE  marker'[e] = {} \/ e \in late'[p]
    BY <1>1, <1>2, <2>1 DEF Sees, CollectorSees, Beside, FileInHand
  <2>2. ASSUME job[p].pc \in {"gcMarkers", "gcHot", "gcSweep", "gcCount"}
        PROVE  /\ job[p].fd \in Inodes
               /\ \/ dirent'[job[p].day] = job[p].fd
                  \/ \A e \in Events : DayOf[e] = job[p].day => SpareRow(p, e)'
    <3>1. job[p].pc \in FileInHand /\ job[p].fd \in Inodes /\ job[p].fd # NoFile
      BY <2>2 DEF Sees, CollectorSees, FileInHand
    <3>2. CASE \A e \in Events : DayOf[e] = job[p].day => SpareRow(p, e)
      BY <1>3, <3>1, <3>2
    <3>3. CASE dirent[job[p].day] = job[p].fd
      <4>1. dirent'[job[p].day] = job[p].fd
              \/ \A e \in Events : DayOf[e] = job[p].day => FileRow(e)' = NoRow
        BY <1>2, <3>1, <3>3 DEF Beside
      <4>. QED BY <3>1, <4>1 DEF SpareRow
    <3>. QED BY <2>2, <3>2, <3>3 DEF Sees, CollectorSees
  <2>3. ASSUME job[p].pc = "gcRemove", NEW e \in Events, DayOf[e] = job[p].day
        PROVE  SpareRow(p, e)'
    BY <1>3, <2>3 DEF Sees, CollectorSees, FileInHand
  <2>. QED BY <2>1, <2>2, <2>3 DEF CollectorSees
<1>5. RestoreSees(p)'
  <2>1. ASSUME job[p].pc \in {"rsRow", "rsDrop"}, NEW e \in job[p].ids
        PROVE  FileRow(e)' \subseteq job[p].rows[e] \/ e \in late'[p]
    BY <1>1, <1>2, <2>1 DEF Sees, RestoreSees, Beside, FileInHand
  <2>2. ASSUME job[p].pc = "rsDrop"
        PROVE  marker'[job[p].cur] = {} \/ job[p].cur \in late'[p]
    BY <1>1, <2>2 DEF Sees, RestoreSees, Beside, FileInHand
  <2>. QED BY <2>1, <2>2 DEF Sees, RestoreSees
<1>. QED BY <1>4, <1>5 DEF Sees

\* And it owes no more than before.
LEMMA OwesKept ==
    ASSUME TypeOK, Remember, Beside, NEW p \in Procs, Owes(p), job'[p] = job[p]
    PROVE  Owes(p)'
<1>1. owed'[p] \subseteq owed[p] /\ late'[p] \subseteq late[p] \cup Moved
  BY DEF Remember
<1>2. ASSUME NEW e \in owed[p]
      PROVE  /\ job[p].pc \in GCPCs
             /\ e \in PurgedForGood' /\ e \notin late'[p]
             /\ FileRow(e)' = NoRow \/ StillToSweep(p, e)
  <2>1. e \in PurgedForGood /\ e \in Events /\ \A q \in Procs : ~CopiedBy(q, e)
    BY DEF Owes, PurgedForGood
  <2>2. FileRow(e)' \subseteq FileRow(e)
    BY <2>1 DEF Beside
  <2>3. e \notin late'[p]
    BY <1>1, <2>1 DEF Owes, Beside
  <2>. QED BY <2>1, <2>2, <2>3 DEF Owes, Beside, NoRow
<1>3. \A e : StillToSweep(p, e)' = StillToSweep(p, e)
  BY DEF StillToSweep
<1>. QED BY <1>1, <1>2, <1>3 DEF Owes

\* The collection's own steps on what it sees.
LEMMA CollectSees ==
    ASSUME TypeOK, Remember, NEW p \in Procs, Sees(p), CollectStep(p)
    PROVE  Sees(p)'
<1>0. job[p] \in Job /\ job \in [Procs -> Job] /\ UNCHANGED marker
  BY DEF TypeOK, CollectStep, GCDone, GCOpen, GCMarkers, GCHot, GCSweep, GCCount, GCRemove, rowVars
<1>1. job[p].day \in Days /\ job[p].ids \subseteq Events
  BY JobParts
<1>2. late[p] \subseteq late'[p] \/ job[p].pc \notin FileInHand \/ job'[p].pc \notin FileInHand
  BY DEF Remember
<1>3. ASSUME NEW j, job' = [job EXCEPT ![p] = j], j.pc \notin FileInHand
      PROVE  Sees(p)'
  BY <1>0, <1>3 DEF Sees, CollectorSees, RestoreSees, FileInHand
<1>4. NoJob.pc \notin FileInHand
  BY DEF NoJob, FileInHand
<1>5. CASE GCDone(p)
  BY <1>3, <1>4, <1>5 DEF GCDone
<1>6. CASE GCOpen(p)
  <2>1. PICK d \in job[p].days, i \in Inodes :
          /\ OpensAs(d, i)
          /\ job' = [job EXCEPT ![p] =
                     IF ~(dirent[d] = i /\ i \in table) THEN NoJob
                     ELSE [@ EXCEPT !.pc = "gcMarkers", !.day = d, !.fd = i,
                                    !.days = job[p].days \ {d},
                                    !.ids = {e \in Events : data[i][e] # NoRow}]]
    BY <1>6 DEF GCOpen
  <2>. DEFINE ids == {e \in Events : data[i][e] # NoRow}
              j == [job[p] EXCEPT !.pc = "gcMarkers", !.day = d, !.fd = i,
                                  !.days = job[p].days \ {d}, !.ids = ids]
  <2>2. CASE ~(dirent[d] = i /\ i \in table)
    BY <1>3, <1>4, <2>1, <2>2
  <2>3. CASE dirent[d] = i /\ i \in table
    <3>1. j.pc = "gcMarkers" /\ j.day = d /\ j.fd = i
      BY <1>0 DEF Job
    <3>2. job'[p] = j
      BY <1>0, <2>1, <2>3
    <3>3. dirent'[d] = i
      BY <2>1, <2>3 DEF OpensAs
    <3>. HIDE DEF j
    <3>. QED BY <3>1, <3>2, <3>3 DEF Sees, CollectorSees, RestoreSees
  <2>. QED BY <2>2, <2>3
<1>7. CASE GCMarkers(p)
  <2>. DEFINE ids == {e \in job[p].ids : marker[e] = {}}
              j == [job[p] EXCEPT !.pc = "gcHot", !.ids = ids]
  <2>1. j.pc = "gcHot" /\ j.day = job[p].day /\ j.fd = job[p].fd /\ j.ids = ids
    BY <1>0 DEF Job
  <2>2. job'[p] = j /\ UNCHANGED <<dirent, data>> /\ job[p].pc = "gcMarkers"
    BY <1>0, <1>7 DEF GCMarkers, fileVars
  <2>3. late[p] \subseteq late'[p]
    BY <1>2, <2>1, <2>2 DEF FileInHand
  <2>4. \A e \in ids : marker'[e] = {}
    BY <1>0
  <2>. HIDE DEF j, ids
  <2>. QED BY <2>1, <2>2, <2>3, <2>4 DEF Sees, CollectorSees, RestoreSees, SpareRow, FileRow
<1>8. CASE GCHot(p)
  <2>. DEFINE ids == {e \in job[p].ids : hot[e] = {}}
              j == [job[p] EXCEPT !.pc = "gcSweep", !.ids = ids]
  <2>1. j.pc = "gcSweep" /\ j.day = job[p].day /\ j.fd = job[p].fd /\ j.ids = ids
    BY <1>0 DEF Job
  <2>2. job'[p] = j /\ UNCHANGED <<dirent, data>> /\ job[p].pc = "gcHot"
    BY <1>0, <1>8 DEF GCHot, fileVars
  <2>3. late[p] \subseteq late'[p]
    BY <1>2, <2>1, <2>2 DEF FileInHand
  <2>4. \A e \in ids : marker'[e] = {} \/ e \in late'[p]
    BY <1>0, <2>2, <2>3 DEF Sees, CollectorSees
  <2>. HIDE DEF j, ids
  <2>. QED BY <2>1, <2>2, <2>3, <2>4 DEF Sees, CollectorSees, RestoreSees, SpareRow, FileRow
<1>9. CASE GCSweep(p)
  <2>. DEFINE j == [job[p] EXCEPT !.pc = "gcCount", !.ids = {}]
  <2>1. j.pc = "gcCount" /\ j.day = job[p].day /\ j.fd = job[p].fd
    BY <1>0 DEF Job
  <2>2. job'[p] = j /\ UNCHANGED dirent /\ job[p].pc = "gcSweep"
    BY <1>0, <1>9 DEF GCSweep
  <2>3. late[p] \subseteq late'[p]
    BY <1>2, <2>1, <2>2 DEF FileInHand
  <2>4. \A e \in Events : FileRow(e)' \subseteq FileRow(e)
    BY <1>9, TakenOut DEF GCSweep
  <2>. HIDE DEF j
  <2>. QED BY <2>1, <2>2, <2>3, <2>4 DEF Sees, CollectorSees, RestoreSees, SpareRow, NoRow
<1>10. CASE GCCount(p)
  <2>. DEFINE c == IF data[job[p].fd] = NoRows THEN "gcRemove" ELSE "gcOpen"
              j == [job[p] EXCEPT !.pc = c, !.fd = NoFile]
  <2>1. j.pc = c /\ j.day = job[p].day
    BY <1>0 DEF Job
  <2>2. job' = [job EXCEPT ![p] = j] /\ UNCHANGED <<dirent, data>> /\ job[p].pc = "gcCount"
    BY <1>10 DEF GCCount, fileVars
  <2>3. CASE c = "gcOpen"
    BY <1>3, <2>1, <2>2, <2>3 DEF FileInHand
  <2>4. CASE c = "gcRemove"
    <3>1. late[p] \subseteq late'[p] /\ job'[p] = j
      BY <1>0, <1>2, <2>1, <2>2, <2>4 DEF FileInHand
    <3>2. ASSUME NEW e \in Events, DayOf[e] = job[p].day
          PROVE  SpareRow(p, e)
      <4>1. CASE dirent[job[p].day] = job[p].fd
        <5>1. data[job[p].fd][e] = NoRow
          BY <2>4 DEF NoRows
        <5>. QED BY <3>2, <4>1, <5>1 DEF SpareRow, FileRow
      <4>2. CASE dirent[job[p].day] # job[p].fd
        BY <2>2, <3>2, <4>2 DEF Sees, CollectorSees
      <4>. QED BY <4>1, <4>2
    <3>3. \A e \in Events : FileRow(e)' = FileRow(e)
      BY <2>2 DEF FileRow
    <3>. HIDE DEF j, c
    <3>. QED BY <2>1, <2>4, <3>1, <3>2, <3>3 DEF Sees, CollectorSees, RestoreSees, SpareRow
  <2>. QED BY <2>3, <2>4
<1>11. CASE GCRemove(p)
  <2>1. [job[p] EXCEPT !.pc = "gcOpen"].pc \notin FileInHand
    BY <1>0 DEF Job, FileInHand
  <2>. QED BY <1>3, <1>11, <2>1 DEF GCRemove
<1>. QED BY <1>5, <1>6, <1>7, <1>8, <1>9, <1>10, <1>11 DEF CollectStep

\* The restore's own steps on what it sees.
LEMMA RestoreSeesStep ==
    ASSUME TypeOK, Remember, NEW p \in Procs, Sees(p), RestoreStep(p)
    PROVE  Sees(p)'
<1>0. job[p] \in Job /\ job \in [Procs -> Job]
  BY DEF TypeOK
<1>1. job[p].ids \subseteq Events
  BY JobParts
<1>2. late[p] \subseteq late'[p] \/ job[p].pc \notin FileInHand \/ job'[p].pc \notin FileInHand
  BY DEF Remember
<1>3. ASSUME NEW j, job' = [job EXCEPT ![p] = j], j.pc \notin FileInHand
      PROVE  Sees(p)'
  BY <1>0, <1>3 DEF Sees, CollectorSees, RestoreSees, FileInHand
<1>4. CASE RestoreDay(p)
  <2>1. PICK first \in job[p].todo :
          job' = [job EXCEPT ![p] =
                    IF dirent[DayOf[first]] \notin table
                    THEN [@ EXCEPT !.todo = job[p].todo \ {e \in job[p].todo : DayOf[e] = DayOf[first]}]
                    ELSE [@ EXCEPT !.pc = "rsRow",
                                   !.todo = job[p].todo \ {e \in job[p].todo : DayOf[e] = DayOf[first]},
                                   !.day = DayOf[first], !.fd = dirent[DayOf[first]],
                                   !.ids = {e \in {x \in job[p].todo : DayOf[x] = DayOf[first]} :
                                              data[dirent[DayOf[first]]][e] # NoRow},
                                   !.rows = [e \in Events |->
                                               IF e \in {x \in job[p].todo : DayOf[x] = DayOf[first]}
                                               THEN data[dirent[DayOf[first]]][e] ELSE NoRow]]]
    BY <1>4 DEF RestoreDay
  <2>. DEFINE d == DayOf[first]
              of == {e \in job[p].todo : DayOf[e] = d}
              i == dirent[d]
              ids == {e \in of : data[i][e] # NoRow}
              rows == [e \in Events |-> IF e \in of THEN data[i][e] ELSE NoRow]
              missing == [job[p] EXCEPT !.todo = job[p].todo \ of]
              found == [job[p] EXCEPT !.pc = "rsRow", !.todo = job[p].todo \ of,
                                      !.day = d, !.fd = i, !.ids = ids, !.rows = rows]
  <2>2. missing.pc \notin FileInHand
    BY <1>0, <1>4 DEF Job, RestoreDay, FileInHand
  <2>3. found.pc = "rsRow" /\ found.fd = i /\ found.ids = ids /\ found.rows = rows
    BY <1>0 DEF Job
  <2>4. i \in table => i \in Inodes
    BY DEF TypeOK
  <2>5. UNCHANGED <<dirent, data>>
    BY <1>4 DEF RestoreDay, fileVars
  <2>6. job[p].todo \subseteq Events
    BY <1>0 DEF Job
  <2>7. \A e \in ids : i \in Inodes => FileRow(e)' \subseteq rows[e]
    BY <2>5, <2>6 DEF FileRow
  <2>8. job' = [job EXCEPT ![p] = IF i \notin table THEN missing ELSE found]
    BY <2>1
  <2>. HIDE DEF missing, found, ids, rows
  <2>9. CASE i \notin table
    BY <1>3, <2>2, <2>8, <2>9
  <2>10. CASE i \in table
    <3>1. job'[p] = found
      BY <1>0, <2>8, <2>10
    <3>. QED BY <2>3, <2>4, <2>7, <2>10, <3>1 DEF Sees, CollectorSees, RestoreSees
  <2>. QED BY <2>9, <2>10
<1>5. CASE RestoreRow(p)
  <2>1. PICK x \in job[p].ids :
          /\ marker' = [marker EXCEPT ![x] = {}]
          /\ job' = [job EXCEPT ![p] = [@ EXCEPT !.pc = "rsDrop", !.cur = x]]
    BY <1>5 DEF RestoreRow
  <2>. DEFINE j == [job[p] EXCEPT !.pc = "rsDrop", !.cur = x]
  <2>2. j.pc = "rsDrop" /\ j.cur = x /\ j.fd = job[p].fd /\ j.ids = job[p].ids /\ j.rows = job[p].rows
    BY <1>0 DEF Job
  <2>3. job'[p] = j /\ UNCHANGED <<dirent, data>> /\ job[p].pc = "rsRow"
    BY <1>0, <1>5, <2>1 DEF RestoreRow, fileVars
  <2>4. late[p] \subseteq late'[p]
    BY <1>2, <2>2, <2>3 DEF FileInHand
  <2>5. x \in Events /\ marker'[x] = {}
    BY <1>1, <2>1 DEF TypeOK, RowSet
  <2>6. \A e \in Events : FileRow(e)' = FileRow(e)
    BY <2>3 DEF FileRow
  <2>. HIDE DEF j
  <2>. QED BY <1>1, <2>2, <2>3, <2>4, <2>5, <2>6 DEF Sees, CollectorSees, RestoreSees
<1>6. CASE RestoreDrop(p)
  <2>. DEFINE x == job[p].cur
              ids == job[p].ids \ {x}
              rows == [e \in Events |-> IF e = x THEN NoRow ELSE job[p].rows[e]]
              gone == {x}
              j == [job[p] EXCEPT !.pc = "rsRow", !.cur = 0, !.ids = ids, !.rows = rows]
  <2>1. j.pc = "rsRow" /\ j.fd = job[p].fd /\ j.ids = ids /\ j.rows = rows
    BY <1>0 DEF Job
  <2>2. /\ job'[p] = j /\ UNCHANGED dirent /\ job[p].pc = "rsDrop"
        /\ data' = [data EXCEPT ![job[p].fd] =
                      [e \in Events |-> IF e \in gone THEN NoRow ELSE data[job[p].fd][e]]]
    BY <1>0, <1>6 DEF RestoreDrop
  <2>3. late[p] \subseteq late'[p]
    BY <1>2, <2>1, <2>2 DEF FileInHand
  <2>4. \A e \in ids : rows[e] = job[p].rows[e] /\ e \in job[p].ids
    BY <1>1
  <2>. HIDE DEF j, ids, rows, gone
  <2>5. \A e \in Events : FileRow(e)' \subseteq FileRow(e)
    BY <2>2, TakenOut
  <2>. QED BY <1>1, <2>1, <2>2, <2>3, <2>4, <2>5 DEF Sees, CollectorSees, RestoreSees
<1>7. CASE RestoreDayDone(p)
  <2>1. [NoJob EXCEPT !.pc = "rsDay", !.todo = job[p].todo].pc \notin FileInHand
    BY DEF NoJob, FileInHand
  <2>. QED BY <1>3, <1>7, <2>1 DEF RestoreDayDone
<1>8. CASE RestoreOver(p)
  <2>1. Collecting({}).pc \notin FileInHand
    BY DEF Collecting, NoJob, FileInHand
  <2>. QED BY <1>3, <1>8, <2>1 DEF RestoreOver
<1>. QED BY <1>4, <1>5, <1>6, <1>7, <1>8 DEF RestoreStep

\* The collection's own steps on what it owes: a file is listed, read, swept of
\* its orphans and perhaps removed, and purged rows are orphans.
LEMMA CollectOwes ==
    ASSUME TypeOK, OnlyLiveRowsHold, Remember, Beside, NEW p \in Procs,
           Sees(p), Owes(p), CollectStep(p)
    PROVE  Owes(p)'
<1>0. /\ job[p] \in Job /\ job \in [Procs -> Job] /\ job[p].pc \in GCPCs
      /\ UNCHANGED <<stage, marker, hot>>
  BY DEF TypeOK, CollectStep, GCDone, GCOpen, GCMarkers, GCHot, GCSweep, GCCount, GCRemove,
         rowVars, GCPCs
<1>1. owed'[p] \subseteq owed[p] /\ late'[p] \subseteq late[p] \cup Moved
  BY <1>0 DEF Remember
<1>2. ASSUME NEW e \in owed[p]
      PROVE  /\ e \in Events /\ marker[e] = {} /\ hot[e] = {}
             /\ e \in PurgedForGood' /\ e \notin late[p] /\ e \notin late'[p]
             /\ FileRow(e)' \subseteq FileRow(e)
             /\ FileRow(e) = NoRow \/ StillToSweep(p, e)
  <2>1. /\ e \in Events /\ stage[e] = "purged" /\ \A q \in Procs : ~CopiedBy(q, e)
        /\ e \in PurgedForGood /\ e \notin late[p]
        /\ FileRow(e) = NoRow \/ StillToSweep(p, e)
    BY DEF Owes, PurgedForGood
  <2>2. marker[e] = {} /\ hot[e] = {}
    BY <2>1 DEF OnlyLiveRowsHold, Live
  <2>3. FileRow(e)' \subseteq FileRow(e) /\ e \in PurgedForGood' /\ e \notin Moved
    BY <2>1 DEF Beside
  <2>. QED BY <1>1, <2>1, <2>2, <2>3
<1>3. ASSUME NEW j, job' = [job EXCEPT ![p] = j],
             j.pc \in GCPCs,
             \A e \in owed[p] :
               FileRow(e)' # NoRow =>
                 \/ DayOf[e] \in j.days
                 \/ /\ j.pc \in {"gcMarkers", "gcHot", "gcSweep"}
                    /\ j.day = DayOf[e]
                    /\ e \in j.ids
      PROVE  Owes(p)'
  <2>1. job'[p] = j
    BY <1>0, <1>3
  <2>. QED BY <1>1, <1>2, <1>3, <2>1 DEF Owes, StillToSweep
<1>4. ASSUME job' = [job EXCEPT ![p] = NoJob]
      PROVE  Owes(p)'
  <2>1. job'[p].pc \notin GCPCs
    BY <1>0, <1>4 DEF NoJob, GCPCs
  <2>2. owed'[p] = {}
    BY <2>1 DEF Remember
  <2>. QED BY <2>2 DEF Owes
<1>5. CASE GCDone(p)
  BY <1>4, <1>5 DEF GCDone
<1>6. CASE GCOpen(p)
  <2>1. PICK d \in job[p].days, i \in Inodes :
          job' = [job EXCEPT ![p] =
                     IF ~(dirent[d] = i /\ i \in table) THEN NoJob
                     ELSE [@ EXCEPT !.pc = "gcMarkers", !.day = d, !.fd = i,
                                    !.days = job[p].days \ {d},
                                    !.ids = {e \in Events : data[i][e] # NoRow}]]
    BY <1>6 DEF GCOpen
  <2>. DEFINE ids == {e \in Events : data[i][e] # NoRow}
              j == [job[p] EXCEPT !.pc = "gcMarkers", !.day = d, !.fd = i,
                                  !.days = job[p].days \ {d}, !.ids = ids]
  <2>2. CASE ~(dirent[d] = i /\ i \in table)
    BY <1>4, <2>1, <2>2
  <2>3. CASE dirent[d] = i /\ i \in table
    <3>1. j.pc = "gcMarkers" /\ j.day = d /\ j.days = job[p].days \ {d} /\ j.ids = ids
      BY <1>0 DEF Job
    <3>2. ASSUME NEW e \in owed[p], FileRow(e)' # NoRow
          PROVE  DayOf[e] \in job[p].days \ {d} \/ (d = DayOf[e] /\ e \in ids)
      <4>1. FileRow(e) # NoRow
        BY <1>2, <3>2 DEF NoRow
      <4>2. DayOf[e] \in job[p].days
        BY <1>2, <1>6, <4>1 DEF StillToSweep, GCOpen
      <4>3. DayOf[e] = d => data[i][e] # NoRow
        BY <2>3, <4>1 DEF FileRow
      <4>. QED BY <1>2, <4>2, <4>3
    <3>3. job' = [job EXCEPT ![p] = j]
      BY <2>1, <2>3
    <3>4. "gcMarkers" \in GCPCs
      BY DEF GCPCs
    <3>. HIDE DEF j
    <3>. QED BY <1>3, <3>1, <3>2, <3>3, <3>4
  <2>. QED BY <2>2, <2>3
<1>7. ASSUME NEW c \in {"gcHot", "gcSweep"}, NEW ids,
             job' = [job EXCEPT ![p] = [@ EXCEPT !.pc = c, !.ids = ids]],
             \A e \in owed[p] : e \in job[p].ids => e \in ids
      PROVE  Owes(p)'
  <2>. DEFINE j == [job[p] EXCEPT !.pc = c, !.ids = ids]
  <2>1. j.pc = c /\ j.day = job[p].day /\ j.days = job[p].days /\ j.ids = ids
    BY <1>0 DEF Job
  <2>2. job' = [job EXCEPT ![p] = j] /\ c \in GCPCs
    BY <1>7 DEF GCPCs
  <2>. HIDE DEF j
  <2>. QED BY <1>2, <1>3, <1>7, <2>1, <2>2 DEF StillToSweep, NoRow
<1>8. CASE GCMarkers(p)
  <2>. DEFINE ids == {e \in job[p].ids : marker[e] = {}}
  <2>1. job' = [job EXCEPT ![p] = [@ EXCEPT !.pc = "gcHot", !.ids = ids]]
    BY <1>8 DEF GCMarkers
  <2>2. \A e \in owed[p] : e \in job[p].ids => e \in ids
    BY <1>2
  <2>. HIDE DEF ids
  <2>. QED BY <1>7, <2>1, <2>2
<1>9. CASE GCHot(p)
  <2>. DEFINE ids == {e \in job[p].ids : hot[e] = {}}
  <2>1. job' = [job EXCEPT ![p] = [@ EXCEPT !.pc = "gcSweep", !.ids = ids]]
    BY <1>9 DEF GCHot
  <2>2. \A e \in owed[p] : e \in job[p].ids => e \in ids
    BY <1>2
  <2>. HIDE DEF ids
  <2>. QED BY <1>7, <2>1, <2>2
<1>10. ASSUME NEW j, job' = [job EXCEPT ![p] = j], j.pc \in GCPCs, j.days = job[p].days,
              \A e \in owed[p] : job[p].day = DayOf[e] =>
                FileRow(e)' = NoRow \/ job[p].pc \notin {"gcMarkers", "gcHot", "gcSweep"}
                                    \/ e \notin job[p].ids
       PROVE  Owes(p)'
  <2>1. ASSUME NEW e \in owed[p], FileRow(e)' # NoRow
        PROVE  DayOf[e] \in j.days
    <3>1. FileRow(e) # NoRow
      BY <1>2, <2>1 DEF NoRow
    <3>2. StillToSweep(p, e)
      BY <1>2, <3>1
    <3>. QED BY <1>10, <2>1, <3>2 DEF StillToSweep
  <2>. QED BY <1>3, <1>10, <2>1
<1>11. CASE GCSweep(p)
  <2>. DEFINE i == job[p].fd
              j == [job[p] EXCEPT !.pc = "gcCount", !.ids = {}]
  <2>1. j.pc = "gcCount" /\ j.days = job[p].days /\ "gcCount" \in GCPCs
    BY <1>0 DEF Job, GCPCs
  <2>2. job' = [job EXCEPT ![p] = j] /\ UNCHANGED dirent
    BY <1>11 DEF GCSweep
  <2>3. ASSUME NEW e \in owed[p], job[p].day = DayOf[e], e \in job[p].ids
        PROVE  FileRow(e)' = NoRow
    <3>1. i \in Inodes /\ (dirent[DayOf[e]] = i \/ FileRow(e) = NoRow)
      BY <1>2, <1>11, <2>3 DEF GCSweep, Sees, CollectorSees, SpareRow
    <3>2. data'[i][e] = NoRow
      BY <1>2, <1>11, <2>3, <3>1 DEF GCSweep, TypeOK
    <3>3. CASE FileRow(e) = NoRow
      BY <1>2, <3>3 DEF NoRow
    <3>4. CASE dirent[DayOf[e]] = i
      BY <2>2, <3>2, <3>4 DEF FileRow
    <3>. QED BY <3>1, <3>3, <3>4
  <2>. HIDE DEF j
  <2>. QED BY <1>10, <2>1, <2>2, <2>3
<1>12. CASE GCCount(p)
  <2>1. PICK c \in {"gcRemove", "gcOpen"} :
          job' = [job EXCEPT ![p] = [@ EXCEPT !.pc = c, !.fd = NoFile]]
    BY <1>12 DEF GCCount
  <2>. DEFINE j == [job[p] EXCEPT !.pc = c, !.fd = NoFile]
  <2>2. j.pc \in GCPCs /\ j.days = job[p].days
    BY <1>0 DEF Job, GCPCs
  <2>. HIDE DEF j
  <2>3. job[p].pc \notin {"gcMarkers", "gcHot", "gcSweep"}
    BY <1>12 DEF GCCount
  <2>. QED BY <1>10, <2>1, <2>2, <2>3 DEF j
<1>13. CASE GCRemove(p)
  <2>. DEFINE j == [job[p] EXCEPT !.pc = "gcOpen"]
  <2>1. j.pc \in GCPCs /\ j.days = job[p].days
    BY <1>0 DEF Job, GCPCs
  <2>2. job' = [job EXCEPT ![p] = j] /\ job[p].pc \notin {"gcMarkers", "gcHot", "gcSweep"}
    BY <1>13 DEF GCRemove
  <2>. HIDE DEF j
  <2>. QED BY <1>10, <2>1, <2>2
<1>. QED BY <1>5, <1>6, <1>8, <1>9, <1>11, <1>12, <1>13 DEF CollectStep

\* A restore owes no purge anything; when it is over it begins a collection.
LEMMA RestoreOwes ==
    ASSUME TypeOK, Remember, NEW p \in Procs, RestoreStep(p)
    PROVE  Owes(p)'
<1>0. job \in [Procs -> Job] /\ job[p] \in Job
  BY DEF TypeOK
<1>1. ASSUME job'[p].pc \notin GCPCs
      PROVE  Owes(p)'
  <2>1. owed'[p] = {}
    BY <1>1 DEF Remember
  <2>. QED BY <2>1 DEF Owes
<1>2. CASE RestoreDay(p)
  BY <1>1, <1>2, RestoreDayTurns DEF GCPCs
<1>3. CASE RestoreRow(p) \/ RestoreDrop(p)
  <2>1. PICK cur, ids, rows :
          \/ job' = [job EXCEPT ![p] = [@ EXCEPT !.pc = "rsDrop", !.cur = cur]]
          \/ job' = [job EXCEPT ![p] = [@ EXCEPT !.pc = "rsRow", !.cur = 0,
                                                  !.ids = ids, !.rows = rows]]
    BY <1>3 DEF RestoreRow, RestoreDrop
  <2>2. /\ [job[p] EXCEPT !.pc = "rsDrop", !.cur = cur].pc = "rsDrop"
        /\ [job[p] EXCEPT !.pc = "rsRow", !.cur = 0, !.ids = ids, !.rows = rows].pc = "rsRow"
    BY <1>0 DEF Job
  <2>3. job'[p].pc \in {"rsDrop", "rsRow"}
    BY <1>0, <2>1, <2>2
  <2>. QED BY <1>1, <2>3 DEF GCPCs
<1>4. CASE RestoreDayDone(p)
  <2>1. job'[p].pc = "rsDay"
    BY <1>0, <1>4 DEF RestoreDayDone, NoJob
  <2>. QED BY <1>1, <2>1 DEF GCPCs
<1>5. CASE RestoreOver(p)
  <2>1. TurnsAway(p)
    BY <1>0, <1>5 DEF RestoreOver, TurnsAway, GCPCs, fileVars
  <2>. QED BY <2>1, TurnsKeep
<1>. QED BY <1>2, <1>3, <1>4, <1>5 DEF RestoreStep

\* Every step keeps what overlapping collectors and restores answer for.
LEMMA OverlapInvStep ==
    ASSUME TypeOK, OnlyLiveRowsHold, OverlapInv, [OverlapNext]_overlapVars
    PROVE  OverlapInv'
<1>1. CASE UNCHANGED overlapVars
  <2>1. /\ UNCHANGED <<stage, marker, dirent, data, job, late, owed>>
        /\ \A e \in Events : FileRow(e)' = FileRow(e)
    BY <1>1 DEF overlapVars, vars, FileRow
  <2>2. PurgedForGood' = PurgedForGood
    BY <2>1 DEF PurgedForGood, CopiedBy
  <2>3. ASSUME NEW p \in Procs
        PROVE  Owes(p)'
    BY <2>1, <2>2 DEF OverlapInv, Owes, StillToSweep, PurgedForGood
  <2>4. ASSUME NEW p \in Procs
        PROVE  CollectorSees(p)' /\ RestoreSees(p)'
    <3>1. job[p].ids \subseteq Events
      BY JobParts
    <3>. QED BY <2>1, <3>1 DEF OverlapInv, CollectorSees, RestoreSees, SpareRow
  <2>. QED BY <2>3, <2>4 DEF OverlapInv
<1>2. CASE OverlapNext
  <2>1. Remember /\ [Next]_vars /\ Beside
    BY <1>2, StepBeside DEF OverlapNext
  <2>2. \A p \in Procs : Sees(p) /\ Owes(p)
    BY DEF OverlapInv, Sees
  <2>3. ASSUME NEW p \in Procs, job'[p] = job[p]
        PROVE  Sees(p)' /\ Owes(p)'
    BY <2>1, <2>2, <2>3, SeesKept, OwesKept
  <2>4. ASSUME NEW q \in Procs, StartJob(q) \/ Fail(q) \/ Crash(q), NEW p \in Procs
        PROVE  Sees(p)' /\ Owes(p)'
    BY <2>1, <2>3, <2>4, ControlTurns, TurnsKeep
  <2>5. ASSUME NEW q \in Procs, Work(q), NEW p \in Procs
        PROVE  Sees(p)' /\ Owes(p)'
    <3>1. CASE p # q
      BY <2>3, <2>5, <3>1, OthersRest
    <3>2. CASE p = q
      <4>1. CASE ArchiveStep(p)
        BY <2>1, <4>1, ArchiveTurns, TurnsKeep
      <4>2. CASE CollectStep(p)
        BY <2>1, <2>2, <4>2, CollectSees, CollectOwes
      <4>3. CASE RestoreStep(p)
        BY <2>1, <2>2, <4>3, RestoreSeesStep, RestoreOwes
      <4>. QED BY <2>5, <3>2, <4>1, <4>2, <4>3 DEF Work
    <3>. QED BY <3>1, <3>2
  <2>6. RowStep \/ (\E q \in Procs, e \in Events : Hydrate(q, e)) => UNCHANGED job
    BY DEF RowStep, Capture, Merge, BackfillToolNames, Hydrate
  <2>7. \A p \in Procs : Sees(p)' /\ Owes(p)'
    BY <1>2, <2>3, <2>4, <2>5, <2>6 DEF OverlapNext, Next
  <2>. QED BY <2>7 DEF OverlapInv, Sees
<1>. QED BY <1>1, <1>2

\* A step of a collection or a restore takes no body but of a late row.
LEMMA CollectingKeeps ==
    ASSUME TypeOK, OnlyLiveRowsHold, OverlapInv, NEW p \in Procs, CollectStep(p) \/ RestoreStep(p),
           NEW e \in Events, e \notin late[p]
    PROVE  Readable(e) \subseteq Readable(e)'
<1>0. CollectorSees(p) /\ RestoreSees(p) /\ job[p].ids \subseteq Events /\ job[p].day \in Days
  BY JobParts DEF OverlapInv
<1>1. ASSUME UNCHANGED <<hot, marker>>, FileRow(e)' = FileRow(e) \/ marker[e] = {} \/ FileRow(e) = NoRow
      PROVE  Readable(e) \subseteq Readable(e)'
  BY <1>1 DEF Readable, NoRow
<1>2. CASE UNCHANGED <<rowVars, dirent, data>>
  BY <1>1, <1>2 DEF rowVars, FileRow
<1>3. CASE GCOpen(p)
  <2>1. PICK d \in job[p].days, i \in Inodes : OpensAs(d, i)
    BY <1>3 DEF GCOpen
  <2>2. d \in Days
    <3>1. job[p] \in Job
      BY DEF TypeOK
    <3>. QED BY <2>1, <3>1 DEF Job
  <2>. QED BY <1>1, <1>3, <2>1, <2>2, OpensAsRows DEF GCOpen, rowVars
<1>4. CASE GCSweep(p)
  <2>1. FileRow(e)' = FileRow(e) \/ e \in job[p].ids
    BY <1>4, TakenOut DEF GCSweep
  <2>2. e \in job[p].ids => marker[e] = {}
    BY <1>0, <1>4 DEF GCSweep, CollectorSees
  <2>. QED BY <1>1, <1>4, <2>1, <2>2 DEF GCSweep, rowVars
<1>5. CASE GCRemove(p)
  <2>1. CASE DayOf[e] = job[p].day
    <3>1. FileRow(e) = NoRow
      BY <1>0, <1>5, <2>1 DEF GCRemove, CollectorSees, SpareRow
    <3>. QED BY <1>1, <1>5, <3>1 DEF GCRemove, rowVars
  <2>2. CASE DayOf[e] # job[p].day
    <3>1. dirent'[DayOf[e]] = dirent[DayOf[e]] /\ UNCHANGED data
      BY <1>5, <2>2, FileRowType DEF GCRemove, TypeOK
    <3>. QED BY <1>1, <1>5, <3>1 DEF GCRemove, rowVars, FileRow
  <2>. QED BY <2>1, <2>2
<1>6. CASE RestoreRow(p)
  <2>1. PICK x \in job[p].ids :
          /\ hot' = [hot EXCEPT ![x] = IF stage[x] = "live" THEN @ \cup job[p].rows[x] ELSE @]
          /\ marker' = [marker EXCEPT ![x] = {}]
    BY <1>6 DEF RestoreRow
  <2>2. CASE e # x
    <3>1. hot'[e] = hot[e] /\ marker'[e] = marker[e] /\ FileRow(e)' = FileRow(e)
      BY <1>6, <2>1, <2>2 DEF RestoreRow, fileVars, FileRow, TypeOK, RowSet
    <3>. QED BY <3>1 DEF Readable
  <2>3. CASE e = x
    <3>1. FileRow(e) \subseteq job[p].rows[e]
      BY <1>0, <1>6, <2>1, <2>3 DEF RestoreRow, RestoreSees
    <3>2. hot'[e] = IF stage[e] = "live" THEN hot[e] \cup job[p].rows[e] ELSE hot[e]
      BY <2>1, <2>3 DEF TypeOK, RowSet
    <3>3. stage[e] # "live" => hot[e] = {} /\ marker[e] = {}
      BY DEF OnlyLiveRowsHold, Live
    <3>. QED BY <3>1, <3>2, <3>3 DEF Readable
  <2>. QED BY <2>2, <2>3
<1>7. CASE RestoreDrop(p)
  <2>. DEFINE gone == {job[p].cur}
  <2>1. /\ UNCHANGED dirent
        /\ data' = [data EXCEPT ![job[p].fd] =
                      [x \in Events |-> IF x \in gone THEN NoRow ELSE data[job[p].fd][x]]]
    BY <1>7 DEF RestoreDrop
  <2>2. e \in gone => marker[e] = {}
    BY <1>0, <1>7 DEF RestoreDrop, RestoreSees
  <2>. HIDE DEF gone
  <2>3. FileRow(e)' = FileRow(e) \/ e \in gone
    BY <2>1, TakenOut
  <2>. QED BY <1>1, <1>7, <2>2, <2>3 DEF RestoreDrop, rowVars
<1>. QED BY <1>2, <1>3, <1>4, <1>5, <1>6, <1>7
        DEF CollectStep, RestoreStep, GCDone, GCMarkers, GCHot, GCCount,
            RestoreDay, RestoreDayDone, RestoreOver, fileVars

\* Rows that are gone hold nothing, whatever overlaps.
LEMMA OnlyLiveRows == Spec => []OnlyLiveRowsHold
<1>1. Init => RowsApart
  BY DEF Init, RowsApart, NeverHotAndMarked, OnlyLiveRowsHold
<1>2. RowsApart => OnlyLiveRowsHold
  BY DEF RowsApart
<1>. QED BY <1>1, <1>2, RowsApartStep, Typing, PTL DEF Spec

\* The memory changes nothing in the archive.
LEMMA OverlapIsArchive == OverlapSpec => Spec
<1>1. OverlapInit => Init
  BY DEF OverlapInit
<1>2. [OverlapNext]_overlapVars => [Next]_vars
  BY DEF OverlapNext, overlapVars
<1>. QED BY <1>1, <1>2, PTL DEF OverlapSpec, Spec

\* What every collector and restore answers for holds for any processes,
\* events, columns, days and files, and with no exclusion between jobs.
THEOREM OverlapHolds == OverlapSpec => []OverlapInv
<1>1. OverlapInit => OverlapInv
  BY DEF OverlapInit, Init, OverlapInv, CollectorSees, RestoreSees, Owes, NoJob
<1>2. TypeOK /\ OnlyLiveRowsHold /\ OverlapInv /\ [OverlapNext]_overlapVars => OverlapInv'
  BY OverlapInvStep
<1>. QED BY <1>1, <1>2, OnlyLiveRows, OverlapIsArchive, Typing, PTL DEF OverlapSpec

\* With any number of processes and no exclusion between their jobs, failures
\* and deaths, a collection or a restore loses no body but of a row that an
\* archiver moved while the day file was in hand.
THEOREM CollectorsSpareBodies == OverlapSpec => CollectingKeepsBodies
<1>1. TypeOK /\ OnlyLiveRowsHold /\ OverlapInv =>
        \A p \in Procs : CollectStep(p) \/ RestoreStep(p) =>
          \A e \in Events \ late[p] : Readable(e) \subseteq Readable(e)'
  BY CollectingKeeps
<1>. QED BY <1>1, OnlyLiveRows, OverlapHolds, OverlapIsArchive, Typing, PTL
        DEF CollectingKeepsBodies

\* Beside any archivers, restores and collections of other processes, a
\* collection that runs to its end leaves no body of a purged row in a linked
\* day file, except of rows whose bodies an archiver had copied by the time the
\* collection began.
THEOREM PurgesLeaveNothing == OverlapSpec => PurgedBytesGo
<1>1. OverlapInv => \A p \in Procs : GCDone(p) => \A e \in owed[p] : FileRow(e) = NoRow
  BY DEF OverlapInv, Owes, StillToSweep, GCDone
<1>. QED BY <1>1, OverlapHolds, PTL DEF PurgedBytesGo

=============================================================================
