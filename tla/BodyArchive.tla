------------------------------ MODULE BodyArchive ------------------------------
(***************************************************************************)
(* The body archive of claude-lens: event rows in the hot database, day    *)
(* files in the archive directory, and the maintenance jobs that move body *)
(* columns between them.  A job (an archiver run, a garbage collection, a  *)
(* restore, a purge) runs in one process; several processes may work on    *)
(* the same database file and the same directory.  Source:                 *)
(* src/internal/store/archive.go, archiver.go, archive_ops.go, the purges  *)
(* of store.go and the body rules of merge.go.                             *)
(*                                                                         *)
(* A body is abstracted to its presence: the content of a column of an     *)
(* event is written once and never replaced (merge.go only fills an empty  *)
(* column), and a zero-length body carries nothing and counts as absent.   *)
(* A row's bodies, a marker's mask and a day-file row are therefore sets   *)
(* of columns.  Every file is an inode, because a process may keep a       *)
(* handle on a day file another process has unlinked.                      *)
(***************************************************************************)
EXTENDS Integers, FiniteSets

CONSTANTS
    Procs,       \* operating-system processes that run maintenance jobs
    NumEvents,   \* event rows, numbered in (started_at, id) order
    Cols,        \* body columns
    ToolCol,     \* req_body, the column req_tool_names is derived from
    Legacy,      \* events written before req_tool_names existed
    Days,        \* UTC days that have events
    DayOf,       \* the day an event started in
    Inodes,      \* files that can exist or be held open at once (a bound)
    NoFile,      \* not an inode
    Serialised   \* TRUE: an archiver run never overlaps a collecting job

Events == 1..NumEvents

ASSUME ArchiveAssumption ==
    /\ NumEvents \in Nat
    /\ ToolCol \in Cols
    /\ Legacy \subseteq Events
    /\ Days \subseteq Nat /\ Days # {}
    /\ DayOf \in [Events -> Days]
    /\ NoFile \notin Inodes
    /\ Serialised \in BOOLEAN

VARIABLES
    stage,    \* events row: "unused", "live" or "purged" (ids are never reused)
    hot,      \* body columns of the events row that are not NULL
    marker,   \* body_archive.body_mask of the event, {} when there is no marker
    names,    \* events.req_tool_names: "null", "blank" (empty string) or "set"
    dirent,   \* the archive directory: the inode behind a day's file name
    table,    \* inodes that hold the bodies table
    data,     \* rows of an inode's bodies table: body_mask per event id
    cache,    \* archiveCache of each process: the inode it holds per day
    job       \* the maintenance job of each process

vars == <<stage, hot, marker, names, dirent, table, data, cache, job>>
rowVars  == <<stage, hot, marker, names>>
fileVars == <<dirent, table, data>>

RowSet == [Events -> SUBSET Cols]
MaybeFile == Inodes \cup {NoFile}

NoRow  == {}
NoRows == [e \in Events |-> NoRow]

ArchivePCs == {"select", "read", "open", "commit", "masks", "clear"}
CollectPCs == {"gcOpen", "gcMarkers", "gcHot", "gcSweep", "gcCount", "gcRemove",
               "rsDay", "rsRow", "rsDrop"}
PCs == {"idle"} \cup ArchivePCs \cup CollectPCs

Job == [pc : PCs,
        cut : 0..(NumEvents + 1),   \* archiver: rows below it are old enough
        cur : 0..NumEvents,         \* archiver: the keyset cursor
        cycle : BOOLEAN,            \* archiver: a collection follows the run
        todo : SUBSET Events,       \* restore: rows left; gc: rows just purged
        days : SUBSET Days,         \* gc: files left
        day : Days,                 \* the day file in hand
        fd : MaybeFile,             \* the job's own handle on it
        ids : SUBSET Events,        \* the batch, or the rows under examination
        rows : RowSet]              \* bodies or masks read earlier

AnyDay == CHOOSE d \in Days : TRUE

NoJob == [pc |-> "idle", cut |-> 0, cur |-> 0, cycle |-> FALSE, todo |-> {},
          days |-> {}, day |-> AnyDay, fd |-> NoFile, ids |-> {}, rows |-> NoRows]

TypeOK ==
    /\ stage \in [Events -> {"unused", "live", "purged"}]
    /\ hot \in RowSet
    /\ marker \in RowSet
    /\ names \in [Events -> {"null", "blank", "set"}]
    /\ dirent \in [Days -> MaybeFile]
    /\ table \subseteq Inodes
    /\ data \in [Inodes -> RowSet]
    /\ cache \in [Procs -> [Days -> MaybeFile]]
    /\ job \in [Procs -> Job]

Init ==
    /\ stage = [e \in Events |-> "unused"]
    /\ hot = [e \in Events |-> {}]
    /\ marker = [e \in Events |-> {}]
    /\ names = [e \in Events |-> "null"]
    /\ dirent = [d \in Days |-> NoFile]
    /\ table = {}
    /\ data = [i \in Inodes |-> NoRows]
    /\ cache = [p \in Procs |-> [d \in Days |-> NoFile]]
    /\ job = [p \in Procs |-> NoJob]

Live == {e \in Events : stage[e] = "live"}

\* The row of e in the file its day names, as a fresh handle would read it.
FileRow(e) == IF dirent[DayOf[e]] = NoFile THEN NoRow ELSE data[dirent[DayOf[e]]][e]

\* hydrate: the hot columns, and, for a marked row, what its day file holds.
Readable(e) == hot[e] \cup (IF marker[e] # {} THEN FileRow(e) ELSE {})

-----------------------------------------------------------------------------
(* Rows: captures, merges and the tool-name backfill. *)

\* A first InsertEvent of e with the bodies S its source supplies.
Capture(e, S) ==
    /\ stage[e] = "unused"
    /\ stage' = [stage EXCEPT ![e] = "live"]
    /\ hot' = [hot EXCEPT ![e] = S]
    /\ names' = [names EXCEPT ![e] =
                   IF ToolCol \in S /\ e \notin Legacy THEN "set" ELSE "null"]
    /\ UNCHANGED <<marker, fileVars, cache, job>>

\* req_tool_names as the merge write-back leaves it: NULL without a request
\* body; the incoming side's when the body is backfilled; else the stored
\* text, where a stored NULL was scanned as the empty string.
MergedNames(e, S) ==
    LET present == hot[e] \cup marker[e] IN
    IF ToolCol \notin present \cup S THEN "null"
    ELSE IF ToolCol \notin present THEN "set"
    ELSE IF names[e] = "null" THEN "blank" ELSE names[e]

\* The columns a merge takes over from the incoming side: an archived body is
\* a present body.  (Mutant: the marker's mask is not asked.)
BackfillIgnoringArchive(e, S) == S
Backfill(e, S) == S \ marker[e]

\* An InsertEvent that collides: the merge fills the empty columns.
Merge(e, S) ==
    /\ stage[e] = "live"
    /\ hot' = [hot EXCEPT ![e] = @ \cup Backfill(e, S)]
    /\ names' = [names EXCEPT ![e] = MergedNames(e, S)]
    /\ UNCHANGED <<stage, marker, fileVars, cache, job>>

\* One row of `clens backfill-tool-names`.
BackfillToolNames(e) ==
    /\ ToolCol \in hot[e]
    /\ names[e] = "null"
    /\ names' = [names EXCEPT ![e] = "set"]
    /\ UNCHANGED <<stage, hot, marker, fileVars, cache, job>>

-----------------------------------------------------------------------------
(* Files and handles. *)

\* An inode nothing refers to: the operating system may hand it out.
Fresh(i) ==
    /\ \A d \in Days : dirent[d] # i
    /\ \A p \in Procs : job[p].fd # i /\ \A d \in Days : cache[p][d] # i

\* Opening day d's file for writing yields inode i, creating it when absent.
OpensAs(d, i) ==
    IF dirent[d] # NoFile
    THEN i = dirent[d] /\ UNCHANGED <<dirent, data>>
    ELSE /\ Fresh(i)
         /\ dirent' = [dirent EXCEPT ![d] = i]
         /\ data' = [data EXCEPT ![i] = NoRows]

\* archiveCache.with: the cached inode, else the one the name leads to.
Handle(p, d) == IF cache[p][d] # NoFile THEN cache[p][d] ELSE dirent[d]

\* archiveCache.evict closes the process's own handle; the file handles of other
\* processes stay.  (Mutant: no eviction.)
NotEvicted(p, d) == cache
Evicted(p, d) == [cache EXCEPT ![p][d] = NoFile]

\* A dashboard read of a marked row leaves the day file's handle in the cache.
Hydrate(p, e) ==
    /\ marker[e] # {}
    /\ cache[p][DayOf[e]] = NoFile
    /\ dirent[DayOf[e]] # NoFile
    /\ cache' = [cache EXCEPT ![p][DayOf[e]] = dirent[DayOf[e]]]
    /\ UNCHANGED <<rowVars, fileVars, job>>

-----------------------------------------------------------------------------
(* Job control. *)

\* The discipline a serialised deployment keeps; the code itself has no lock.
MayArchive(p) == Serialised => \A q \in Procs \ {p} : job[q].pc \notin CollectPCs
MayCollect(p) == Serialised => \A q \in Procs \ {p} : job[q].pc \notin ArchivePCs

\* GCArchive lists the day files; todo keeps the rows a purge just deleted.
\* (Mutant: a collection that looks at no file.)
CollectingNothing(todo) == [NoJob EXCEPT !.pc = "gcOpen", !.todo = todo]
Collecting(todo) ==
    [NoJob EXCEPT !.pc = "gcOpen", !.todo = todo,
                  !.days = {d \in Days : dirent[d] # NoFile}]

\* Archiver.Run takes its cutoff; archiveCycle runs a collection after it.
StartArchive(p, cut, cycle) ==
    /\ job[p].pc = "idle"
    /\ MayArchive(p)
    /\ job' = [job EXCEPT ![p] = [NoJob EXCEPT !.pc = "select", !.cut = cut, !.cycle = cycle]]
    /\ UNCHANGED <<rowVars, fileVars, cache>>

StartGC(p) ==
    /\ job[p].pc = "idle"
    /\ MayCollect(p)
    /\ job' = [job EXCEPT ![p] = Collecting({})]
    /\ UNCHANGED <<rowVars, fileVars, cache>>

\* A purge deletes rows and, by cascade, their markers, then collects.
Purge(p, S) ==
    /\ job[p].pc = "idle"
    /\ MayCollect(p)
    /\ S # {}
    /\ S \subseteq Live
    /\ stage' = [e \in Events |-> IF e \in S THEN "purged" ELSE stage[e]]
    /\ hot' = [e \in Events |-> IF e \in S THEN {} ELSE hot[e]]
    /\ marker' = [e \in Events |-> IF e \in S THEN {} ELSE marker[e]]
    /\ names' = [e \in Events |-> IF e \in S THEN "null" ELSE names[e]]
    /\ job' = [job EXCEPT ![p] = Collecting(S)]
    /\ UNCHANGED <<fileVars, cache>>

\* RestoreBodies selects the marked rows started in [lo, hi).
StartRestore(p, lo, hi) ==
    /\ job[p].pc = "idle"
    /\ MayCollect(p)
    /\ job' = [job EXCEPT ![p] =
                 [NoJob EXCEPT !.pc = "rsDay",
                               !.todo = {e \in lo..(hi - 1) : marker[e] # {}}]]
    /\ UNCHANGED <<rowVars, fileVars, cache>>

\* An archiver run is over, with or without an error: archiveCycle goes on to
\* the collection, `clens archive run` exits.
RunOver(p) ==
    \/ /\ ~job[p].cycle
       /\ job' = [job EXCEPT ![p] = NoJob]
    \/ /\ job[p].cycle
       /\ MayCollect(p)
       /\ job' = [job EXCEPT ![p] = Collecting({})]

\* A failed statement (a busy database, a full disk, a cancelled context) ends
\* the job; a crash also loses the process's cached handles.
Fail(p) ==
    /\ job[p].pc # "idle"
    /\ \/ job[p].pc \in ArchivePCs /\ RunOver(p)
       \/ job[p].pc \in CollectPCs /\ job' = [job EXCEPT ![p] = NoJob]
    /\ UNCHANGED <<rowVars, fileVars, cache>>

Crash(p) ==
    /\ job' = [job EXCEPT ![p] = NoJob]
    /\ cache' = [cache EXCEPT ![p] = [d \in Days |-> NoFile]]
    /\ UNCHANGED <<rowVars, fileVars>>

-----------------------------------------------------------------------------
(* The archiver: four steps per batch. *)

\* The candidate query: old, past the cursor, some body, not awaiting the
\* tool-name backfill, not yet marked.  (Mutant: awaiting rows too.)
CandidatesWithAwaiting(p) ==
    {e \in Live :
        /\ job[p].cur < e
        /\ e < job[p].cut
        /\ hot[e] # {}
        /\ marker[e] = {}}
Candidates(p) ==
    {e \in Live :
        /\ job[p].cur < e
        /\ e < job[p].cut
        /\ hot[e] # {}
        /\ ~(ToolCol \in hot[e] /\ names[e] = "null")
        /\ marker[e] = {}}

\* takeBatch: a prefix of the candidates within one UTC day.
DayPrefix(p, first, last) ==
    \A e \in Candidates(p) : first <= e /\ (e <= last => DayOf[e] = DayOf[first])

\* The cursor moves to the batch's last row whatever becomes of the batch.
\* (Mutant: it stays.)
TakeAgain(p, first, last) ==
    [job[p] EXCEPT !.pc = "read", !.day = DayOf[first],
                   !.ids = {e \in Candidates(p) : e <= last}]
TakeBatch(p, first, last) ==
    [job[p] EXCEPT !.pc = "read", !.cur = last, !.day = DayOf[first],
                   !.ids = {e \in Candidates(p) : e <= last}]

SelectBatch(p) ==
    /\ job[p].pc = "select"
    /\ \E first, last \in Candidates(p) :
         /\ DayPrefix(p, first, last)
         /\ job' = [job EXCEPT ![p] = TakeBatch(p, first, last)]
    /\ UNCHANGED <<rowVars, fileVars, cache>>

NoCandidates(p) ==
    /\ job[p].pc = "select"
    /\ Candidates(p) = {}
    /\ RunOver(p)
    /\ UNCHANGED <<rowVars, fileVars, cache>>

\* Back to the candidate query, keeping the run's cutoff and cursor.
NextBatch(p) ==
    [NoJob EXCEPT !.pc = "select", !.cut = job[p].cut, !.cur = job[p].cur,
                  !.cycle = job[p].cycle]

\* Step 1: copy the bodies out of the hot database.
ReadBodies(p) ==
    LET got == {e \in job[p].ids : hot[e] # {}} IN
    /\ job[p].pc = "read"
    /\ job' = [job EXCEPT ![p] =
                 IF got = {} THEN NextBatch(p)
                 ELSE [@ EXCEPT !.pc = "open", !.ids = got,
                                !.rows = [e \in Events |->
                                            IF e \in got THEN hot[e] ELSE NoRow]]]
    /\ UNCHANGED <<rowVars, fileVars, cache>>

\* Step 2, first half: open or create the day file and its table.
OpenDay(p) ==
    /\ job[p].pc = "open"
    /\ \E i \in Inodes :
         /\ OpensAs(job[p].day, i)
         /\ table' = table \cup {i}
         /\ job' = [job EXCEPT ![p] = [@ EXCEPT !.pc = "commit", !.fd = i]]
    /\ UNCHANGED <<rowVars, cache>>

\* The monotone upsert: masks OR, a column not carried keeps its value.
\* (Mutant: INSERT OR REPLACE.)
Replace(old, new) == new
Upsert(old, new) == old \cup new

\* Steps 2 and 3: the upserts, verified and committed in one transaction.
CommitDay(p) ==
    LET i == job[p].fd IN
    /\ job[p].pc = "commit"
    /\ data' = [data EXCEPT ![i] =
                  [e \in Events |-> IF e \in job[p].ids
                                    THEN Upsert(data[i][e], job[p].rows[e])
                                    ELSE data[i][e]]]
    /\ job' = [job EXCEPT ![p] = [@ EXCEPT !.pc = "masks", !.fd = NoFile]]
    /\ UNCHANGED <<rowVars, dirent, table, cache>>

\* Step 4, first half: the masks of the batch, through the cached handle.
ReadMasks(p) ==
    LET i == Handle(p, job[p].day) IN
    /\ job[p].pc = "masks"
    /\ IF i = NoFile
       THEN RunOver(p) /\ UNCHANGED cache
       ELSE /\ cache' = [cache EXCEPT ![p][job[p].day] = i]
            /\ IF i \notin table
               THEN RunOver(p)
               ELSE job' = [job EXCEPT ![p] =
                              [@ EXCEPT !.pc = "clear",
                                        !.rows = [e \in Events |->
                                                    IF e \in job[p].ids THEN data[i][e]
                                                    ELSE NoRow]]]
    /\ UNCHANGED <<rowVars, fileVars>>

\* Exactly the mask's columns are set to NULL.  (Mutant: all of them.)
ClearedWhole(e, mask) == {}
Cleared(e, mask) == hot[e] \ mask

\* Step 4, second half: one hot transaction.  A marker for a purged event
\* breaks the foreign key and rolls the whole batch back.
MarkAndClear(p) ==
    LET mask == job[p].rows
        found == {e \in job[p].ids : mask[e] # {}}
    IN
    /\ job[p].pc = "clear"
    /\ IF found \subseteq Live
       THEN /\ marker' = [e \in Events |-> IF e \in found THEN marker[e] \cup mask[e]
                                                          ELSE marker[e]]
            /\ hot' = [e \in Events |-> IF e \in found THEN Cleared(e, mask[e])
                                                       ELSE hot[e]]
            /\ job' = [job EXCEPT ![p] = NextBatch(p)]
       ELSE RunOver(p) /\ UNCHANGED <<marker, hot>>
    /\ UNCHANGED <<stage, names, fileVars, cache>>

-----------------------------------------------------------------------------
(* The collection: gcFile for each listed file. *)

GCDone(p) ==
    /\ job[p].pc = "gcOpen"
    /\ job[p].days = {}
    /\ job' = [job EXCEPT ![p] = NoJob]
    /\ UNCHANGED <<rowVars, fileVars, cache>>

\* The next listed file, in name order: evict the process's own handle, open
\* it and read its event ids.  A file removed since the listing comes back
\* empty, and the query for its missing table ends the collection.
GCOpen(p) ==
    /\ job[p].pc = "gcOpen"
    /\ \E d \in job[p].days, i \in Inodes :
         LET readable == dirent[d] = i /\ i \in table IN
         /\ \A x \in job[p].days : d <= x
         /\ OpensAs(d, i)
         /\ table' = IF readable THEN table ELSE table \ {i}
         /\ cache' = Evicted(p, d)
         /\ job' = [job EXCEPT ![p] =
                      IF ~readable THEN NoJob
                      ELSE [@ EXCEPT !.pc = "gcMarkers", !.day = d, !.fd = i,
                                     !.days = job[p].days \ {d},
                                     !.ids = {e \in Events : data[i][e] # NoRow}]]
    /\ UNCHANGED rowVars

\* First hot query: a marked event is not an orphan.  (Mutant: not asked.)
GCMarkersUnasked(p) ==
    /\ job[p].pc = "gcMarkers"
    /\ job' = [job EXCEPT ![p] = [@ EXCEPT !.pc = "gcHot"]]
    /\ UNCHANGED <<rowVars, fileVars, cache>>
GCMarkers(p) ==
    /\ job[p].pc = "gcMarkers"
    /\ job' = [job EXCEPT ![p] =
                 [@ EXCEPT !.pc = "gcHot", !.ids = {e \in job[p].ids : marker[e] = {}}]]
    /\ UNCHANGED <<rowVars, fileVars, cache>>

\* Second hot query, later: nor is an event with a hot body.
GCHot(p) ==
    /\ job[p].pc = "gcHot"
    /\ job' = [job EXCEPT ![p] =
                 [@ EXCEPT !.pc = "gcSweep", !.ids = {e \in job[p].ids : hot[e] = {}}]]
    /\ UNCHANGED <<rowVars, fileVars, cache>>

GCSweep(p) ==
    LET i == job[p].fd IN
    /\ job[p].pc = "gcSweep"
    /\ data' = [data EXCEPT ![i] =
                  [e \in Events |-> IF e \in job[p].ids THEN NoRow ELSE data[i][e]]]
    /\ job' = [job EXCEPT ![p] = [@ EXCEPT !.pc = "gcCount", !.ids = {}]]
    /\ UNCHANGED <<rowVars, dirent, table, cache>>

\* A file with rows left stays.
GCCount(p) ==
    /\ job[p].pc = "gcCount"
    /\ job' = [job EXCEPT ![p] =
                 [@ EXCEPT !.pc = IF data[job[p].fd] = NoRows THEN "gcRemove" ELSE "gcOpen",
                           !.fd = NoFile]]
    /\ UNCHANGED <<rowVars, fileVars, cache>>

\* os.Remove takes away whatever the name now leads to; a missing file is only
\* logged.  Other processes' handles keep the inode.
GCRemove(p) ==
    /\ job[p].pc = "gcRemove"
    /\ dirent' = [dirent EXCEPT ![job[p].day] = NoFile]
    /\ job' = [job EXCEPT ![p] = [@ EXCEPT !.pc = "gcOpen"]]
    /\ UNCHANGED <<rowVars, table, data, cache>>

-----------------------------------------------------------------------------
(* The restore: restoreDay for each day of the selected rows. *)

\* Day by day: stat, evict, open and decode the rows.  A missing or unreadable
\* file leaves all of its rows as they are.
RestoreDay(p) ==
    /\ job[p].pc = "rsDay"
    /\ \E first \in job[p].todo :
         LET d == DayOf[first]
             of == {e \in job[p].todo : DayOf[e] = d}
             i == dirent[d]
         IN
         /\ \A e \in job[p].todo : first <= e
         /\ cache' = IF i = NoFile THEN cache ELSE Evicted(p, d)
         /\ job' = [job EXCEPT ![p] =
                      IF i \notin table THEN [@ EXCEPT !.todo = job[p].todo \ of]
                      ELSE [@ EXCEPT !.pc = "rsRow", !.todo = job[p].todo \ of,
                                     !.day = d, !.fd = i,
                                     !.ids = {e \in of : data[i][e] # NoRow},
                                     !.rows = [e \in Events |->
                                                 IF e \in of THEN data[i][e] ELSE NoRow]]]
    /\ UNCHANGED <<rowVars, fileVars>>

\* One hot transaction: write the row's columns back into empty hot columns
\* and delete the marker.
RestoreRow(p) ==
    /\ job[p].pc = "rsRow"
    /\ \E e \in job[p].ids :
         /\ hot' = [hot EXCEPT ![e] = IF stage[e] = "live" THEN @ \cup job[p].rows[e] ELSE @]
         /\ marker' = [marker EXCEPT ![e] = {}]
         /\ job' = [job EXCEPT ![p] = [@ EXCEPT !.pc = "rsDrop", !.cur = e]]
    /\ UNCHANGED <<stage, names, fileVars, cache>>

\* Only then is the day-file row deleted.
RestoreDrop(p) ==
    LET e == job[p].cur
        i == job[p].fd
    IN
    /\ job[p].pc = "rsDrop"
    /\ data' = [data EXCEPT ![i] = [x \in Events |-> IF x = e THEN NoRow ELSE data[i][x]]]
    /\ job' = [job EXCEPT ![p] = [@ EXCEPT !.pc = "rsRow", !.cur = 0,
                                           !.ids = job[p].ids \ {e},
                                           !.rows = [x \in Events |->
                                                       IF x = e THEN NoRow ELSE job[p].rows[x]]]]
    /\ UNCHANGED <<rowVars, dirent, table, cache>>

RestoreDayDone(p) ==
    /\ job[p].pc = "rsRow"
    /\ job[p].ids = {}
    /\ job' = [job EXCEPT ![p] = [NoJob EXCEPT !.pc = "rsDay", !.todo = job[p].todo]]
    /\ UNCHANGED <<rowVars, fileVars, cache>>

\* RestoreBodies ends with a collection of the files it emptied.
RestoreOver(p) ==
    /\ job[p].pc = "rsDay"
    /\ job[p].todo = {}
    /\ job' = [job EXCEPT ![p] = Collecting({})]
    /\ UNCHANGED <<rowVars, fileVars, cache>>

-----------------------------------------------------------------------------
RowStep ==
    \E e \in Events :
        \/ \E S \in SUBSET Cols : Capture(e, S) \/ Merge(e, S)
        \/ BackfillToolNames(e)

StartJob(p) ==
    \/ \E cut \in 1..(NumEvents + 1), cycle \in BOOLEAN : StartArchive(p, cut, cycle)
    \/ StartGC(p)
    \/ \E S \in SUBSET Events : Purge(p, S)
    \/ \E lo, hi \in 1..(NumEvents + 1) : StartRestore(p, lo, hi)

ArchiveStep(p) ==
    \/ SelectBatch(p) \/ NoCandidates(p) \/ ReadBodies(p) \/ OpenDay(p)
    \/ CommitDay(p) \/ ReadMasks(p) \/ MarkAndClear(p)

CollectStep(p) ==
    \/ GCDone(p) \/ GCOpen(p) \/ GCMarkers(p) \/ GCHot(p) \/ GCSweep(p)
    \/ GCCount(p) \/ GCRemove(p)

RestoreStep(p) ==
    \/ RestoreDay(p) \/ RestoreRow(p) \/ RestoreDrop(p) \/ RestoreDayDone(p)
    \/ RestoreOver(p)

\* What a running job does next when nothing fails.
Work(p) == ArchiveStep(p) \/ CollectStep(p) \/ RestoreStep(p)

Next ==
    \/ RowStep
    \/ \E p \in Procs :
        \/ StartJob(p) \/ Work(p) \/ Fail(p) \/ Crash(p)
        \/ \E e \in Events : Hydrate(p, e)

Spec == Init /\ [][Next]_vars

-----------------------------------------------------------------------------
(* Properties. *)

\* The marker may lag the day file but never claims more than the file holds
\* (archiver.go:23-24, schema.sql:220-221).
MarkerNeverOverclaims == \A e \in Events : marker[e] \subseteq FileRow(e)

\* A body the marker accounts for is never in the hot row too: step 4 clears
\* exactly what it marks, and a merge never backfills over an archived body.
NeverHotAndMarked == \A e \in Events : hot[e] \cap marker[e] = {}

\* The archive is invisible to a reader: captures and merges add bodies, a
\* purge removes its events' bodies, and no job, failure or crash between two
\* of its steps changes what can be read (archiver.go:25-26,
\* archive_ops.go:156-165).
Store == INSTANCE BodyStore WITH body <- [e \in Events |-> Readable(e)]
ArchiveIsInvisible == Store!StoreSpec

\* Deleting a day-file row costs no body: the collection sweeps only true
\* orphans (archiver.go:313-318), and a restore drops a row only once its bodies
\* are back in the hot row (archive_ops.go:156-165).
RowDeletesKeepBodies ==
    [][\A p \in Procs : GCSweep(p) \/ RestoreDrop(p) =>
         \A e \in Events : Readable(e) \subseteq Readable(e)']_vars

\* A row that awaits the tool-name backfill keeps its request body hot: the
\* backfill only looks at hot bodies and would never reach an archived one.
AwaitingStaysHot ==
    \A e \in Events :
        names[e] = "null" /\ ToolCol \in Readable(e) => ToolCol \in hot[e]

\* The strengthening that makes these inductive under Serialised.  An
\* unlinked inode is empty, so a stale handle can only under-claim; what a
\* linked file holds of an event that is not purged is hot or marked, so the
\* marker may lag only where the hot row still has the body.
FilesAreLinked ==
    \A i \in Inodes, e \in Events : data[i][e] # NoRow => dirent[DayOf[e]] = i

CopiesAreAccounted ==
    \A e \in Events : stage[e] # "purged" => FileRow(e) \subseteq hot[e] \cup marker[e]

OnlyLiveRowsHold ==
    \A e \in Events : e \notin Live => hot[e] = {} /\ marker[e] = {}

NoOverlap ==
    \A p, q \in Procs : ~(job[p].pc \in ArchivePCs /\ job[q].pc \in CollectPCs)

\* An archiver works within one day, on the linked file, with copies of bodies
\* that are still accounted for, and clears what the file holds.
ArchiverHolds(p) ==
    /\ job[p].pc \in {"read", "open", "commit", "masks", "clear"} =>
         \A e \in job[p].ids : DayOf[e] = job[p].day
    /\ job[p].pc \in {"open", "commit"} =>
         \A e \in job[p].ids : job[p].rows[e] \subseteq hot[e] \cup marker[e]
    /\ job[p].pc = "commit" => job[p].fd \in Inodes /\ dirent[job[p].day] = job[p].fd
    /\ job[p].pc = "clear" => \A e \in Events : job[p].rows[e] \subseteq FileRow(e)

\* A collector's candidates are unmarked, the file it removes is empty, and
\* the file it counts is the linked one unless that one is empty anyway.
DayIsEmpty(d) == \A e \in Events : DayOf[e] = d => FileRow(e) = NoRow

CollectorHolds(p) ==
    /\ job[p].pc \in {"gcHot", "gcSweep"} => \A e \in job[p].ids : marker[e] = {}
    /\ job[p].pc \in {"gcMarkers", "gcHot", "gcSweep", "gcCount"} =>
         /\ job[p].fd \in Inodes
         /\ dirent[job[p].day] = job[p].fd \/ DayIsEmpty(job[p].day)
    /\ job[p].pc = "gcRemove" => DayIsEmpty(job[p].day)

\* A restore holds a decoded copy of all the file has of its rows, and drops a
\* file row only after the marker.
RestoreHolds(p) ==
    /\ job[p].pc \in {"rsRow", "rsDrop"} =>
         /\ job[p].fd \in Inodes
         /\ \A e \in job[p].ids :
              /\ FileRow(e) \subseteq job[p].rows[e]
              /\ stage[e] # "purged" => job[p].rows[e] \subseteq hot[e] \cup marker[e]
    /\ job[p].pc = "rsDrop" => job[p].cur \in Events /\ marker[job[p].cur] = {}

JobsInHand == \A p \in Procs : ArchiverHolds(p) /\ CollectorHolds(p) /\ RestoreHolds(p)

ArchiveInv ==
    /\ TypeOK
    /\ FilesAreLinked
    /\ MarkerNeverOverclaims
    /\ CopiesAreAccounted
    /\ OnlyLiveRowsHold
    /\ NoOverlap
    /\ JobsInHand

\* A job that starts ends: the keyset cursor moves past every batch, even one
\* whose rows stay hot, and each listed file is visited once.
JobEnds == \A p \in Procs : job[p].pc # "idle" ~> job[p].pc = "idle"
=============================================================================
