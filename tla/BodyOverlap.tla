------------------------------ MODULE BodyOverlap ------------------------------
(***************************************************************************)
(* BodyArchive with a memory of what each collecting job must answer for,  *)
(* so that its promises can be stated with no exclusion between processes: *)
(* nothing in claude-lens keeps an archiver of one process away from a     *)
(* collection, a restore or a purge of another.  The two variables observe *)
(* the archive; no step of the archive reads them.                         *)
(***************************************************************************)
EXTENDS BodyArchive

VARIABLES
    late,      \* rows an archiver moved while the process has a day file in hand
    owed       \* purged rows whose bodies the process's collection must delete

overlapVars == <<vars, late, owed>>

\* From opening a day file to letting go of it.
FileInHand == {"gcMarkers", "gcHot", "gcSweep", "gcCount", "gcRemove", "rsRow", "rsDrop"}

GCPCs == {"gcOpen", "gcMarkers", "gcHot", "gcSweep", "gcCount", "gcRemove"}

OverlapInit ==
    /\ Init
    /\ late = [p \in Procs |-> {}]
    /\ owed = [p \in Procs |-> {}]

\* The rows whose bodies an archiver's step puts into a day file or marks.
Moved ==
    {e \in Events : \E q \in Procs :
        \/ CommitDay(q) /\ e \in job[q].ids
        \/ MarkAndClear(q) /\ marker'[e] # marker[e]}

\* An archiver holds copies of the bodies it is about to write.
CopiedBy(q, e) == job[q].pc \in {"open", "commit"} /\ e \in job[q].ids

PurgedForGood == {e \in Events : stage[e] = "purged" /\ \A q \in Procs : ~CopiedBy(q, e)}

Remember ==
    /\ late' = [p \in Procs |->
                  IF job[p].pc \in FileInHand /\ job'[p].pc \in FileInHand
                  THEN late[p] \cup Moved ELSE {}]
    /\ owed' = [p \in Procs |->
                  IF job'[p].pc \notin GCPCs THEN {}
                  ELSE IF job[p].pc \in GCPCs THEN owed[p] ELSE PurgedForGood']

OverlapNext == Next /\ Remember

OverlapSpec == OverlapInit /\ [][OverlapNext]_overlapVars

-----------------------------------------------------------------------------
(* Properties. *)

\* No step of a collection or a restore takes a body from a reader, except one
\* that an archiver of another process moved while the day file was in hand:
\* that is all the two unlocked pairs, marker query and hot query
\* (archiver.go:386-403), row count and removal (archiver.go:420-429), can
\* lose.  Copies left by a broken-off run, rows marked long ago, merges,
\* purges, other collections and stale handles lose nothing.
CollectingKeepsBodies ==
    [][\A p \in Procs : CollectStep(p) \/ RestoreStep(p) =>
         \A e \in Events \ late[p] : Readable(e) \subseteq Readable(e)']_overlapVars

\* A collection that runs to its end leaves no body of a row purged before it
\* began in a linked day file (store.go:944-946), beside any archiver,
\* restore or collection of another process, except of rows whose bodies an
\* archiver had copied by then and not yet written.
PurgedBytesGo ==
    [][\A p \in Procs :
         GCDone(p) => \A e \in owed[p] : FileRow(e) = NoRow]_overlapVars

\* What makes the first inductive: the rows a collector examines are unmarked
\* once it has asked, the file it counts is the linked one unless that one has
\* nothing for the day, the file it removes is empty, a restore holds all that
\* the file has and drops only unmarked rows -- each up to the late rows.
SpareRow(p, e) == FileRow(e) = NoRow \/ e \in late[p]

CollectorSees(p) ==
    /\ job[p].pc \in {"gcHot", "gcSweep"} =>
         \A e \in job[p].ids : marker[e] = {} \/ e \in late[p]
    /\ job[p].pc \in {"gcMarkers", "gcHot", "gcSweep", "gcCount"} =>
         /\ job[p].fd \in Inodes
         /\ \/ dirent[job[p].day] = job[p].fd
            \/ \A e \in Events : DayOf[e] = job[p].day => SpareRow(p, e)
    /\ job[p].pc = "gcRemove" =>
         \A e \in Events : DayOf[e] = job[p].day => SpareRow(p, e)

RestoreSees(p) ==
    /\ job[p].pc \in {"rsRow", "rsDrop"} =>
         /\ job[p].fd \in Inodes
         /\ \A e \in job[p].ids : FileRow(e) \subseteq job[p].rows[e] \/ e \in late[p]
    /\ job[p].pc = "rsDrop" =>
         job[p].cur \in Events /\ (marker[job[p].cur] = {} \/ job[p].cur \in late[p])

\* And the second: a row a collection owes is in no archiver's hands for good,
\* and what a linked file still holds of it is in a file not visited yet or
\* among the rows about to be swept from the one in hand.
StillToSweep(p, e) ==
    \/ DayOf[e] \in job[p].days
    \/ /\ job[p].pc \in {"gcMarkers", "gcHot", "gcSweep"}
       /\ job[p].day = DayOf[e]
       /\ e \in job[p].ids

Owes(p) ==
    \A e \in owed[p] :
        /\ job[p].pc \in GCPCs
        /\ e \in PurgedForGood /\ e \notin late[p]
        /\ FileRow(e) = NoRow \/ StillToSweep(p, e)

OverlapInv ==
    \A p \in Procs : CollectorSees(p) /\ RestoreSees(p) /\ Owes(p)
=============================================================================
