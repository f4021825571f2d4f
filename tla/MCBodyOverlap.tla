----------------------------- MODULE MCBodyOverlap -----------------------------
(* A small instance of BodyOverlap for TLC. *)
EXTENDS BodyOverlap

CONSTANT Server   \* the serve process

MCOneDay == [e \in Events |-> 1]

\* One serve process whose daily ticker starts a full archive cycle again and
\* again with nothing failing, and at any time beside it a command-line restore
\* or purge, which may fail or be killed.
CycleNext ==
    \/ RowStep
    \/ StartArchive(Server, NumEvents + 1, TRUE)
    \/ \E p \in Procs :
        \/ Work(p)
        \/ \E e \in Events : Hydrate(p, e)
        \/ p # Server /\ (StartRestore(p, 1, NumEvents + 1) \/ Fail(p) \/ Crash(p))
        \/ p # Server /\ \E e \in Events : Purge(p, {e})

CycleSpec ==
    /\ OverlapInit /\ [][CycleNext /\ Remember]_overlapVars
    /\ WF_vars(StartArchive(Server, NumEvents + 1, TRUE))
    /\ \A p \in Procs : WF_vars(Work(p))

\* Once the command line is quiet, the daily cycles archive every eligible row
\* (archiver.go:321-322: "leaves the event hot, and the next run archives it
\* again").
EligibleIsArchived ==
    <>[](\A p \in Procs \ {Server} : job[p].pc = "idle") =>
        \A e \in Events :
            (stage[e] = "live" /\ hot[e] # {} /\ marker[e] = {} /\ names[e] = "set")
                ~> (stage[e] = "purged" \/ marker[e] # {})
=============================================================================
