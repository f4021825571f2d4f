----------------------------- MODULE Collectors -----------------------------
(***************************************************************************)
(* The collectors beside the proxy: a runner that drives the transcript    *)
(* tail, one snapshot poll per subscription account and the pull of the    *)
(* three Admin reports, one after the other, and records the outcome of    *)
(* each source.  Two processes hold a runner: `clens serve`, whose         *)
(* scheduler and dashboard trigger run it again and again, and             *)
(* `clens refresh`, which runs it once.  Source: src/internal/ingest,      *)
(* src/internal/snapshot, src/internal/adminrep,                           *)
(* src/internal/cli/refresh.go.                                            *)
(*                                                                         *)
(* Time is counted in days; a report has one bucket per day and one bucket *)
(* per page.  The tail itself is TranscriptTail.                           *)
(***************************************************************************)
EXTENDS Integers, Sequences, SequencesExt

CONSTANTS
    Runs,       \* who drives a runner: "tick", "trigger" of serve, "refresh"
    Accounts,   \* the configured subscription accounts, in order
    Windows,    \* the quota windows a snapshot answer lists
    Days,       \* bound: the last day
    Lookback,   \* days the first pull reaches back
    Secrets,    \* credentials the user sets and removes while the program runs
    Starts,     \* bound: process starts
    Faults      \* bound: failed requests, failed store calls, panics

ASSUME CollectorsAssumption ==
    /\ Runs \subseteq {"tick", "trigger", "refresh"} /\ "tick" \in Runs
    /\ Accounts \in Seq(STRING)
    /\ Days \in Nat /\ Lookback \in 0..Days
    /\ Secrets \subseteq {"sessionKey", "admin"}
    /\ Starts \in Nat /\ Faults \in Nat

Hosts == {"serve", "refresh"}
Host(r) == IF r = "refresh" THEN "refresh" ELSE "serve"
Dates == 0..Days
NoDay == -1
AllSecrets == {"sessionKey", "admin"}
Sources == {"jsonl", "snapshot", "admin"}
Entry == {[source |-> "jsonl", name |-> "root"], [source |-> "admin", name |-> "org"]}
         \cup [source : {"snapshot"}, name : Range(Accounts)]

VARIABLES
    today,
    secrets,    \* credentials that are configured
    host,       \* each process: whether it is up, its collectors and its admin window
    run,        \* each run: where it is, and the locals of the collector at work
    health,     \* ingest_state "health:<source>:*": the outcome written last
    cursor,     \* ingest_state "admin:usage" and "admin:cost"
    days,       \* admin_usage_days and admin_cost_days: the days with rows
    quota,      \* quota_snapshots: the windows stored by the poll that began last
    poller,     \* auxiliary: the run that poll belongs to
    mark,       \* ingest_state "snapshot:<account>" names that poll
    starts, faults,
    blind       \* auxiliary: a window was computed without its cursor

admin == <<cursor, days>>
snaps == <<quota, poller, mark>>
bounds == <<starts, faults, blind>>
vars == <<today, secrets, host, run, health, admin, snaps, bounds>>

HostState == [up : BOOLEAN, entries : Seq(Entry), since : Dates, until : Dates]
Down == [up |-> FALSE, entries |-> <<>>, since |-> 0, until |-> 0]

Reports == {"usage", "cost", "limits"}
RunState == [pc : {"idle", "next", "windows", "ask", "fetch", "save"},
             left : Seq(Entry),         \* entries still to run; the first is at work
             todo : SUBSET Windows,     \* windows not yet stored
             report : Reports,
             read : Dates,              \* buckets read so far
             ok : BOOLEAN]              \* outcome so far
Idle == [pc |-> "idle", left |-> <<>>, todo |-> {}, report |-> "usage", read |-> 0,
         ok |-> TRUE]

TypeOK ==
    /\ today \in Dates
    /\ secrets \subseteq AllSecrets
    /\ host \in [Hosts -> HostState]
    /\ run \in [Runs -> RunState]
    /\ \A r \in Runs : IsSuffix(run[r].left, host[Host(r)].entries)
    /\ health \in [Sources -> {"unknown", "ok", "error"}]
    /\ cursor \in [{"usage", "cost"} -> Dates \cup {NoDay}]
    /\ days \in [{"usage", "cost"} -> SUBSET Dates]
    /\ quota \in [Range(Accounts) -> SUBSET Windows]
    /\ poller \in [Range(Accounts) -> Runs]
    /\ mark \in [Range(Accounts) -> BOOLEAN]
    /\ starts \in 0..Starts /\ faults \in 0..Faults
    /\ blind \in BOOLEAN

Init ==
    /\ today = Lookback
    /\ secrets = AllSecrets
    /\ host = [h \in Hosts |-> Down]
    /\ run = [r \in Runs |-> Idle]
    /\ health = [s \in Sources |-> "unknown"]
    /\ cursor = [c \in {"usage", "cost"} |-> NoDay]
    /\ days = [c \in {"usage", "cost"} |-> {}]
    /\ quota = [a \in Range(Accounts) |-> {}]
    /\ poller = [a \in Range(Accounts) |-> "tick"]
    /\ mark = [a \in Range(Accounts) |-> FALSE]
    /\ starts = 0 /\ faults = 0
    /\ blind = FALSE

----------------------------------------------------------------------------
(* The world: days pass, the user sets and removes credentials. *)

NextDay ==
    /\ today < Days
    /\ today' = today + 1
    /\ UNCHANGED <<secrets, host, run, health, admin, snaps, bounds>>

Toggle(s) ==
    /\ secrets' = IF s \in secrets THEN secrets \ {s} ELSE secrets \cup {s}
    /\ UNCHANGED <<today, host, run, health, admin, snaps, bounds>>

Fault == faults < Faults /\ faults' = faults + 1

----------------------------------------------------------------------------
(* A process starts: addCollectors registers a source only when its        *)
(* credential is configured, and fixes the window of the admin pulls.      *)

Entries ==
    <<[source |-> "jsonl", name |-> "root"]>>
    \o (IF "sessionKey" \in secrets
        THEN [i \in DOMAIN Accounts |-> [source |-> "snapshot", name |-> Accounts[i]]]
        ELSE <<>>)
    \o (IF "admin" \in secrets THEN <<[source |-> "admin", name |-> "org"]>> ELSE <<>>)

Earliest == IF today < Lookback THEN 0 ELSE today - Lookback

\* adminWindow resumes at the usage cursor.
Since == IF cursor["usage"] = NoDay THEN Earliest ELSE cursor["usage"]

Boot(h) ==
    /\ ~host[h].up /\ starts < Starts
    /\ starts' = starts + 1
    /\ \E since \in {Since, Earliest} :
        /\ host' = [host EXCEPT ![h] = [up |-> TRUE, entries |-> Entries,
                                        since |-> since, until |-> today]]
        /\ IF since = Since THEN UNCHANGED <<faults, blind>> ELSE Fault /\ blind' = TRUE
    /\ UNCHANGED <<today, secrets, run, health, admin, snaps>>

\* A process dies, with the runs it drives.
Stop(h) ==
    /\ host[h].up
    /\ Fault
    /\ host' = [host EXCEPT ![h] = Down]
    /\ run' = [r \in Runs |-> IF Host(r) = h THEN Idle ELSE run[r]]
    /\ UNCHANGED <<today, secrets, health, admin, snaps, starts, blind>>

----------------------------------------------------------------------------
(* RunOnce: every entry in the order of registration. *)

Set(r, s) == run' = [run EXCEPT ![r] = s]
At(r, pc) == run[r].pc = pc
Turn(r) == Head(run[r].left)
TurnOf(r, source) == At(r, "next") /\ run[r].left # <<>> /\ Turn(r).source = source

Begin(r) ==
    /\ host[Host(r)].up /\ At(r, "idle")
    /\ Set(r, [Idle EXCEPT !.pc = "next", !.left = host[Host(r)].entries])
    /\ UNCHANGED <<today, secrets, host, health, admin, snaps, bounds>>

\* A refresh exits with its only run.
End(r) ==
    /\ At(r, "next") /\ run[r].left = <<>>
    /\ Set(r, Idle)
    /\ host' = IF r = "refresh" THEN [host EXCEPT !["refresh"] = Down] ELSE host
    /\ UNCHANGED <<today, secrets, health, admin, snaps, bounds>>

\* runOne isolates an outcome: the next entry runs whatever this one returned.
\* A record that cannot be written is dropped by the code and left out here.
Others(r) == Tail(run[r].left)
FinishThen(r, ok, left) ==
    /\ Set(r, [Idle EXCEPT !.pc = "next", !.left = left])
    /\ health' = [health EXCEPT ![Turn(r).source] = IF ok THEN "ok" ELSE "error"]
FinishOrStop(r, ok) == FinishThen(r, ok, IF ok THEN Others(r) ELSE <<>>)
Finish(r, ok) == FinishThen(r, ok, Others(r))

\* Any collector may return an error or panic; runOne recovers.
Fail(r) ==
    /\ ~At(r, "idle") /\ run[r].left # <<>>
    /\ Fault
    /\ Finish(r, FALSE)
    /\ UNCHANGED <<today, secrets, host, admin, snaps, starts, blind>>

TailTranscripts(r) ==
    /\ TurnOf(r, "jsonl")
    /\ Finish(r, TRUE)
    /\ UNCHANGED <<today, secrets, host, admin, snaps, bounds>>

----------------------------------------------------------------------------
(* The snapshot poll of one account.  An answer that cannot be used leaves  *)
(* one status row, no windows, and an error (Fail).                         *)

\* A missing credential is reported by adaptResult as an error.
Unconfigured(r) ==
    /\ TurnOf(r, "snapshot") /\ "sessionKey" \notin secrets
    /\ Finish(r, FALSE)
    /\ UNCHANGED <<today, secrets, host, admin, snaps, bounds>>

Answer(r) ==
    LET a == Turn(r).name IN
    /\ TurnOf(r, "snapshot") /\ "sessionKey" \in secrets
    /\ Set(r, [run[r] EXCEPT !.pc = "windows", !.todo = Windows])
    /\ quota' = [quota EXCEPT ![a] = {}]
    /\ poller' = [poller EXCEPT ![a] = r]
    /\ mark' = [mark EXCEPT ![a] = FALSE]
    /\ UNCHANGED <<today, secrets, host, health, admin, bounds>>

\* One row per window; the first insert that fails ends the poll (Fail).
StoreWindow(r) ==
    LET a == Turn(r).name IN
    /\ At(r, "windows")
    /\ \E w \in run[r].todo :
        /\ quota' = IF poller[a] = r THEN [quota EXCEPT ![a] = @ \cup {w}] ELSE quota
        /\ Set(r, [run[r] EXCEPT !.todo = @ \ {w}])
    /\ UNCHANGED <<today, secrets, host, health, admin, poller, mark, bounds>>

AllStoredButOne(r) == \E w \in Windows : run[r].todo \subseteq {w}
AllStored(r) == run[r].todo = {}

\* A mark that cannot be saved is logged.
MarkPoll(r) ==
    LET a == Turn(r).name IN
    /\ At(r, "windows") /\ AllStored(r)
    /\ Finish(r, TRUE)
    /\ \/ mark' = [mark EXCEPT ![a] = (poller[a] = r)] /\ UNCHANGED faults
       \/ Fault /\ UNCHANGED mark
    /\ UNCHANGED <<today, secrets, host, admin, quota, poller, starts, blind>>

----------------------------------------------------------------------------
(* The admin pull: usage, cost, rate limits, each fail-soft. *)

\* CollectAll: a report that did not come through leaves the others their turn
\* and makes the outcome an error.
Then(r, ok) ==
    IF run[r].report = "limits"
    THEN Finish(r, run[r].ok /\ ok)
    ELSE /\ Set(r, [run[r] EXCEPT !.pc = "ask", !.read = 0, !.ok = @ /\ ok,
                                  !.report = IF @ = "usage" THEN "cost" ELSE "limits"])
         /\ UNCHANGED health

Collect(r) ==
    /\ TurnOf(r, "admin")
    /\ Set(r, [run[r] EXCEPT !.pc = "ask", !.report = "usage"])
    /\ UNCHANGED <<today, secrets, host, health, admin, snaps, bounds>>

\* Each report reads the credential again.
Ask(r) ==
    /\ At(r, "ask")
    /\ IF "admin" \in secrets
       THEN Set(r, [run[r] EXCEPT !.pc = "fetch"]) /\ UNCHANGED health
       ELSE Then(r, FALSE)
    /\ UNCHANGED <<today, secrets, host, admin, snaps, bounds>>

From(r) == host[Host(r)].since
Asked(r) == From(r) .. (host[Host(r)].until - 1)
Answered(r) == {d \in Asked(r) : d < From(r) + run[r].read}

FetchPage(r) ==
    /\ At(r, "fetch") /\ run[r].report # "limits" /\ Answered(r) # Asked(r)
    /\ Set(r, [run[r] EXCEPT !.read = @ + 1])
    /\ UNCHANGED <<today, secrets, host, health, admin, snaps, bounds>>

\* fetchAllPages: a page that fails discards the pages read before it.
BreakOffKeepingPages(r) == Set(r, [run[r] EXCEPT !.pc = "save"]) /\ UNCHANGED health
BreakOff(r) == Then(r, FALSE)

PageFails(r) ==
    /\ At(r, "fetch")
    /\ Fault
    /\ BreakOff(r)
    /\ UNCHANGED <<today, secrets, host, admin, snaps, starts, blind>>

\* Usage and cost: one transaction; its failure ends the whole pull (Fail).
StoreDays(r) ==
    /\ At(r, "fetch") /\ run[r].report # "limits" /\ Answered(r) = Asked(r)
    /\ days' = [days EXCEPT ![run[r].report] = @ \cup Answered(r)]
    /\ Set(r, [run[r] EXCEPT !.pc = "save"])
    /\ UNCHANGED <<today, secrets, host, health, cursor, snaps, bounds>>

\* A cursor that cannot be saved is logged.
SaveCursor(r) ==
    /\ At(r, "save")
    /\ Then(r, TRUE)
    /\ \/ /\ cursor' = [cursor EXCEPT ![run[r].report] = host[Host(r)].until]
          /\ UNCHANGED faults
       \/ Fault /\ UNCHANGED cursor
    /\ UNCHANGED <<today, secrets, host, days, snaps, starts, blind>>

\* Rate limits have no history; their rows are left out.
StoreLimits(r) ==
    /\ At(r, "fetch") /\ run[r].report = "limits"
    /\ Then(r, TRUE)
    /\ UNCHANGED <<today, secrets, host, admin, snaps, bounds>>

----------------------------------------------------------------------------
Poll(r) == Unconfigured(r) \/ Answer(r) \/ StoreWindow(r) \/ MarkPoll(r)

Pull(r) == Collect(r) \/ Ask(r) \/ FetchPage(r) \/ PageFails(r) \/ StoreDays(r)
           \/ SaveCursor(r) \/ StoreLimits(r)

Step(r) == TailTranscripts(r) \/ Poll(r) \/ Pull(r) \/ Fail(r) \/ End(r)

Next ==
    \/ NextDay
    \/ \E s \in Secrets : Toggle(s)
    \/ \E h \in Hosts : Boot(h) \/ Stop(h)
    \/ \E r \in Runs : Begin(r) \/ Step(r)

Spec == Init /\ [][Next]_vars

\* The scheduler ticks as long as serve is up, and a run under way goes on.
FairSpec ==
    /\ Spec
    /\ WF_vars(Begin("tick"))
    /\ \A r \in Runs : WF_vars(Step(r))

----------------------------------------------------------------------------
(* Properties. *)

\* The usage report has no hole behind its cursor: whatever pulls overlap, fail
\* half-way or die, no later window starts behind a day that was not stored
\* (adminrep.go:239-244, refresh.go:154-157).  It is a property of the first two
\* lookbacks: a pull that stored its days and never saved its cursor is out of
\* the next first pull's reach after that.
UsageHasNoGap ==
    ~blind /\ cursor["usage"] # NoDay =>
        \E first \in 0..cursor["usage"] :
            /\ first .. (cursor["usage"] - 1) \subseteq days["usage"]
            /\ days["usage"] \cap 0..(first - 1) = {}
            /\ cursor["usage"] - Lookback >= first

\* While the source is shown as healthy, the cost report holds every day the
\* usage report holds behind the cost cursor (ingest.go:5-6: "a broken collector
\* is a visible red row instead of a quietly short chart", adminrep.go:243: "the
\* next collect retries the whole window").
CostHasNoGap ==
    health["admin"] = "ok" =>
        \A d \in days["usage"] : d < cursor["cost"] => d \in days["cost"]

\* The snapshot cursor names a poll all of whose windows are in the store, never
\* one that stopped between two rows (snapshot.go:128-153).
PollsAreWhole ==
    \A a \in Range(Accounts) : mark[a] => quota[a] = Windows

\* A run of serve comes to the last registered collector, whatever the ones
\* before it return (ingest.go:105-116): entries are run in order, so every
\* source gets its turn.
EveryCollectorRuns ==
    host["serve"].up ~>
        (~host["serve"].up \/ run["tick"].left = <<Last(host["serve"].entries)>>)
=============================================================================
