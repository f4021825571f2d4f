----------------------------- MODULE ServeLife -----------------------------
(***************************************************************************)
(* The life of `clens serve` and of `clens restart`: several processes of  *)
(* one user that share two ports, the database and the record              *)
(* serve.state.json beside it.                                             *)
(*                                                                         *)
(* A process opens the store and purges, binds the proxy port and then the *)
(* dashboard port, serves, writes its record, and on a stop closes the     *)
(* proxy port, closes the dashboard port, waits for its consumer to drain, *)
(* removes its record and exits.  The consumer is cancelled together with  *)
(* the servers, so it may be done before the ports are closed or long      *)
(* after.  A restart reads the record, asks the dashboard to stop, waits   *)
(* for both ports and for the record to go, and spawns a successor.        *)
(*                                                                         *)
(* Every file operation, dial and bind is a step of its own.               *)
(***************************************************************************)
EXTENDS Naturals, FiniteSets

CONSTANTS Procs,       \* process ids, numbers from 1
          Commands,    \* `clens restart` invocations
          Swaps,       \* the commands given --exe, which may roll back
          Impatient,   \* may the user start a serve while another one lives?
          MaxFaults    \* bound: kills, unwritable records and timeouts

ASSUME ServeAssumption == /\ Procs \subseteq Nat \ {0} /\ IsFiniteSet(Procs)
                          /\ Swaps \subseteq Commands
                          /\ Impatient \in BOOLEAN /\ MaxFaults \in Nat

VARIABLES proc,      \* proc[p]: where process p is in Serve
          flushed,   \* flushed[p]: p's consumer has drained (consumerDone)
          cancelled, \* cancelled[p]: p's context was cancelled
          owns,      \* owns[p]: p wrote its record and will remove it at exit
          streams,   \* streams[p]: an open dashboard stream holds p's Shutdown
          record,    \* the PID in serve.state.json, 0 for no file
          cmd,       \* the restart commands
          faults

lifeVars == <<proc, flushed, cancelled, owns, streams, record, cmd, faults>>

None == 0

Phases == {"none", "booting", "bound", "up", "serving", "stopping",
           "proxyClosed", "portsClosed", "removing", "exited"}

Steps == {"idle", "read", "asked", "dash", "proxy", "record", "spawn",
          "awaiting", "rollback", "done", "failed"}

Dead == {"none", "exited"}
Alive == {p \in Procs : proc[p] \notin Dead}

\* Who listens: the proxy port is bound first and closed first.
ProxyHeld == \E p \in Procs :
                proc[p] \in {"bound", "up", "serving", "stopping"}
DashHeldBy(p) == proc[p] \in {"up", "serving", "stopping", "proxyClosed"}
DashHeld == \E p \in Procs : DashHeldBy(p)

\* What a restart holds from the record it read, and the process that
\* answered its health check.
Idle == [pc |-> "idle", prev |-> None, was |-> FALSE, child |-> None,
         met |-> None, alone |-> FALSE]

LifeInit ==
    /\ proc = [p \in Procs |-> "none"]
    /\ flushed = [p \in Procs |-> FALSE]
    /\ cancelled = [p \in Procs |-> FALSE]
    /\ owns = [p \in Procs |-> FALSE]
    /\ streams = [p \in Procs |-> FALSE]
    /\ record = None
    /\ cmd = [c \in Commands |-> Idle]
    /\ faults = 0

LifeTypeOK ==
    /\ proc \in [Procs -> Phases]
    /\ flushed \in [Procs -> BOOLEAN] /\ cancelled \in [Procs -> BOOLEAN]
    /\ owns \in [Procs -> BOOLEAN]
    /\ streams \in [Procs -> BOOLEAN]
    /\ record \in Procs \cup {None}
    /\ cmd \in [Commands -> [pc : Steps, prev : Procs \cup {None},
                             was : BOOLEAN, child : Procs \cup {None},
                             met : Procs \cup {None}, alone : BOOLEAN]]
    /\ faults \in 0..MaxFaults

Fault == faults < MaxFaults /\ faults' = faults + 1
Move(p, phase) == proc' = [proc EXCEPT ![p] = phase]

-----------------------------------------------------------------------------
(* A serve process                                                         *)

\* A fresh process: the lowest pid not used yet.
Fresh == {p \in Procs : proc[p] = "none" /\ \A q \in Procs :
                            proc[q] = "none" => p <= q}

\* The user runs `clens serve` in a terminal.
Start == \E p \in Fresh :
    /\ Impatient \/ Alive = {}
    /\ \A c \in Commands : Impatient \/ cmd[c].pc \in {"idle", "done", "failed"}
    /\ Move(p, "booting")
    /\ UNCHANGED <<flushed, cancelled, owns, streams, record, cmd, faults>>

\* net.Listen on the proxy address: a port that is taken ends the process.
BindProxy(p) ==
    /\ proc[p] = "booting"
    /\ Move(p, IF ProxyHeld THEN "exited" ELSE "bound")
    /\ UNCHANGED <<flushed, cancelled, owns, streams, record, cmd, faults>>

\* net.Listen on the dashboard address: a port that is taken closes the proxy
\* listener and ends the process, otherwise both servers run from here.
BindDash(p) ==
    /\ proc[p] = "bound"
    /\ Move(p, IF DashHeld THEN "exited" ELSE "up")
    /\ UNCHANGED <<flushed, cancelled, owns, streams, record, cmd, faults>>

\* writeServeState renames a whole file over the old one.  A record that
\* cannot be written is logged, and then nothing is removed at exit.
WriteRecord(p) ==
    /\ proc[p] = "up"
    /\ Move(p, "serving")
    /\ \/ record' = p /\ owns' = [owns EXCEPT ![p] = TRUE] /\ UNCHANGED faults
       \/ Fault /\ UNCHANGED <<record, owns>>
    /\ UNCHANGED <<flushed, cancelled, streams, cmd>>

\* A browser holds the live feed open, or lets it go.
Browse(p) ==
    /\ DashHeldBy(p)
    /\ streams' = [streams EXCEPT ![p] = ~ @]
    /\ UNCHANGED <<proc, flushed, cancelled, owns, record, cmd, faults>>

\* The context is cancelled, by Ctrl-C or by a server that failed.
Interrupt(p) ==
    /\ p \in Alive /\ ~ cancelled[p]
    /\ cancelled' = [cancelled EXCEPT ![p] = TRUE]
    /\ UNCHANGED <<proc, flushed, owns, streams, record, cmd, faults>>

\* Serve looks at the context after its record is written, not before.
Heed(p) ==
    /\ proc[p] = "serving" /\ cancelled[p] /\ Move(p, "stopping")
    /\ UNCHANGED <<flushed, cancelled, owns, streams, record, cmd, faults>>

\* The consumer's bounded drain and last flush, on its own goroutine.
Drain(p) ==
    /\ proc[p] \notin Dead \cup {"booting", "bound", "removing"}
    /\ cancelled[p] /\ ~ flushed[p]
    /\ flushed' = [flushed EXCEPT ![p] = TRUE]
    /\ UNCHANGED <<proc, cancelled, owns, streams, record, cmd, faults>>

\* proxySrv.Shutdown has closed the listener; it returns when the calls in
\* flight are over or the grace has passed.
CloseProxy(p) ==
    /\ proc[p] = "stopping" /\ Move(p, "proxyClosed")
    /\ UNCHANGED <<flushed, cancelled, owns, streams, record, cmd, faults>>

CloseDashNoGrace(p) ==   \* a mutated CloseDash: waits for the streams forever
    /\ ~ streams[p] /\ proc[p] = "proxyClosed" /\ Move(p, "portsClosed")
    /\ UNCHANGED <<flushed, cancelled, owns, streams, record, cmd, faults>>

\* dashSrv.Shutdown closes the listener at once; an open stream holds it
\* until the grace has passed, and then the process goes on.
CloseDash(p) ==
    /\ proc[p] = "proxyClosed" /\ Move(p, "portsClosed")
    /\ streams' = [streams EXCEPT ![p] = FALSE]
    /\ UNCHANGED <<flushed, cancelled, owns, record, cmd, faults>>

\* <-consumerDone, and then the deferred removeServeState reads the record:
\* one that names another process is left alone.
ReadOwn(p) ==
    /\ proc[p] = "portsClosed" /\ flushed[p]
    /\ Move(p, IF owns[p] /\ record \in {p, None} THEN "removing" ELSE "exited")
    /\ UNCHANGED <<flushed, cancelled, owns, streams, record, cmd, faults>>

\* os.Remove takes whatever file is there by now; the process closes its
\* store and ends.
RemoveRecord(p) ==
    /\ proc[p] = "removing"
    /\ record' = None
    /\ Move(p, "exited")
    /\ UNCHANGED <<flushed, cancelled, owns, streams, cmd, faults>>

\* A hard kill, which leaves the record behind.
Kill(p) ==
    /\ p \in Alive /\ Fault /\ Move(p, "exited")
    /\ UNCHANGED <<flushed, cancelled, owns, streams, record, cmd>>

Process(p) == \/ BindProxy(p) \/ BindDash(p) \/ WriteRecord(p)
              \/ Heed(p) \/ Drain(p) \/ CloseProxy(p) \/ CloseDash(p)
              \/ ReadOwn(p) \/ RemoveRecord(p)

-----------------------------------------------------------------------------
(* clens restart                                                           *)

At(c, pc) == cmd[c].pc = pc
Go(c, pc) == cmd' = [cmd EXCEPT ![c].pc = pc]
Alone(p) == \A q \in Alive : q = p

\* The record is read first: the graceful exit this command asks for will
\* delete it.
ReadPrev(c) ==
    /\ At(c, "idle")
    /\ \E p \in Procs : proc[p] # "none"
    /\ cmd' = [cmd EXCEPT ![c].pc = "read", ![c].prev = record]
    /\ UNCHANGED <<proc, flushed, cancelled, owns, streams, record, faults>>

\* Liveness is decided by health alone.  The process that answers is the one
\* on the dashboard port, which the command does not learn.
Health(c) ==
    /\ At(c, "read")
    /\ \/ \E p \in Procs :
            /\ DashHeldBy(p)
            /\ cmd' = [cmd EXCEPT ![c].pc = "asked", ![c].was = TRUE,
                                  ![c].met = p, ![c].alone = Alone(p)]
       \/ ~ DashHeld /\ Go(c, "spawn")
    /\ UNCHANGED <<proc, flushed, cancelled, owns, streams, record, faults>>

\* POST /api/shutdown: the answer is written before the context is cancelled,
\* and a dashboard that does not answer any more ends the command.
Ask(c) ==
    /\ At(c, "asked")
    /\ \/ \E p \in Procs :
            /\ DashHeldBy(p)
            /\ cancelled' = [cancelled EXCEPT ![p] = TRUE]
            /\ Go(c, "dash")
       \/ ~ DashHeld /\ Go(c, "failed") /\ UNCHANGED cancelled
    /\ UNCHANGED <<proc, flushed, owns, streams, record, faults>>

\* waitClosed dials the dashboard and then the proxy, again and again.
DialDash(c) ==
    /\ At(c, "dash") /\ ~ DashHeld
    /\ Go(c, "proxy")
    /\ UNCHANGED <<proc, flushed, cancelled, owns, streams, record, faults>>

DialProxy(c) ==
    /\ At(c, "proxy")
    /\ Go(c, IF ProxyHeld THEN "dash"
             ELSE IF cmd[c].prev # None THEN "record" ELSE "spawn")
    /\ UNCHANGED <<proc, flushed, cancelled, owns, streams, record, faults>>

AwaitPorts(c) ==         \* a mutated AwaitRecord: the closed ports are enough
    /\ At(c, "record")
    /\ Go(c, "spawn")
    /\ UNCHANGED <<proc, flushed, cancelled, owns, streams, record, faults>>

\* The ports close before the last flush, so the command also waits until the
\* record it read is gone or names another process.
AwaitRecord(c) ==
    /\ At(c, "record") /\ record # cmd[c].prev
    /\ Go(c, "spawn")
    /\ UNCHANGED <<proc, flushed, cancelled, owns, streams, record, faults>>

\* A wait that outlives --timeout ends the command before it starts anything.
GiveUp(c) ==
    /\ cmd[c].pc \in {"dash", "record"} /\ Fault
    /\ Go(c, "failed")
    /\ UNCHANGED <<proc, flushed, cancelled, owns, streams, record>>

\* spawnDetached: the child runs the recorded executable and flags.
Spawn(c) ==
    /\ At(c, "spawn")
    /\ \E p \in Fresh :
         /\ Move(p, "booting")
         /\ cmd' = [cmd EXCEPT ![c].pc = "awaiting", ![c].child = p]
    /\ UNCHANGED <<flushed, cancelled, owns, streams, record, faults>>

\* waitHealthy: whoever answers on the dashboard port.
Healthy(c) ==
    /\ At(c, "awaiting") /\ DashHeld
    /\ Go(c, "done")
    /\ UNCHANGED <<proc, flushed, cancelled, owns, streams, record, faults>>

\* A child that is not healthy in time is killed; only a swapped-in binary
\* that replaced a running one with a known executable is rolled back.
Unhealthy(c) ==
    /\ At(c, "awaiting")
    /\ Fault
    /\ proc' = [proc EXCEPT ![cmd[c].child] = "exited"]
    /\ Go(c, IF c \in Swaps /\ cmd[c].was /\ cmd[c].prev # None
             THEN "rollback" ELSE "failed")
    /\ UNCHANGED <<flushed, cancelled, owns, streams, record>>

\* The previous executable is spawned, and the command fails either way.
Rollback(c) ==
    /\ At(c, "rollback")
    /\ \E p \in Fresh :
         /\ Move(p, "booting")
         /\ cmd' = [cmd EXCEPT ![c].pc = "failed", ![c].child = p]
    /\ UNCHANGED <<flushed, cancelled, owns, streams, record, faults>>

Command(c) == \/ ReadPrev(c) \/ Health(c) \/ Ask(c)
              \/ DialDash(c) \/ DialProxy(c) \/ AwaitRecord(c)
              \/ GiveUp(c) \/ Spawn(c) \/ Healthy(c) \/ Unhealthy(c)
              \/ Rollback(c)

LifeNext == \/ Start
            \/ \E p \in Procs : Process(p) \/ Interrupt(p) \/ Browse(p) \/ Kill(p)
            \/ \E c \in Commands : Command(c)

LifeSpec == LifeInit /\ [][LifeNext]_lifeVars

-----------------------------------------------------------------------------
(* Properties                                                              *)

\* "A new binary that migrates the schema could start under a still-flushing
\* one" is what restart.go waits for: the child of a restart that read the
\* record of the one process that lived starts only after that process has
\* drained its consumer, or is dead.
DrainBeforeSpawn ==
    \A c \in Commands :
        (cmd[c].child # None /\ cmd[c].met # None /\ cmd[c].alone
         /\ cmd[c].prev = cmd[c].met)
        => flushed[cmd[c].met] \/ proc[cmd[c].met] = "exited"

\* A process that is asked to stop ends, whatever browser holds its feed open
\* and however long its consumer takes to drain: serve.go waits for the
\* servers with a grace and for the consumer, whose drain is bounded.
StopEnds == \A p \in Procs : cancelled[p] ~> proc[p] = "exited"
=============================================================================
