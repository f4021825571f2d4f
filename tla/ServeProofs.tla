------------------------------- MODULE ServeProofs -------------------------------
(***************************************************************************)
(* What the parts of a running serve promise, for every instance: which    *)
(* process holds the ports after a restart (ServeLife), what a reload may  *)
(* put in force (LiveSettings), what a dashboard stream has received       *)
(* (LiveFeed), what a save of a credential leaves of the others (Secrets), *)
(* and what an Open makes of a database file (SchemaOpen).  The parts share *)
(* no state; each has its invariant, its lemmas and its theorem.           *)
(***************************************************************************)
EXTENDS ServeLife, LiveSettings, LiveFeed, Secrets, SchemaOpen, SequenceTheorems, TLAPS

-----------------------------------------------------------------------------
(* A restart and the process it replaces.                                  *)

Command0 == [pc : Steps, prev : Procs \cup {None}, was : BOOLEAN,
             child : Procs \cup {None}, met : Procs \cup {None}, alone : BOOLEAN]

Waiting == {"read", "asked", "dash", "proxy", "record"}
BeforeSpawn == Waiting \cup {"idle", "spawn"}

Drained(p) == flushed[p] \/ proc[p] = "exited"

\* The record names a process that was started, and one that is about to remove
\* it has drained.
Recorded == record # None => proc[record] # "none"
RemovesDrained == \A p \in Procs : proc[p] = "removing" => flushed[p]

\* Until a restart spawns there is one process at most.
OneProcess == (\A c \in Commands : cmd[c].pc \in BeforeSpawn)
                 => \A p, q \in Alive : p = q

\* While a restart waits, the record it read stays until its process has drained;
\* once it goes on to spawn, that process has.
Watches == \A c \in Commands :
    cmd[c].pc \in Waiting /\ cmd[c].prev # None
        => record = cmd[c].prev \/ Drained(cmd[c].prev)
Unmet == \A c \in Commands : cmd[c].pc \in {"idle", "read"} => cmd[c].met = None
NoChild == \A c \in Commands : cmd[c].pc \in BeforeSpawn => cmd[c].child = None
Passed == \A c \in Commands :
    (cmd[c].pc \in {"spawn", "awaiting", "rollback"} \/ cmd[c].child # None)
        => cmd[c].met = None \/ cmd[c].prev = None \/ Drained(cmd[c].prev)

LifeInv == /\ LifeTypeOK /\ Recorded /\ RemovesDrained /\ OneProcess
           /\ Watches /\ Unmet /\ NoChild /\ Passed

\* No process has the number that stands for none.
LEMMA ProcsAreNot0 == None \notin Procs
  BY ServeAssumption DEF ServeAssumption, None

\* The first state satisfies the invariant.
LEMMA LifeStarts == ASSUME LifeInit PROVE LifeInv
<1>1. LifeTypeOK
  BY ServeAssumption DEF LifeInit, LifeTypeOK, ServeAssumption, Idle, Phases, Steps, None
<1>2. /\ \A p \in Procs : proc[p] = "none"
      /\ \A c \in Commands : cmd[c].pc = "idle" /\ cmd[c].met = None /\ cmd[c].child = None
      /\ record = None
  BY DEF LifeInit, Idle
<1>3. Alive = {}
  BY <1>2 DEF Alive, Dead
<1> QED BY <1>1, <1>2, <1>3 DEF LifeInv, Recorded, RemovesDrained, OneProcess, Watches,
        Unmet, NoChild, Passed, Waiting, Drained

\* A step of a process, or of the user.  No one comes back from the dead, and no
\* one forgets that it has drained.
LEMMA ProcessKeeps ==
    ASSUME \A c, d \in Commands : c = d,
           LifeInv, LifeTypeOK', cmd' = cmd,
           \A p \in Procs : /\ proc[p] \in Dead => proc'[p] = proc[p]
                            /\ proc[p] # "none" => proc'[p] # "none"
                            /\ flushed[p] => flushed'[p]
                            /\ proc'[p] = "removing" => flushed'[p],
           \/ record' = record
           \/ \E p \in Procs : /\ record' \in {p, None} /\ p \in Alive
                               /\ record' = None => flushed[p]
    PROVE  LifeInv'
<1>1. /\ proc \in [Procs -> Phases] /\ record \in Procs \cup {None}
      /\ cmd \in [Commands -> Command0]
  BY DEF LifeInv, LifeTypeOK, Command0
<1>2. \A p \in Procs : Drained(p) => Drained(p)'
  BY DEF Drained, Dead
<1>3. Alive' \subseteq Alive
  BY DEF Alive, Dead
<1>4. Recorded'
  <2>1. CASE record' = record
    BY <1>1, <2>1 DEF LifeInv, Recorded
  <2>2. CASE record' # record
    BY <2>2 DEF Recorded, Alive, Dead
  <2> QED BY <2>1, <2>2
<1>5. RemovesDrained'
  BY DEF RemovesDrained
<1>6. OneProcess'
  BY <1>3 DEF LifeInv, OneProcess
<1>7. Watches'
  <2> SUFFICES ASSUME NEW c \in Commands, cmd[c].pc \in Waiting, cmd[c].prev # None
               PROVE record' = cmd[c].prev \/ Drained(cmd[c].prev)'
    BY DEF Watches
  <2>1. cmd[c].prev \in Procs
    BY <1>1 DEF Command0
  <2>2. record = cmd[c].prev \/ Drained(cmd[c].prev)
    BY DEF LifeInv, Watches
  <2>3. CASE Drained(cmd[c].prev) \/ record' = record
    BY <1>2, <2>1, <2>2, <2>3
  <2>4. CASE record = cmd[c].prev /\ record' # record
    <3>1. PICK p \in Procs : /\ record' \in {p, None} /\ p \in Alive
                             /\ record' = None => flushed[p]
      BY <2>4
    <3>2. CASE p = cmd[c].prev
      BY <1>2, <2>1, <2>4, <3>1, <3>2 DEF Drained
    <3>3. CASE p # cmd[c].prev
      <4>1. cmd[c].prev \notin Alive
        BY <3>1, <3>3 DEF LifeInv, OneProcess, BeforeSpawn
      <4>2. proc[cmd[c].prev] # "none"
        BY <2>4 DEF LifeInv, Recorded
      <4>3. Drained(cmd[c].prev)
        BY <2>1, <4>1, <4>2 DEF Alive, Dead, Drained
      <4> QED BY <1>2, <2>1, <4>3
    <3> QED BY <3>2, <3>3
  <2> QED BY <2>2, <2>3, <2>4
<1>8. Unmet' /\ NoChild'
  BY DEF LifeInv, Unmet, NoChild
<1>9. Passed'
  <2> SUFFICES ASSUME NEW c \in Commands,
                      cmd[c].pc \in {"spawn", "awaiting", "rollback"} \/ cmd[c].child # None
               PROVE cmd[c].met = None \/ cmd[c].prev = None \/ Drained(cmd[c].prev)'
    BY DEF Passed
  <2>1. cmd[c].met = None \/ cmd[c].prev = None \/ Drained(cmd[c].prev)
    BY DEF LifeInv, Passed
  <2>2. cmd[c].prev \in Procs \cup {None}
    BY <1>1 DEF Command0
  <2> QED BY <1>2, <2>1, <2>2
<1> QED BY <1>4, <1>5, <1>6, <1>7, <1>8, <1>9 DEF LifeInv

\* A step of the restart.
LEMMA CommandKeeps ==
    ASSUME \A c, d \in Commands : c = d,
           LifeInv, LifeTypeOK', NEW c \in Commands,
           record' = record, flushed' = flushed,
           \A p \in Procs : \/ proc'[p] = proc[p] \/ proc'[p] = "exited"
                            \/ proc[p] = "none" /\ proc'[p] = "booting",
           cmd'[c].pc \in Waiting /\ cmd'[c].prev # None
              => record = cmd'[c].prev \/ Drained(cmd'[c].prev),
           cmd'[c].pc \in {"idle", "read"} => cmd'[c].met = None,
           cmd'[c].pc \in BeforeSpawn => /\ cmd'[c].child = None /\ cmd[c].pc \in BeforeSpawn
                                         /\ proc' = proc,
           (cmd'[c].pc \in {"spawn", "awaiting", "rollback"} \/ cmd'[c].child # None)
              => cmd'[c].met = None \/ cmd'[c].prev = None \/ Drained(cmd'[c].prev)
    PROVE  LifeInv'
<1>1. /\ proc \in [Procs -> Phases] /\ record \in Procs \cup {None}
      /\ cmd' \in [Commands -> Command0]
  BY DEF LifeInv, LifeTypeOK, Command0
<1>2. \A p \in Procs : Drained(p) => Drained(p)'
  BY DEF Drained
<1>3. Recorded'
  BY <1>1 DEF LifeInv, Recorded
<1>4. RemovesDrained'
  BY DEF LifeInv, RemovesDrained
<1>5. OneProcess'
  <2>1. CASE cmd'[c].pc \in BeforeSpawn
    <3>1. OneProcess /\ \A d \in Commands : cmd[d].pc \in BeforeSpawn
      BY <2>1 DEF LifeInv
    <3>2. \A p, q \in Alive : p = q
      BY <3>1 DEF OneProcess
    <3>3. Alive' = Alive
      BY <2>1 DEF Alive
    <3> QED BY <3>2, <3>3 DEF OneProcess
  <2>2. CASE cmd'[c].pc \notin BeforeSpawn
    BY <2>2 DEF OneProcess
  <2> QED BY <2>1, <2>2
<1>6. cmd'[c].prev \in Procs \cup {None}
  BY <1>1 DEF Command0
<1>7. Watches'
  <2>1. cmd'[c].pc \in Waiting /\ cmd'[c].prev # None
          => record' = cmd'[c].prev \/ Drained(cmd[c].prev)'
    BY <1>2, <1>6 DEF Drained
  <2> QED BY <2>1 DEF Watches
<1>8. Unmet' /\ NoChild'
  BY DEF Unmet, NoChild
<1>9. Passed'
  <2>1. (cmd'[c].pc \in {"spawn", "awaiting", "rollback"} \/ cmd'[c].child # None)
          => cmd'[c].met = None \/ cmd'[c].prev = None \/ Drained(cmd[c].prev)'
    BY <1>2, <1>6 DEF Drained
  <2> QED BY <2>1 DEF Passed
<1> QED BY <1>3, <1>4, <1>5, <1>7, <1>8, <1>9 DEF LifeInv

\* What Go does to a command.
LEMMA GoIs ==
    ASSUME LifeTypeOK, NEW c \in Commands, NEW pc \in Steps, Go(c, pc)
    PROVE  /\ cmd' \in [Commands -> Command0]
           /\ cmd'[c].pc = pc /\ cmd'[c].prev = cmd[c].prev
           /\ cmd'[c].met = cmd[c].met /\ cmd'[c].child = cmd[c].child
  BY DEF LifeTypeOK, Go, Command0

\* The steps of a restart that change more than where it is.
LEMMA ReadPrevIs ==
    ASSUME LifeTypeOK, NEW c \in Commands, ReadPrev(c)
    PROVE  /\ cmd' \in [Commands -> Command0]
           /\ cmd'[c].pc = "read" /\ cmd'[c].prev = record
           /\ cmd'[c].met = cmd[c].met /\ cmd'[c].child = cmd[c].child
<1>1. cmd[c] \in Command0 /\ cmd \in [Commands -> Command0] /\ record \in Procs \cup {None}
  BY DEF LifeTypeOK, Command0
<1> DEFINE r == [[cmd[c] EXCEPT !.pc = "read"] EXCEPT !.prev = record]
<1>2. r \in Command0
  BY <1>1 DEF Command0, Steps
<1>3. r.pc = "read" /\ r.prev = record /\ r.met = cmd[c].met /\ r.child = cmd[c].child
  BY <1>1 DEF Command0
<1>4. cmd' = [cmd EXCEPT ![c] = r]
  BY <1>1 DEF ReadPrev
<1> HIDE DEF r
<1>5. cmd' \in [Commands -> Command0] /\ cmd'[c] = r
  BY <1>1, <1>2, <1>4
<1> QED BY <1>3, <1>5

\* What a command knows after it has asked a process to stop.
LEMMA MeetsIs ==
    ASSUME LifeTypeOK, NEW c \in Commands, NEW p \in Procs,
           cmd' = [cmd EXCEPT ![c].pc = "asked", ![c].was = TRUE,
                              ![c].met = p, ![c].alone = Alone(p)]
    PROVE  /\ cmd' \in [Commands -> Command0]
           /\ cmd'[c].pc = "asked" /\ cmd'[c].prev = cmd[c].prev
           /\ cmd'[c].child = cmd[c].child
<1>1. cmd[c] \in Command0 /\ cmd \in [Commands -> Command0]
  BY DEF LifeTypeOK, Command0
<1>2. PICK b \in BOOLEAN : b = Alone(p)
  BY DEF Alone
<1> DEFINE r == [[[[cmd[c] EXCEPT !.pc = "asked"] EXCEPT !.was = TRUE]
                    EXCEPT !.met = p] EXCEPT !.alone = b]
<1>3. r \in Command0
  BY <1>1 DEF Command0, Steps
<1>4. r.pc = "asked" /\ r.prev = cmd[c].prev /\ r.child = cmd[c].child
  BY <1>1 DEF Command0
<1>5. cmd' = [cmd EXCEPT ![c] = r]
  BY <1>1, <1>2
<1> HIDE DEF r
<1>6. cmd'[c] = r
  BY <1>1, <1>5
<1>7. cmd' \in [Commands -> Command0]
  BY <1>1, <1>3, <1>5
<1> QED BY <1>4, <1>6, <1>7

\* What a command knows after it has spawned a child.
LEMMA SpawnsIs ==
    ASSUME LifeTypeOK, NEW c \in Commands, NEW p \in Procs, NEW pc \in Steps,
           Move(p, "booting"), cmd' = [cmd EXCEPT ![c].pc = pc, ![c].child = p]
    PROVE  /\ cmd' \in [Commands -> Command0] /\ proc' \in [Procs -> Phases]
           /\ cmd'[c].pc = pc /\ cmd'[c].prev = cmd[c].prev /\ cmd'[c].met = cmd[c].met
           /\ proc'[p] = "booting" /\ \A q \in Procs \ {p} : proc'[q] = proc[q]
<1>1. /\ cmd[c] \in Command0 /\ cmd \in [Commands -> Command0]
      /\ proc \in [Procs -> Phases]
  BY DEF LifeTypeOK, Command0
<1> DEFINE r == [[cmd[c] EXCEPT !.pc = pc] EXCEPT !.child = p]
<1>2. r \in Command0
  BY <1>1 DEF Command0
<1>3. r.pc = pc /\ r.prev = cmd[c].prev /\ r.met = cmd[c].met
  BY <1>1 DEF Command0
<1>4. cmd' = [cmd EXCEPT ![c] = r]
  BY <1>1
<1> HIDE DEF r
<1>5. cmd' \in [Commands -> Command0] /\ cmd'[c] = r
  BY <1>1, <1>2, <1>4
<1>6. /\ proc' \in [Procs -> Phases] /\ proc'[p] = "booting"
      /\ \A q \in Procs \ {p} : proc'[q] = proc[q]
  BY <1>1 DEF Move, Phases
<1> QED BY <1>3, <1>5, <1>6

\* Every step keeps the types.
LEMMA LifeTyped == ASSUME LifeTypeOK, [LifeNext]_lifeVars PROVE LifeTypeOK'
<1>0. /\ cmd \in [Commands -> Command0] /\ proc \in [Procs -> Phases]
      /\ \A p \in Procs, ph \in Phases : [proc EXCEPT ![p] = ph] \in [Procs -> Phases]
  BY DEF LifeTypeOK, Command0
<1>a. Fault => faults' \in 0..MaxFaults
  BY ServeAssumption DEF Fault, LifeTypeOK, ServeAssumption
<1>1. CASE Start
  BY <1>0, <1>1 DEF LifeTypeOK, Start, Fresh, Move, Phases
<1>2. ASSUME NEW p \in Procs, Process(p) PROVE LifeTypeOK'
  <2>1. CASE BindProxy(p)
    BY <1>0, <2>1 DEF LifeTypeOK, BindProxy, Move, Phases
  <2>2. CASE BindDash(p)
    BY <1>0, <2>2 DEF LifeTypeOK, BindDash, Move, Phases
  <2>3. CASE WriteRecord(p)
    BY <1>0, <1>a, <2>3 DEF LifeTypeOK, WriteRecord, Move, Phases
  <2>4. CASE Heed(p)
    BY <1>0, <2>4 DEF LifeTypeOK, Heed, Move, Phases
  <2>5. CASE Drain(p)
    BY <2>5 DEF LifeTypeOK, Drain
  <2>6. CASE CloseProxy(p)
    BY <1>0, <2>6 DEF LifeTypeOK, CloseProxy, Move, Phases
  <2>7. CASE CloseDash(p)
    BY <1>0, <2>7 DEF LifeTypeOK, CloseDash, Move, Phases
  <2>8. CASE ReadOwn(p)
    BY <1>0, <2>8 DEF LifeTypeOK, ReadOwn, Move, Phases
  <2>9. CASE RemoveRecord(p)
    BY <1>0, <2>9 DEF LifeTypeOK, RemoveRecord, Move, Phases
  <2> QED BY <1>2, <2>1, <2>2, <2>3, <2>4, <2>5, <2>6, <2>7, <2>8, <2>9 DEF Process
<1>3. ASSUME NEW p \in Procs, Interrupt(p) \/ Browse(p) PROVE LifeTypeOK'
  BY <1>3 DEF LifeTypeOK, Interrupt, Browse
<1>4. ASSUME NEW p \in Procs, Kill(p) PROVE LifeTypeOK'
  BY <1>0, <1>a, <1>4 DEF LifeTypeOK, Kill, Move, Phases
<1>5. ASSUME NEW c \in Commands, Command(c) PROVE LifeTypeOK'
  <2>0. ASSUME cmd' \in [Commands -> Command0], proc' \in [Procs -> Phases],
               cancelled' \in [Procs -> BOOLEAN], faults' \in 0..MaxFaults,
               UNCHANGED <<flushed, owns, streams, record>>
        PROVE LifeTypeOK'
    BY <2>0 DEF LifeTypeOK, Command0
  <2>00. proc \in [Procs -> Phases] /\ cancelled \in [Procs -> BOOLEAN] /\ faults \in 0..MaxFaults
    BY DEF LifeTypeOK
  <2>1. CASE ReadPrev(c)
    BY <2>0, <2>00, <2>1, ReadPrevIs DEF ReadPrev
  <2>2. CASE Health(c)
    <3>1. CASE ~ DashHeld /\ Go(c, "spawn")
      BY <2>0, <2>00, <2>2, <3>1, GoIs DEF Health, Steps
    <3>2. CASE \E p \in Procs :
            cmd' = [cmd EXCEPT ![c].pc = "asked", ![c].was = TRUE,
                               ![c].met = p, ![c].alone = Alone(p)]
      BY <2>0, <2>00, <2>2, <3>2, MeetsIs DEF Health
    <3> QED BY <2>2, <3>1, <3>2 DEF Health
  <2>3. CASE Ask(c)
    <3>1. cancelled' \in [Procs -> BOOLEAN]
      BY <2>00, <2>3 DEF Ask
    <3> QED BY <2>0, <2>00, <2>3, <3>1, GoIs DEF Ask, Steps
  <2>4. CASE DialDash(c)
    BY <2>0, <2>00, <2>4, GoIs DEF DialDash, Steps
  <2>5. CASE DialProxy(c)
    BY <2>0, <2>00, <2>5, GoIs DEF DialProxy, Steps
  <2>6. CASE AwaitRecord(c)
    BY <2>0, <2>00, <2>6, GoIs DEF AwaitRecord, Steps
  <2>7. CASE GiveUp(c)
    BY <2>0, <2>00, <2>7, <1>a, GoIs DEF GiveUp, Steps
  <2>8. CASE Spawn(c)
    <3>1. PICK p \in Procs : /\ Move(p, "booting")
                           /\ cmd' = [cmd EXCEPT ![c].pc = "awaiting", ![c].child = p]
      BY <2>8 DEF Spawn, Fresh
    <3> QED BY <2>0, <2>00, <2>8, <3>1, SpawnsIs DEF Spawn, Steps
  <2>9. CASE Healthy(c)
    BY <2>0, <2>00, <2>9, GoIs DEF Healthy, Steps
  <2>10. CASE Unhealthy(c)
    <3>1. proc' \in [Procs -> Phases]
      BY <1>0, <2>10 DEF Unhealthy, Phases
    <3> QED BY <2>0, <2>00, <2>10, <1>a, <3>1, GoIs DEF Unhealthy, Steps
  <2>11. CASE Rollback(c)
    <3>1. PICK p \in Procs : /\ Move(p, "booting")
                           /\ cmd' = [cmd EXCEPT ![c].pc = "failed", ![c].child = p]
      BY <2>11 DEF Rollback, Fresh
    <3> QED BY <2>0, <2>00, <2>11, <3>1, SpawnsIs DEF Rollback, Steps
  <2> QED BY <1>5, <2>1, <2>2, <2>3, <2>4, <2>5, <2>6, <2>7, <2>8, <2>9, <2>10, <2>11
          DEF Command
<1>6. CASE UNCHANGED lifeVars
  BY <1>6 DEF LifeTypeOK, lifeVars
<1> QED BY <1>1, <1>2, <1>3, <1>4, <1>5, <1>6 DEF LifeNext

\* With one patient command, every step keeps the invariant.
LEMMA LifeKept ==
    ASSUME ~Impatient, \A c, d \in Commands : c = d, LifeInv, [LifeNext]_lifeVars
    PROVE  LifeInv'
<1>0. /\ LifeTypeOK /\ LifeTypeOK' /\ cmd \in [Commands -> Command0]
      /\ proc \in [Procs -> Phases] /\ flushed \in [Procs -> BOOLEAN]
      /\ record \in Procs \cup {None}
  BY LifeTyped DEF LifeInv, LifeTypeOK, Command0
<1>1. CASE Start
  <2>1. PICK p \in Fresh : Alive = {} /\ Move(p, "booting")
    BY <1>1 DEF Start
  <2>2. UNCHANGED <<flushed, record, cmd>> /\ p \in Procs /\ proc[p] = "none"
    BY <1>1 DEF Start, Fresh
  <2>3. /\ \A q \in Procs \ {p} : proc'[q] = proc[q]
        /\ proc'[p] = "booting"
    BY <1>0, <2>1, <2>2 DEF Move
  <2>4. Alive' \subseteq {p}
    BY <2>1, <2>3 DEF Alive
  <2>5. OneProcess'
    BY <2>4 DEF OneProcess
  <2>6. \A q \in Procs : Drained(q) => Drained(q)'
    BY <2>2, <2>3 DEF Drained
  <2>7. /\ cmd' = cmd /\ record' = record /\ flushed' = flushed
        /\ \A c \in Commands : cmd[c].prev \in Procs \cup {None}
    BY <1>0, <2>2 DEF Command0
  <2>8. Recorded' /\ RemovesDrained'
    BY <1>0, <2>2, <2>3 DEF LifeInv, Recorded, RemovesDrained
  <2>9. Watches' /\ Unmet' /\ NoChild' /\ Passed'
    BY <2>6, <2>7 DEF LifeInv, Watches, Unmet, NoChild, Passed
  <2> QED BY <1>0, <2>5, <2>8, <2>9 DEF LifeInv
<1>2. ASSUME NEW p \in Procs, Process(p) PROVE LifeInv'
  <2>0. ASSUME NEW phase \in Phases, Move(p, phase)
        PROVE proc'[p] = phase /\ \A q \in Procs \ {p} : proc'[q] = proc[q]
    BY <1>0, <2>0 DEF Move
  <2>1. CASE BindProxy(p)
    BY <1>0, <2>0, <2>1, ProcessKeeps DEF BindProxy, Phases, Dead, LifeInv, RemovesDrained
  <2>2. CASE BindDash(p)
    BY <1>0, <2>0, <2>2, ProcessKeeps DEF BindDash, Phases, Dead, LifeInv, RemovesDrained
  <2>3. CASE WriteRecord(p)
    <3>1. p \in Alive
      BY <2>3 DEF WriteRecord, Alive, Dead
    <3>2. record' = record \/ record' = p
      BY <2>3 DEF WriteRecord
    <3>3. p # None
      BY ProcsAreNot0
    <3> QED BY <1>0, <2>0, <2>3, <3>1, <3>2, <3>3, ProcessKeeps
            DEF WriteRecord, Phases, Dead, LifeInv, RemovesDrained
  <2>4. CASE Heed(p)
    BY <1>0, <2>0, <2>4, ProcessKeeps DEF Heed, Phases, Dead, LifeInv, RemovesDrained
  <2>5. CASE Drain(p)
    <3>1. \A q \in Procs : flushed[q] => flushed'[q]
      BY <1>0, <2>5 DEF Drain
    <3> QED BY <1>0, <2>5, <3>1, ProcessKeeps DEF Drain, LifeInv, RemovesDrained
  <2>6. CASE CloseProxy(p)
    BY <1>0, <2>0, <2>6, ProcessKeeps DEF CloseProxy, Phases, Dead, LifeInv, RemovesDrained
  <2>7. CASE CloseDash(p)
    BY <1>0, <2>0, <2>7, ProcessKeeps DEF CloseDash, Phases, Dead, LifeInv, RemovesDrained
  <2>8. CASE ReadOwn(p)
    BY <1>0, <2>0, <2>8, ProcessKeeps DEF ReadOwn, Phases, Dead, LifeInv, RemovesDrained
  <2>9. CASE RemoveRecord(p)
    <3>1. p \in Alive /\ flushed[p] /\ record' = None
      BY <2>9 DEF RemoveRecord, Alive, Dead, LifeInv, RemovesDrained
    <3> QED BY <1>0, <2>0, <2>9, <3>1, ProcessKeeps
            DEF RemoveRecord, Phases, Dead, LifeInv, RemovesDrained
  <2> QED BY <1>2, <2>1, <2>2, <2>3, <2>4, <2>5, <2>6, <2>7, <2>8, <2>9 DEF Process
<1>3. ASSUME NEW p \in Procs, Interrupt(p) \/ Browse(p) PROVE LifeInv'
  BY <1>0, <1>3, ProcessKeeps DEF Interrupt, Browse, LifeInv, RemovesDrained
<1>4. ASSUME NEW p \in Procs, Kill(p) PROVE LifeInv'
  <2>1. /\ proc'[p] = "exited" /\ \A q \in Procs \ {p} : proc'[q] = proc[q]
        /\ proc[p] \notin Dead /\ UNCHANGED <<flushed, record, cmd>>
    BY <1>0, <1>4 DEF Kill, Move, Alive
  <2> QED BY <1>0, <2>1, ProcessKeeps DEF Dead, LifeInv, RemovesDrained
<1>5. ASSUME NEW c \in Commands, Command(c) PROVE LifeInv'
  <2>0. /\ cmd[c] \in Command0
        /\ cmd[c].pc \in Waiting /\ cmd[c].prev # None
              => record = cmd[c].prev \/ Drained(cmd[c].prev)
        /\ cmd[c].pc \in {"idle", "read"} => cmd[c].met = None
        /\ cmd[c].pc \in BeforeSpawn => cmd[c].child = None
        /\ (cmd[c].pc \in {"spawn", "awaiting", "rollback"} \/ cmd[c].child # None)
              => cmd[c].met = None \/ cmd[c].prev = None \/ Drained(cmd[c].prev)
    BY <1>0 DEF LifeInv, Watches, Unmet, NoChild, Passed
  <2>a. ASSUME NEW pc \in Steps, Go(c, pc), UNCHANGED <<proc, flushed, record>>,
               pc \in Waiting => cmd[c].pc \in Waiting \ {"read"},
               pc = "spawn" => /\ cmd[c].pc \in Waiting
                               /\ \/ cmd[c].met = None \/ cmd[c].prev = None
                                  \/ Drained(cmd[c].prev),
               pc \in {"awaiting", "rollback"} => cmd[c].pc = "awaiting",
               pc \notin {"idle", "read"}
        PROVE LifeInv'
    <3>1. /\ cmd'[c].pc = pc /\ cmd'[c].prev = cmd[c].prev
          /\ cmd'[c].met = cmd[c].met /\ cmd'[c].child = cmd[c].child
      BY <1>0, <2>a, GoIs
    <3> QED BY <1>0, <2>0, <2>a, <3>1, CommandKeeps DEF Waiting, BeforeSpawn
  <2>1. CASE ReadPrev(c)
    <3>1. /\ cmd'[c].pc = "read" /\ cmd'[c].prev = record /\ cmd'[c].met = cmd[c].met
          /\ cmd'[c].child = cmd[c].child
      BY <1>0, <2>1, ReadPrevIs
    <3>2. cmd[c].pc = "idle" /\ UNCHANGED <<proc, flushed, record>>
      BY <2>1 DEF ReadPrev, At
    <3> QED BY <1>0, <2>0, <3>1, <3>2, CommandKeeps DEF Waiting, BeforeSpawn
  <2>2. CASE Health(c)
    <3>1. CASE ~ DashHeld /\ Go(c, "spawn")
      BY <2>0, <2>a, <2>2, <3>1 DEF Health, Steps, At, Waiting
    <3>2. CASE \E p \in Procs :
            cmd' = [cmd EXCEPT ![c].pc = "asked", ![c].was = TRUE,
                               ![c].met = p, ![c].alone = Alone(p)]
      <4>1. cmd'[c].pc = "asked" /\ cmd'[c].prev = cmd[c].prev /\ cmd'[c].child = cmd[c].child
        BY <1>0, <3>2, MeetsIs
      <4>2. cmd[c].pc = "read" /\ UNCHANGED <<proc, flushed, record>>
        BY <2>2 DEF Health, At
      <4> QED BY <1>0, <2>0, <4>1, <4>2, CommandKeeps DEF Waiting, BeforeSpawn
    <3> QED BY <2>2, <3>1, <3>2 DEF Health
  <2>3. CASE Ask(c)
    BY <2>a, <2>3 DEF Ask, At, Steps, Waiting
  <2>4. CASE DialDash(c)
    BY <2>a, <2>4 DEF DialDash, At, Steps, Waiting
  <2>5. CASE DialProxy(c)
    BY <2>a, <2>5 DEF DialProxy, At, Steps, Waiting
  <2>6. CASE AwaitRecord(c)
    BY <2>0, <2>a, <2>6 DEF AwaitRecord, At, Steps, Waiting
  <2>7. CASE GiveUp(c)
    BY <2>a, <2>7 DEF GiveUp, Steps, Waiting
  <2>8. CASE Spawn(c)
    <3>1. PICK p \in Procs : /\ Move(p, "booting") /\ proc[p] = "none"
                           /\ cmd' = [cmd EXCEPT ![c].pc = "awaiting", ![c].child = p]
      BY <2>8 DEF Spawn, Fresh
    <3>2. cmd[c].pc = "spawn" /\ UNCHANGED <<flushed, record>>
      BY <2>8 DEF Spawn, At
    <3>3. /\ cmd'[c].pc = "awaiting" /\ cmd'[c].prev = cmd[c].prev /\ cmd'[c].met = cmd[c].met
          /\ proc'[p] = "booting" /\ \A q \in Procs \ {p} : proc'[q] = proc[q]
      BY <1>0, <3>1, SpawnsIs DEF Steps
    <3> QED BY <1>0, <2>0, <3>1, <3>2, <3>3, CommandKeeps DEF Waiting, BeforeSpawn
  <2>9. CASE Healthy(c)
    BY <2>a, <2>9 DEF Healthy, At, Steps, Waiting
  <2>10. CASE Unhealthy(c)
    <3>1. PICK pc \in {"rollback", "failed"} : Go(c, pc)
      BY <2>10 DEF Unhealthy
    <3>2. /\ cmd'[c].pc = pc /\ cmd'[c].prev = cmd[c].prev
          /\ cmd'[c].met = cmd[c].met /\ cmd'[c].child = cmd[c].child
      BY <1>0, <3>1, GoIs DEF Steps
    <3>3. /\ cmd[c].pc = "awaiting" /\ UNCHANGED <<flushed, record>>
          /\ \A q \in Procs : proc'[q] = proc[q] \/ proc'[q] = "exited"
      BY <1>0, <2>10 DEF Unhealthy, At
    <3> QED BY <1>0, <2>0, <3>1, <3>2, <3>3, CommandKeeps DEF Waiting, BeforeSpawn
  <2>11. CASE Rollback(c)
    <3>1. PICK p \in Procs : /\ Move(p, "booting") /\ proc[p] = "none"
                           /\ cmd' = [cmd EXCEPT ![c].pc = "failed", ![c].child = p]
      BY <2>11 DEF Rollback, Fresh
    <3>2. cmd[c].pc = "rollback" /\ UNCHANGED <<flushed, record>>
      BY <2>11 DEF Rollback, At
    <3>3. /\ cmd'[c].pc = "failed" /\ cmd'[c].prev = cmd[c].prev /\ cmd'[c].met = cmd[c].met
          /\ proc'[p] = "booting" /\ \A q \in Procs \ {p} : proc'[q] = proc[q]
      BY <1>0, <3>1, SpawnsIs DEF Steps
    <3> QED BY <1>0, <2>0, <3>1, <3>2, <3>3, CommandKeeps DEF Waiting, BeforeSpawn
  <2> QED BY <1>5, <2>1, <2>2, <2>3, <2>4, <2>5, <2>6, <2>7, <2>8, <2>9, <2>10, <2>11
          DEF Command
<1>6. CASE UNCHANGED lifeVars
  BY <1>0, <1>6, ProcessKeeps DEF lifeVars, LifeInv, RemovesDrained
<1> QED BY <1>1, <1>2, <1>3, <1>4, <1>5, <1>6 DEF LifeNext

\* The child of a restart that read the record of the one process that lived
\* starts only once that process has drained its consumer or is dead
\* (restart.go: waitClosed and the wait for the record): for every number of
\* processes, kills and faults, when the user starts no serve beside a running
\* one and there is one restart.
THEOREM ChildWaitsForDrain ==
    ASSUME ~Impatient, \A c, d \in Commands : c = d
    PROVE  LifeSpec => []DrainBeforeSpawn
<1>1. LifeInit => LifeInv
  BY LifeStarts
<1>2. LifeInv /\ [LifeNext]_lifeVars => LifeInv'
  BY LifeKept
<1>3. LifeInv => DrainBeforeSpawn
  BY DEF LifeInv, Passed, DrainBeforeSpawn, Drained
<1> QED BY <1>1, <1>2, <1>3, PTL DEF LifeSpec

-----------------------------------------------------------------------------
(* Reloads.  Whatever a request finds in the file, what it puts in force   *)
(* keeps the flags serve was started with and is a valid configuration.    *)

Counts == [Live -> DayCounts]
Request == [pc : {"idle", "locked", "half", "loaded", "told"},
            next : Counts, accts : Lists \cup {"none"}]

\* A configuration that keeps the flags serve was started with.
KeepsFlags(c) == \A k \in Live : flags[k] # Unset => c[k] = flags[k]

\* A request has what its reload has resolved, and one request runs at a time.
Typed ==
    /\ conf \in Layers /\ env \in Layers /\ flags \in Layers
    /\ live \in Counts /\ listed \in Lists \cup {"broken"}
    /\ reload \in [Reloads -> Request]

OneAtATime ==
    \A r, s \in Reloads : reload[r].pc # "idle" /\ reload[s].pc # "idle" => r = s

InHand ==
    \A r \in Reloads :
        /\ reload[r].pc \in {"half", "loaded", "told"} => KeepsFlags(reload[r].next)
        /\ reload[r].pc \in {"loaded", "told"} => Valid(reload[r].next)
        /\ reload[r].pc = "told" => consumer = reload[r].accts

SettingsInv == Typed /\ OneAtATime /\ InHand /\ SettingsHold

-----------------------------------------------------------------------------
\* Whatever the file says, the result is a configuration and keeps the flags.
LEMMA ResolvedKeeps ==
    ASSUME env \in Layers, flags \in Layers, NEW file \in Layers
    PROVE  Resolved(file) \in Counts /\ KeepsFlags(Resolved(file))
  BY SettingsAssumption DEF Resolved, KeepsFlags, Counts, Layers, Live

\* A request that is over leaves nothing in hand.
LEMMA LeftIdle ==
    ASSUME Typed, OneAtATime, InHand, NEW r \in Reloads,
           reload' = [reload EXCEPT ![r] = Idle0],
           live' \in Counts, UNCHANGED <<conf, env, flags, listed, consumer>>
    PROVE  Typed' /\ OneAtATime' /\ InHand'
<1>1. Idle0 \in Request /\ Idle0.pc = "idle"
  BY SettingsAssumption DEF Idle0, Request, Counts
<1>2. Typed'
  BY <1>1 DEF Typed
<1>3. OneAtATime'
  BY <1>1 DEF Typed, OneAtATime
<1>4. InHand'
  BY <1>1 DEF Typed, InHand, KeepsFlags
<1> QED
  BY <1>2, <1>3, <1>4

\* The first settings are as the invariant says.
LEMMA InitHolds == SettingsInit => SettingsInv
<1> SUFFICES ASSUME SettingsInit PROVE SettingsInv
    OBVIOUS
<1>1. Typed
  <2>1. conf \in Layers /\ env \in Layers /\ flags \in Layers
    BY SettingsAssumption DEF SettingsInit
  <2>2. live \in Counts
    BY <2>1, ResolvedKeeps DEF SettingsInit
  <2>3. Idle0 \in Request
    BY SettingsAssumption DEF Idle0, Request, Counts
  <2> QED
    BY <2>1, <2>2, <2>3 DEF Typed, SettingsInit
<1>2. \A r \in Reloads : reload[r].pc = "idle"
  BY DEF SettingsInit, Idle0
<1>3. KeepsFlags(live)
  BY <1>1, ResolvedKeeps DEF SettingsInit, Typed
<1> QED
  BY <1>1, <1>2, <1>3 DEF SettingsInv, OneAtATime, InHand, SettingsHold, KeepsFlags, SettingsInit

\* Every edit and reload keeps the settings' invariant.
LEMMA StepKeeps == SettingsInv /\ [SettingsNext]_settingsVars => SettingsInv'
<1> SUFFICES ASSUME SettingsInv, [SettingsNext]_settingsVars PROVE SettingsInv'
    OBVIOUS
<1> USE DEF SettingsInv
<1>1. CASE Edit
  <2>1. Typed'
    BY <1>1 DEF Edit, Typed
  <2> QED
    BY <1>1, <2>1 DEF Edit, OneAtATime, InHand, KeepsFlags, SettingsHold
<1>2. ASSUME NEW r \in Reloads, Enter(r) PROVE SettingsInv'
  <2>1. Typed'
    BY <1>2 DEF Enter, Typed, Request
  <2>2. OneAtATime' /\ InHand'
    BY <1>2 DEF Enter, OneAtATime, InHand, KeepsFlags, Typed
  <2>3. \A s \in Reloads : reload[s].pc = "told" <=> reload'[s].pc = "told"
    BY <1>2 DEF Enter, Typed
  <2> QED
    BY <1>2, <2>1, <2>2, <2>3 DEF Enter, SettingsHold
<1>3. ASSUME NEW r \in Reloads, LoadConf(r) PROVE SettingsInv'
  <2>1. Resolved(conf) \in Counts /\ KeepsFlags(Resolved(conf))
    BY ResolvedKeeps DEF Typed
  <2>2. Typed'
    BY <1>3, <2>1 DEF LoadConf, Typed, Request
  <2>3. OneAtATime'
    BY <1>3 DEF LoadConf, OneAtATime, Typed
  <2>4. InHand'
    BY <1>3, <2>1 DEF LoadConf, InHand, KeepsFlags, Typed
  <2>5. \A s \in Reloads : reload[s].pc = "told" <=> reload'[s].pc = "told"
    BY <1>3 DEF LoadConf, Typed
  <2> QED
    BY <1>3, <2>2, <2>3, <2>4, <2>5 DEF LoadConf, SettingsHold
<1>4. ASSUME NEW r \in Reloads, LoadAccounts(r) PROVE SettingsInv'
  <2>1. CASE listed # "broken" /\ Valid(reload[r].next)
    <3>1. reload' = [reload EXCEPT ![r] = [@ EXCEPT !.pc = "loaded", !.accts = listed]]
      BY <1>4, <2>1 DEF LoadAccounts
    <3>2. Typed'
      BY <1>4, <2>1, <3>1, ZenonT(40) DEF LoadAccounts, Typed, Request
    <3>3. OneAtATime'
      BY <1>4, <3>1 DEF LoadAccounts, OneAtATime, Typed
    <3>4. InHand'
      BY <1>4, <2>1, <3>1 DEF LoadAccounts, InHand, KeepsFlags, Typed, Valid, Request
    <3> QED
      BY <1>4, <3>1, <3>2, <3>3, <3>4 DEF LoadAccounts, SettingsHold, Typed
  <2>2. CASE ~ (listed # "broken" /\ Valid(reload[r].next))
    <3>1. reload' = [reload EXCEPT ![r] = Idle0]
      BY <1>4, <2>2 DEF LoadAccounts
    <3> QED
      BY <1>4, <3>1, LeftIdle DEF LoadAccounts, SettingsHold, Typed
  <2> QED
    BY <2>1, <2>2
<1>5. ASSUME NEW r \in Reloads, Tell(r) PROVE SettingsInv'
  <2>1. Typed' /\ OneAtATime' /\ InHand'
    BY <1>5 DEF Tell, Typed, Request, OneAtATime, InHand, KeepsFlags, Valid
  <2>2. reload'[r].pc = "told"
    BY <1>5 DEF Tell, Typed
  <2> QED
    BY <1>5, <2>1, <2>2 DEF Tell, SettingsHold
<1>6. ASSUME NEW r \in Reloads, Apply(r) PROVE SettingsInv'
  <2>1. reload[r].next \in Counts /\ KeepsFlags(reload[r].next) /\ Valid(reload[r].next)
    BY <1>6 DEF Apply, Typed, Request, InHand
  <2>2. Typed' /\ OneAtATime' /\ InHand'
    BY <1>6, <2>1, LeftIdle DEF Apply
  <2>3. applied' = consumer'
    BY <1>6 DEF Apply, InHand
  <2> QED
    BY <1>6, <2>1, <2>2, <2>3 DEF Apply, SettingsHold, Valid, KeepsFlags
<1>7. CASE UNCHANGED settingsVars
  BY <1>7 DEF settingsVars, Typed, OneAtATime, InHand, KeepsFlags, SettingsHold
<1> QED
  BY <1>1, <1>2, <1>3, <1>4, <1>5, <1>6, <1>7 DEF SettingsNext

-----------------------------------------------------------------------------
(* What is in force is valid and keeps the flags serve was started with, and *)
(* the consumer attributes calls with the accounts the dashboard shows, at   *)
(* every reload and under every edit of the two files.                       *)
THEOREM SettingsAlwaysHold == SettingsSpec => []SettingsHold
<1>1. SettingsSpec => []SettingsInv
  BY InitHolds, StepKeeps, PTL DEF SettingsSpec
<1>2. SettingsInv => SettingsHold
  BY DEF SettingsInv
<1> QED
  BY <1>1, <1>2, PTL

-----------------------------------------------------------------------------
(* The live feed.  What an open stream has received and holds is the log   *)
(* from where it joined, and a dropped one has a prefix of that and is     *)
(* told once.  The invariant says so position by position, for one stream. *)

Published == [type : {"event", "warnings"}, id : Nat]
StreamRecord == [pc : {"none", "open", "gone"}, in : BOOLEAN, from : Nat,
                 buf : Seq(Published), got : Seq(Published)]

\* What holds of a stream's fields, of the log and of how often its channel
\* was closed.
Follows(pc, in, from, got, buf, L, c) ==
    /\ pc = "none" => ~in /\ Len(got) = 0 /\ Len(buf) = 0 /\ c = 0
    /\ pc = "gone" => ~in
    /\ pc # "none" => c = IF in THEN 0 ELSE 1
    /\ from + Len(got) + Len(buf) <= Len(L)
    /\ in => from + Len(got) + Len(buf) = Len(L)
    /\ \A i \in 1..Len(got) : got[i] = L[from + i]
    /\ \A i \in 1..Len(buf) : buf[i] = L[from + Len(got) + i]

Follower(r, L, c) == Follows(r.pc, r.in, r.from, r.got, r.buf, L, c)

NoGap(in, from, got, buf, L, c) ==
    /\ IsPrefix(got \o buf, SubSeq(L, from + 1, Len(L)))
    /\ in => got \o buf = SubSeq(L, from + 1, Len(L))
    /\ c = IF in THEN 0 ELSE 1

FeedTyped ==
    /\ writing \in [Writers -> Seq(Published)]
    /\ log \in Seq(Published)
    /\ sub \in [Streams -> StreamRecord]
    /\ closes \in [Streams -> Nat]

FeedInv ==
    /\ FeedTyped
    /\ \A s \in Streams : Follower(sub[s], log, closes[s])

-----------------------------------------------------------------------------
(* One stream. *)

(* What the log held stays where it was when an event is appended.         *)
LEMMA LogGrows ==
    ASSUME NEW from \in Nat, NEW got \in Seq(Published), NEW buf \in Seq(Published),
           NEW L \in Seq(Published), NEW e \in Published,
           from + Len(got) + Len(buf) <= Len(L),
           \A i \in 1..Len(got) : got[i] = L[from + i],
           \A i \in 1..Len(buf) : buf[i] = L[from + Len(got) + i]
    PROVE  /\ Len(Append(L, e)) = Len(L) + 1 /\ Append(L, e)[Len(L) + 1] = e
           /\ from + Len(got) + Len(buf) <= Len(Append(L, e))
           /\ \A i \in 1..Len(got) : got[i] = Append(L, e)[from + i]
           /\ \A i \in 1..Len(buf) : buf[i] = Append(L, e)[from + Len(got) + i]
  <1>1. Len(buf) \in Nat /\ Len(got) \in Nat /\ Len(L) \in Nat
    OBVIOUS
  <1>2. /\ Len(Append(L, e)) = Len(L) + 1 /\ Append(L, e)[Len(L) + 1] = e
        /\ \A i \in 1..Len(L) : Append(L, e)[i] = L[i]
    OBVIOUS
  <1>3. \A i \in 1..Len(got) : from + i \in 1..Len(L)
    BY <1>1
  <1>4. \A i \in 1..Len(buf) : from + Len(got) + i \in 1..Len(L)
    BY <1>1
  <1> QED BY <1>1, <1>2, <1>3, <1>4

(* An event published: to a stream that is not in the map, to one with     *)
(* room, and to one that is dropped.                                       *)
LEMMA FollowsPublish ==
    ASSUME NEW pc \in {"none", "open", "gone"}, NEW in \in BOOLEAN, NEW from \in Nat,
           NEW got \in Seq(Published), NEW buf \in Seq(Published),
           NEW L \in Seq(Published), NEW c \in Nat, NEW e \in Published,
           Follows(pc, in, from, got, buf, L, c)
    PROVE  /\ ~in => Follows(pc, in, from, got, buf, Append(L, e), c)
           /\ in => Follows(pc, in, from, got, Append(buf, e), Append(L, e), c)
           /\ in => Follows(pc, FALSE, from, got, buf, Append(L, e), c + 1)
  <1>1. Len(buf) \in Nat /\ Len(got) \in Nat /\ Len(L) \in Nat
    OBVIOUS
  <1>2. /\ from + Len(got) + Len(buf) <= Len(L)
        /\ \A i \in 1..Len(got) : got[i] = L[from + i]
        /\ \A i \in 1..Len(buf) : buf[i] = L[from + Len(got) + i]
    BY DEF Follows
  <1>3. PICK L2 : L2 = Append(L, e)
    OBVIOUS
  <1>4. /\ Len(L2) = Len(L) + 1 /\ L2[Len(L) + 1] = e
        /\ from + Len(got) + Len(buf) <= Len(L2)
        /\ \A i \in 1..Len(got) : got[i] = L2[from + i]
        /\ \A i \in 1..Len(buf) : buf[i] = L2[from + Len(got) + i]
    BY <1>2, <1>3, LogGrows
  <1>5. ~in => Follows(pc, in, from, got, buf, L2, c)
    BY <1>4 DEF Follows
  <1>6. ASSUME in PROVE pc = "open" /\ c = 0 /\ from + Len(got) + Len(buf) = Len(L)
    BY <1>6 DEF Follows
  <1>7. ASSUME in PROVE Follows(pc, FALSE, from, got, buf, L2, c + 1)
    BY <1>4, <1>6, <1>7 DEF Follows
  <1>8. ASSUME in PROVE Follows(pc, in, from, got, Append(buf, e), L2, c)
    <2>1. PICK b : b = Append(buf, e)
      OBVIOUS
    <2>2. /\ Len(b) = Len(buf) + 1 /\ b[Len(buf) + 1] = e
          /\ \A i \in 1..Len(buf) : b[i] = buf[i]
      BY <2>1
    <2>3. from + Len(got) + Len(b) = Len(L2) /\ from + Len(got) + (Len(buf) + 1) = Len(L) + 1
      <3>1. from + Len(got) + Len(buf) = Len(L)
        BY <1>6, <1>8
      <3>2. Len(b) = Len(buf) + 1 /\ Len(L2) = Len(L) + 1
        BY <1>4, <2>2
      <3>3. \A f, g, k, l \in Int : f + g + k = l => f + g + (k + 1) = l + 1
        OBVIOUS
      <3>4. from + Len(got) + (Len(buf) + 1) = Len(L) + 1
        BY <1>1, <3>1, <3>3
      <3> QED BY <3>2, <3>4
    <2>4. \A i \in 1..Len(b) : b[i] = L2[from + Len(got) + i]
      <3>1. \A i \in 1..Len(b) : i \in 1..Len(buf) \/ i = Len(buf) + 1
        BY <1>1, <2>2
      <3> QED BY <1>4, <2>2, <2>3, <3>1
    <2>5. from + Len(got) + Len(b) <= Len(L2)
      BY <1>1, <1>4, <2>3
    <2>6. Follows(pc, in, from, got, b, L2, c)
      BY <1>4, <1>6, <1>8, <2>3, <2>4, <2>5 DEF Follows
    <2> QED BY <2>1, <2>6
  <1> QED BY <1>3, <1>5, <1>7, <1>8

(* A stream that takes the next event of its channel.                      *)
LEMMA FollowsReceive ==
    ASSUME NEW in \in BOOLEAN, NEW from \in Nat,
           NEW got \in Seq(Published), NEW buf \in Seq(Published), buf # <<>>,
           NEW L \in Seq(Published), NEW c \in Nat,
           Follows("open", in, from, got, buf, L, c)
    PROVE  Follows("open", in, from, Append(got, Head(buf)), Tail(buf), L, c)
  <1>1. /\ Len(buf) \in Nat /\ Len(got) \in Nat /\ Len(L) \in Nat
        /\ Len(buf) >= 1
    OBVIOUS
  <1>2. /\ from + Len(got) + Len(buf) <= Len(L)
        /\ in => from + Len(got) + Len(buf) = Len(L)
        /\ \A i \in 1..Len(got) : got[i] = L[from + i]
        /\ \A i \in 1..Len(buf) : buf[i] = L[from + Len(got) + i]
        /\ c = IF in THEN 0 ELSE 1
    BY DEF Follows
  <1>3. PICK b : b = Tail(buf)
    OBVIOUS
  <1>4. /\ Len(b) = Len(buf) - 1
        /\ \A i \in 1..(Len(buf) - 1) : b[i] = buf[i + 1]
    BY <1>1, <1>3
  <1>5. PICK g : g = Append(got, Head(buf))
    OBVIOUS
  <1>6. /\ Len(g) = Len(got) + 1 /\ g[Len(got) + 1] = buf[1]
        /\ \A i \in 1..Len(got) : g[i] = got[i]
    BY <1>1, <1>5
  <1>7. \A i \in 1..Len(g) : g[i] = L[from + i]
    <2>1. \A i \in 1..Len(g) : i \in 1..Len(got) \/ i = Len(got) + 1
      BY <1>1, <1>6
    <2>2. 1 \in 1..Len(buf) /\ from + Len(got) + 1 = from + (Len(got) + 1)
      BY <1>1
    <2>3. buf[1] = L[from + (Len(got) + 1)]
      BY <1>2, <2>2
    <2> QED BY <1>2, <1>6, <2>1, <2>3
  <1>8. \A i \in 1..Len(b) : b[i] = L[from + Len(g) + i]
    <2> SUFFICES ASSUME NEW i \in 1..Len(b) PROVE b[i] = L[from + Len(g) + i]
      OBVIOUS
    <2>1. i \in 1..(Len(buf) - 1) /\ i + 1 \in 1..Len(buf)
      BY <1>1, <1>4
    <2>2. from + Len(got) + (i + 1) = from + Len(g) + i
      BY <1>1, <1>6, <2>1
    <2>3. buf[i + 1] = L[from + Len(got) + (i + 1)]
      BY <1>2, <2>1
    <2> QED BY <1>4, <2>1, <2>2, <2>3
  <1>9. from + Len(g) + Len(b) = from + Len(got) + Len(buf)
    BY <1>1, <1>4, <1>6
  <1>10. Follows("open", in, from, g, b, L, c)
    BY <1>2, <1>7, <1>8, <1>9 DEF Follows
  <1> QED BY <1>3, <1>5, <1>10

(* A stream that follows the log has no gap.                               *)
LEMMA FollowsHasNoGap ==
    ASSUME NEW pc \in {"open", "gone"}, NEW in \in BOOLEAN, NEW from \in Nat,
           NEW got \in Seq(Published), NEW buf \in Seq(Published),
           NEW L \in Seq(Published), NEW c \in Nat,
           Follows(pc, in, from, got, buf, L, c)
    PROVE  NoGap(in, from, got, buf, L, c)
  <1>1. Len(buf) \in Nat /\ Len(got) \in Nat /\ Len(L) \in Nat
    OBVIOUS
  <1>2. /\ from + Len(got) + Len(buf) <= Len(L)
        /\ in => from + Len(got) + Len(buf) = Len(L)
        /\ \A i \in 1..Len(got) : got[i] = L[from + i]
        /\ \A i \in 1..Len(buf) : buf[i] = L[from + Len(got) + i]
        /\ c = IF in THEN 0 ELSE 1
    BY DEF Follows
  <1>3. PICK has : has = got \o buf
    OBVIOUS
  <1>4. /\ has \in Seq(Published) /\ Len(has) = Len(got) + Len(buf)
        /\ \A i \in 1..(Len(got) + Len(buf)) :
              has[i] = IF i <= Len(got) THEN got[i] ELSE buf[i - Len(got)]
    BY <1>3, ConcatProperties
  <1>5. PICK owed : owed = SubSeq(L, from + 1, Len(L))
    OBVIOUS
  <1>6. /\ owed \in Seq(Published) /\ Len(owed) = Len(L) - from
        /\ \A i \in 1..(Len(L) - from) : owed[i] = L[from + i]
    <2>1. from <= Len(L) /\ from + 1 \in Int /\ Len(L) \in Int
      BY <1>1, <1>2
    <2>2. \A i \in (from + 1)..Len(L) : L[i] \in Published
      <3>1. \A i \in (from + 1)..Len(L) : i \in 1..Len(L)
        BY <1>1
      <3> QED BY <3>1, ElementOfSeq
    <2>3. /\ owed \in Seq(Published)
          /\ Len(owed) = IF from + 1 <= Len(L) THEN Len(L) - (from + 1) + 1 ELSE 0
          /\ \A i \in 1..(Len(L) - (from + 1) + 1) : owed[i] = L[(from + 1) + i - 1]
      BY <1>5, <2>1, <2>2, SubSeqProperties
    <2>4. Len(owed) = Len(L) - from /\ Len(L) - (from + 1) + 1 = Len(L) - from
      BY <1>1, <2>1, <2>3
    <2>5. \A i \in 1..(Len(L) - from) : (from + 1) + i - 1 = from + i
      BY <1>1
    <2> QED BY <2>3, <2>4, <2>5
  <1>7. Len(has) \in Nat /\ Len(owed) \in Nat /\ Len(has) <= Len(owed)
    BY <1>1, <1>2, <1>4, <1>6
  <1>8. ASSUME NEW i \in 1..Len(has) PROVE has[i] = owed[i]
    <2>1. i \in 1..(Len(L) - from) /\ i \in 1..(Len(got) + Len(buf))
      BY <1>1, <1>4, <1>6, <1>7
    <2>2. CASE i <= Len(got)
      <3>1. i \in 1..Len(got)
        BY <2>1, <2>2, <1>1
      <3> QED BY <2>1, <2>2, <3>1, <1>2, <1>4, <1>6
    <2>3. CASE ~(i <= Len(got))
      <3>1. i - Len(got) \in 1..Len(buf) /\ from + Len(got) + (i - Len(got)) = from + i
        BY <2>1, <2>3, <1>1
      <3>2. buf[i - Len(got)] = L[from + i]
        BY <3>1, <1>2
      <3> QED BY <2>1, <2>3, <3>2, <1>4, <1>6
    <2> QED BY <2>2, <2>3
  <1>9. IsPrefix(has, owed)
    <2>1. SubSeq(has, 1, Len(has)) = SubSeq(owed, 1, Len(has))
      <3>1. /\ \A i \in 1..Len(has) : has[i] \in Published
            /\ \A i \in 1..Len(has) : owed[i] \in Published
        BY <1>4, <1>8, ElementOfSeq
      <3>2. 1 \in Int /\ Len(has) \in Int /\ Len(has) - 1 + 1 = Len(has)
        BY <1>7
      <3>3. /\ SubSeq(has, 1, Len(has)) \in Seq(Published)
            /\ Len(SubSeq(has, 1, Len(has))) = Len(has)
            /\ \A i \in 1..Len(has) : SubSeq(has, 1, Len(has))[i] = has[i]
        BY <1>4, <1>7
      <3>4. /\ SubSeq(owed, 1, Len(has)) \in Seq(Published)
            /\ Len(SubSeq(owed, 1, Len(has))) = Len(has)
            /\ \A i \in 1..Len(has) : SubSeq(owed, 1, Len(has))[i] = owed[i]
        BY <1>6, <1>7
      <3> QED BY <1>8, <3>3, <3>4, SeqEqual
    <2> QED BY <2>1, <1>7 DEF IsPrefix
  <1>10. in => has = owed
    <2> SUFFICES ASSUME in PROVE has = owed
      OBVIOUS
    <2>1. Len(has) = Len(owed)
      BY <1>1, <1>2, <1>4, <1>6
    <2> QED BY <2>1, <1>4, <1>6, <1>8, SeqEqual
  <1> QED BY <1>2, <1>3, <1>5, <1>9, <1>10 DEF NoGap

-----------------------------------------------------------------------------
(* The inductive invariant. *)

\* The feed starts so.
LEMMA InitFeed == ASSUME FeedInit PROVE FeedInv
  <1>1. NoStream \in StreamRecord /\ <<>> \in Seq(Published) /\ Len(<<>>) = 0
    BY DEF NoStream, StreamRecord
  <1>2. FeedTyped
    BY <1>1 DEF FeedInit, FeedTyped
  <1>3. Follower(NoStream, <<>>, 0)
    BY DEF Follower, Follows, NoStream
  <1> QED BY <1>2, <1>3 DEF FeedInit, FeedInv

(* A step that changes at most one stream, and not the log.                *)
LEMMA OneStream ==
    ASSUME FeedInv, NEW s \in Streams, NEW r \in StreamRecord, NEW c \in Nat,
           sub' = [sub EXCEPT ![s] = r], closes' = [closes EXCEPT ![s] = c],
           log' = log, writing' = writing, Follower(r, log, c)
    PROVE  FeedInv'
  <1>1. FeedTyped'
    BY DEF FeedInv, FeedTyped
  <1>2. ASSUME NEW t \in Streams PROVE Follower(sub'[t], log', closes'[t])
    BY DEF FeedInv, FeedTyped
  <1> QED BY <1>1, <1>2 DEF FeedInv

\* Every step keeps the feed's invariant.
LEMMA StepFeed == ASSUME FeedInv, [FeedNext]_feedVars PROVE FeedInv'
  <1>0. FeedTyped /\ \A s \in Streams : sub[s] \in StreamRecord /\ closes[s] \in Nat /\ Follower(sub[s], log, closes[s])
    BY DEF FeedInv, FeedTyped
  <1>1. CASE UNCHANGED feedVars
    BY <1>1 DEF feedVars, FeedInv, FeedTyped
  <1>2. ASSUME NEW w \in Writers, CommitRow(w) PROVE FeedInv'
    <2>1. UNCHANGED <<log, sub, closes>>
      BY <1>2 DEF CommitRow
    <2>2. PICK id \in 1..MaxRows, ty \in {"event", "warnings"} :
             writing' = [writing EXCEPT ![w] = <<[type |-> ty, id |-> id]>>]
      BY <1>2 DEF CommitRow
    <2>3. <<[type |-> ty, id |-> id]>> \in Seq(Published)
      <3>1. id \in Nat
        BY FeedAssumption
      <3> QED BY <3>1 DEF Published
    <2>4. FeedTyped'
      BY <1>0, <2>1, <2>2, <2>3 DEF FeedTyped
    <2> QED BY <1>0, <2>1, <2>4 DEF FeedInv
  <1>3. ASSUME NEW w \in Writers, Publish(w) PROVE FeedInv'
    <2>1. PICK e : e = Head(writing[w])
      OBVIOUS
    <2>2. /\ writing[w] # <<>> /\ writing[w] \in Seq(Published)
          /\ log' = Append(log, e)
          /\ sub' = [s \in Streams |-> Sent(s, e)]
          /\ closes' = [s \in Streams |-> closes[s] + IF sub[s].in /\ ~ Sent(s, e).in THEN 1 ELSE 0]
          /\ writing' = [writing EXCEPT ![w] = <<>>]
      BY <1>0, <1>3, <2>1 DEF Publish, FeedTyped
    <2>3. e \in Published
      BY <2>1, <2>2
    <2>4. ASSUME NEW s \in Streams
          PROVE  /\ sub'[s] \in StreamRecord /\ closes'[s] \in Nat
                 /\ Follower(sub'[s], log', closes'[s])
      <3>1. PICK r \in StreamRecord, c \in Nat : r = sub[s] /\ c = closes[s] /\ Follower(r, log, c)
        BY <1>0
      <3>2. /\ r.pc \in {"none", "open", "gone"} /\ r.in \in BOOLEAN /\ r.from \in Nat
            /\ r.got \in Seq(Published) /\ r.buf \in Seq(Published)
        BY DEF StreamRecord
      <3>3. PICK L \in Seq(Published) : L = log
        BY <1>0 DEF FeedTyped
      <3>4. /\ ~r.in => Follows(r.pc, r.in, r.from, r.got, r.buf, Append(L, e), c)
            /\ r.in => Follows(r.pc, r.in, r.from, r.got, Append(r.buf, e), Append(L, e), c)
            /\ r.in => Follows(r.pc, FALSE, r.from, r.got, r.buf, Append(L, e), c + 1)
        BY <2>3, <3>1, <3>2, <3>3, FollowsPublish DEF Follower
      <3>5. PICK b \in Seq(Published) : b = Append(r.buf, e)
        <4>1. Append(r.buf, e) \in Seq(Published)
          BY <2>3, <3>2, AppendProperties
        <4> QED BY <4>1
      <3>6. PICK r2, c2 : /\ r2 = sub'[s] /\ c2 = closes'[s]
                          /\ r2 = Sent(s, e) /\ c2 = c + IF r.in /\ ~ r2.in THEN 1 ELSE 0
        BY <2>2, <3>1
      <3> SUFFICES r2 \in StreamRecord /\ c2 \in Nat /\ Follower(r2, Append(L, e), c2)
        BY <2>2, <3>3, <3>6
      <3>7. CASE ~r.in
        <4>1. r2 = r /\ c2 = c
          BY <3>1, <3>6, <3>7 DEF Sent
        <4> QED BY <3>4, <3>7, <4>1 DEF Follower
      <3>8. CASE r.in /\ Room(s)
        <4>1. r2 = [r EXCEPT !.buf = b]
          BY <3>1, <3>5, <3>6, <3>8 DEF Sent
        <4>2. /\ r2.pc = r.pc /\ r2.in = r.in /\ r2.from = r.from /\ r2.got = r.got
              /\ r2.buf = b /\ r2 \in StreamRecord
          BY <4>1 DEF StreamRecord
        <4>3. c2 = c
          BY <3>2, <3>6, <3>8, <4>2
        <4> QED BY <3>4, <3>5, <3>8, <4>2, <4>3 DEF Follower
      <3>9. CASE r.in /\ ~Room(s)
        <4>1. r2 = [r EXCEPT !.in = FALSE]
          BY <3>1, <3>6, <3>9 DEF Sent
        <4>2. /\ r2.pc = r.pc /\ r2.in = FALSE /\ r2.from = r.from /\ r2.got = r.got
              /\ r2.buf = r.buf /\ r2 \in StreamRecord
          BY <4>1 DEF StreamRecord
        <4>3. c2 = c + 1
          BY <3>6, <3>9, <4>2
        <4>4. Follows(r2.pc, r2.in, r2.from, r2.got, r2.buf, Append(L, e), c2)
          BY <3>4, <3>9, <4>2, <4>3
        <4>5. c2 \in Nat
          BY <4>3
        <4> QED BY <4>2, <4>4, <4>5 DEF Follower
      <3> QED BY <3>7, <3>8, <3>9
    <2>5. FeedTyped'
      <3>1. writing' \in [Writers -> Seq(Published)]
        BY <1>0, <2>2 DEF FeedTyped
      <3>2. log' \in Seq(Published)
        BY <1>0, <2>2, <2>3 DEF FeedTyped
      <3>3. sub' \in [Streams -> StreamRecord] /\ closes' \in [Streams -> Nat]
        BY <2>2, <2>4
      <3> QED BY <3>1, <3>2, <3>3 DEF FeedTyped
    <2> QED BY <2>4, <2>5 DEF FeedInv
  <1>4. ASSUME NEW s \in Streams, Subscribe(s) PROVE FeedInv'
    <2>1. PICK r : /\ r = [pc |-> "open", in |-> TRUE, from |-> Len(log), buf |-> <<>>, got |-> <<>>]
      OBVIOUS
    <2>2. /\ sub[s].pc = "none" /\ UNCHANGED <<writing, log, closes>> /\ closes[s] = 0
          /\ sub[s].buf = <<>> /\ sub[s].got = <<>>
      BY <1>0, <1>4 DEF Subscribe, Follower, Follows, StreamRecord
    <2>3. sub' = [sub EXCEPT ![s].pc = "open", ![s].in = TRUE, ![s].from = Len(log)]
      BY <1>4 DEF Subscribe
    <2>4. /\ DOMAIN sub' = Streams /\ sub' = [t \in Streams |-> sub'[t]]
          /\ \A t \in Streams : t # s => sub'[t] = sub[t]
      BY <1>0, <2>3 DEF FeedTyped
    <2>5. sub'[s] = [[[sub[s] EXCEPT !.pc = "open"] EXCEPT !.in = TRUE] EXCEPT !.from = Len(log)]
      BY <1>0, <2>3 DEF FeedTyped
    <2>6. sub'[s] = r
      BY <1>0, <2>1, <2>2, <2>5 DEF StreamRecord
    <2>7. sub' = [sub EXCEPT ![s] = r] /\ closes' = [closes EXCEPT ![s] = 0]
      BY <1>0, <2>2, <2>4, <2>6 DEF FeedTyped
    <2>8. log \in Seq(Published) /\ Len(log) \in Nat
      BY <1>0 DEF FeedTyped
    <2>9. r \in StreamRecord /\ Follower(r, log, 0) /\ 0 \in Nat
      BY <2>1, <2>8 DEF StreamRecord, Follower, Follows
    <2>10. log' = log /\ writing' = writing
      BY <2>2
    <2> QED BY <2>7, <2>9, <2>10, OneStream
  <1>5. ASSUME NEW s \in Streams, Receive(s) PROVE FeedInv'
    <2>1. PICK r \in StreamRecord, c \in Nat, L \in Seq(Published) :
             r = sub[s] /\ c = closes[s] /\ L = log /\ Follower(r, L, c)
      BY <1>0 DEF FeedTyped
    <2>2. /\ r.pc = "open" /\ r.buf # <<>> /\ UNCHANGED <<writing, log, closes>>
          /\ sub' = [sub EXCEPT ![s].got = Append(@, Head(sub[s].buf)), ![s].buf = Tail(@)]
      BY <1>5, <2>1 DEF Receive
    <2>3. r.buf \in Seq(Published) /\ r.got \in Seq(Published)
      BY DEF StreamRecord
    <2>4. PICK g, b : g = Append(r.got, Head(r.buf)) /\ b = Tail(r.buf)
      OBVIOUS
    <2>5. g \in Seq(Published) /\ b \in Seq(Published)
      BY <2>2, <2>3, <2>4
    <2>6. PICK r2 : r2 = [[r EXCEPT !.got = g] EXCEPT !.buf = b]
      OBVIOUS
    <2>7. /\ r2 \in StreamRecord /\ r2.pc = r.pc /\ r2.in = r.in /\ r2.from = r.from
          /\ r2.got = g /\ r2.buf = b
      BY <2>5, <2>6 DEF StreamRecord
    <2>8. sub' = [sub EXCEPT ![s] = r2]
      <3>1. /\ DOMAIN sub' = Streams /\ sub' = [t \in Streams |-> sub'[t]]
            /\ \A t \in Streams : t # s => sub'[t] = sub[t]
        BY <1>0, <2>2 DEF FeedTyped
      <3>2. sub'[s] = r2
        BY <1>0, <2>1, <2>2, <2>4, <2>6 DEF FeedTyped, StreamRecord
      <3> QED BY <1>0, <3>1, <3>2 DEF FeedTyped
    <2>9. Follower(r2, L, c)
      <3>1. r.in \in BOOLEAN /\ r.from \in Nat
        BY DEF StreamRecord
      <3>2. Follows("open", r.in, r.from, r.got, r.buf, L, c)
        BY <2>1, <2>2 DEF Follower
      <3>3. Follows("open", r.in, r.from, Append(r.got, Head(r.buf)), Tail(r.buf), L, c)
        BY <2>2, <2>3, <3>1, <3>2, FollowsReceive
      <3> QED BY <2>2, <2>4, <2>7, <3>3 DEF Follower
    <2>10. closes' = [closes EXCEPT ![s] = c]
      BY <1>0, <2>1, <2>2 DEF FeedTyped
    <2> QED BY <2>1, <2>2, <2>7, <2>8, <2>9, <2>10, OneStream
  <1>6. ASSUME NEW s \in Streams, Leave(s) PROVE FeedInv'
    <2>1. PICK r \in StreamRecord, c \in Nat, L \in Seq(Published) :
             r = sub[s] /\ c = closes[s] /\ L = log /\ Follower(r, L, c)
      BY <1>0 DEF FeedTyped
    <2>2. /\ r.pc = "open" /\ UNCHANGED <<writing, log>>
          /\ sub' = [sub EXCEPT ![s].pc = "gone", ![s].in = FALSE]
          /\ closes' = [closes EXCEPT ![s] = IF sub[s].in THEN @ + 1 ELSE @]
      BY <1>6, <2>1 DEF Leave
    <2>3. PICK r2 : r2 = [[r EXCEPT !.pc = "gone"] EXCEPT !.in = FALSE]
      OBVIOUS
    <2>4. /\ r2 \in StreamRecord /\ r2.pc = "gone" /\ r2.in = FALSE /\ r2.from = r.from
          /\ r2.got = r.got /\ r2.buf = r.buf
      BY <2>3 DEF StreamRecord
    <2>5. sub' = [sub EXCEPT ![s] = r2]
      <3>1. /\ DOMAIN sub' = Streams /\ sub' = [t \in Streams |-> sub'[t]]
            /\ \A t \in Streams : t # s => sub'[t] = sub[t]
        BY <1>0, <2>2 DEF FeedTyped
      <3>2. sub'[s] = r2
        BY <1>0, <2>1, <2>2, <2>3 DEF FeedTyped, StreamRecord
      <3> QED BY <1>0, <3>1, <3>2 DEF FeedTyped
    <2>6. PICK c2 \in Nat : c2 = IF r.in THEN c + 1 ELSE c
      BY <2>1
    <2>7. closes' = [closes EXCEPT ![s] = c2]
      BY <1>0, <2>1, <2>2, <2>6 DEF FeedTyped
    <2>8. r.in \in BOOLEAN /\ c2 = 1
      BY <2>1, <2>2, <2>6 DEF Follower, Follows, StreamRecord
    <2>9. Follower(r2, L, c2)
      BY <2>1, <2>4, <2>8 DEF Follower, Follows
    <2> QED BY <2>1, <2>2, <2>4, <2>5, <2>7, <2>9, OneStream
  <1> QED BY <1>1, <1>2, <1>3, <1>4, <1>5, <1>6 DEF FeedNext

\* The feed's invariant implies that no open stream has a gap.
LEMMA InvFeed == ASSUME FeedInv PROVE FeedHasNoGap
  <1> SUFFICES ASSUME NEW s \in Streams, sub[s].pc # "none"
               PROVE  LET owed == SubSeq(log, sub[s].from + 1, Len(log))
                          has == sub[s].got \o sub[s].buf
                      IN /\ IsPrefix(has, owed)
                         /\ sub[s].in => has = owed
                         /\ closes[s] = IF sub[s].in THEN 0 ELSE 1
    BY DEF FeedHasNoGap
  <1>1. PICK r \in StreamRecord, c \in Nat, L \in Seq(Published) :
           r = sub[s] /\ c = closes[s] /\ L = log /\ Follower(r, L, c)
    BY DEF FeedInv, FeedTyped
  <1>2. /\ r.pc \in {"open", "gone"} /\ r.in \in BOOLEAN /\ r.from \in Nat
        /\ r.got \in Seq(Published) /\ r.buf \in Seq(Published)
    BY <1>1 DEF StreamRecord
  <1>3. NoGap(r.in, r.from, r.got, r.buf, L, c)
    <2>1. Follows(r.pc, r.in, r.from, r.got, r.buf, L, c)
      BY <1>1 DEF Follower
    <2> QED BY <1>2, <2>1, FollowsHasNoGap
  <1> QED BY <1>1, <1>3 DEF NoGap

-----------------------------------------------------------------------------
(* Publish, Subscribe and the stream handler, for any number of writers,   *)
(* streams and rows and any buffer: an open stream misses nothing and sees *)
(* nothing out of order, and one that was dropped is told once.            *)
THEOREM FeedNeverGaps == FeedSpec => []FeedHasNoGap
  <1>1. FeedInit => FeedInv
    BY InitFeed
  <1>2. FeedInv /\ [FeedNext]_feedVars => FeedInv'
    BY StepFeed
  <1>3. FeedInv => FeedHasNoGap
    BY InvFeed
  <1> QED BY <1>1, <1>2, <1>3, PTL DEF FeedSpec

-----------------------------------------------------------------------------
(* Credentials.  There is a text t that the file holds, or that the one Get *)
(* which has truncated it alone will write back: a caller that has been     *)
(* alone since its read holds t, or t with its own slot.                    *)

Texts == UNION {[S -> Values \cup {Cut}] : S \in SUBSET Slots}

SaverPhases == {"idle", "read", "create", "created", "written", "temp"}
SaverRecord == [pc : SaverPhases, slot : Slots \cup {1}, value : Values \cup {Cut},
                text : Texts, alone : BOOLEAN, held : BOOLEAN]
GetterRecord == [pc : {"idle", "touch", "torn"}, text : Texts, alone : BOOLEAN, held : BOOLEAN]

Files == [there : BOOLEAN, parses : BOOLEAN, text : Texts]

Busy(p) == saver[p].pc # "idle"
Reading(g) == getter[g].pc # "idle"

SecretsTyped ==
    /\ secrets \in Files
    /\ saver \in [Savers -> SaverRecord] /\ getter \in [Getters -> GetterRecord]
    /\ reported \in Texts /\ pending \in [Slots -> SUBSET (Values \cup {Cut})]
    /\ unsure \in SUBSET Slots
    /\ \A p \in Savers : Busy(p) => saver[p].slot \in Slots /\ saver[p].value \in Values

\* A text with one credential set.
LEMMA PutIs ==
    ASSUME NEW t \in Texts, NEW n \in Slots, NEW v \in Values \cup {Cut}
    PROVE  /\ Put(t, n, v) \in Texts
           /\ DOMAIN Put(t, n, v) = DOMAIN t \cup {n}
           /\ Put(t, n, v)[n] = v
           /\ \A m \in DOMAIN t : m # n => Put(t, n, v)[m] = t[m]
<1> DEFINE u == [m \in DOMAIN t \cup {n} |-> IF m = n THEN v ELSE t[m]]
<1>1. Put(t, n, v) = u
  BY DEF Put
<1>2. DOMAIN t \in SUBSET Slots /\ t \in [DOMAIN t -> Values \cup {Cut}]
  BY DEF Texts
<1>3. u \in [DOMAIN t \cup {n} -> Values \cup {Cut}]
  BY <1>2
<1>4. u \in Texts
  BY <1>2, <1>3 DEF Texts
<1> QED BY <1>1, <1>4

\* The empty file is a text without names.
LEMMA NothingIsText == Nothing \in Texts /\ DOMAIN Nothing = {}
<1>1. Nothing \in [{} -> Values \cup {Cut}]
  BY DEF Nothing
<1> QED BY <1>1 DEF Texts

\* What a write of t that fails leaves holds no slot that t does not hold, and in
\* each what t holds or a value cut short.
LEMMA PartialIs ==
    ASSUME NEW t \in Texts, NEW file \in Partials(t)
    PROVE  /\ file \in Files /\ file.there
           /\ DOMAIN file.text \subseteq DOMAIN t
           /\ \A n \in DOMAIN file.text : file.text[n] \in {t[n], Cut}
<1>1. DOMAIN t \in SUBSET Slots /\ t \in [DOMAIN t -> Values \cup {Cut}]
  BY DEF Texts
<1>2. \A k : FirstSlots(t, k) \in SUBSET Slots /\ FirstSlots(t, k) \subseteq DOMAIN t
  BY <1>1 DEF FirstSlots
<1>3. \A k : /\ [n \in FirstSlots(t, k) |-> t[n]] \in [FirstSlots(t, k) -> Values \cup {Cut}]
             /\ [n \in FirstSlots(t, k) |-> IF n = k THEN Cut ELSE t[n]]
                  \in [FirstSlots(t, k) -> Values \cup {Cut}]
  BY <1>1, <1>2
<1>4. \A k : /\ [n \in FirstSlots(t, k) |-> t[n]] \in Texts
             /\ [n \in FirstSlots(t, k) |-> IF n = k THEN Cut ELSE t[n]] \in Texts
  BY <1>2, <1>3 DEF Texts
<1>5. CASE file = [there |-> TRUE, parses |-> FALSE, text |-> Nothing]
  BY <1>5, NothingIsText DEF Files
<1>6. ASSUME NEW k, file = File([n \in FirstSlots(t, k) |-> t[n]])
      PROVE  /\ file \in Files /\ file.there /\ DOMAIN file.text \subseteq DOMAIN t
             /\ \A n \in DOMAIN file.text : file.text[n] \in {t[n], Cut}
  BY <1>2, <1>4, <1>6 DEF File, Files
<1>7. ASSUME NEW k, file = File([n \in FirstSlots(t, k) |-> IF n = k THEN Cut ELSE t[n]])
      PROVE  /\ file \in Files /\ file.there /\ DOMAIN file.text \subseteq DOMAIN t
             /\ \A n \in DOMAIN file.text : file.text[n] \in {t[n], Cut}
  BY <1>2, <1>4, <1>7 DEF File, Files
<1> QED BY <1>5, <1>6, <1>7 DEF Partials

-----------------------------------------------------------------------------
(* The invariant, of the text t that the file holds or, while a lone Get     *)
(* rewrites it, is about to hold again.                                      *)

TornAlone(g) == getter[g].pc = "torn" /\ getter[g].alone
Content(t) == (\A g \in Getters : ~ TornAlone(g)) => secrets.text = t

StoredIn(t, n) ==
    /\ n \in DOMAIN reported => n \in DOMAIN t
    /\ n \in DOMAIN t => \/ t[n] \in pending[n]
                         \/ n \in DOMAIN reported /\ t[n] = reported[n]
Good(t) == \A n \in Slots \ unsure : StoredIn(t, n)

\* Whoever is alone will write what it read, with its own value; a new file is
\* made where none was, so no Save of a slot that is sure was confirmed.
New(p) == saver[p].pc \in {"created", "written"} /\ saver[p].alone
SaverReads(t) == \A p \in Savers : saver[p].alone =>
    /\ saver[p].pc \in {"read", "temp", "create"} => saver[p].text = Put(t, saver[p].slot, saver[p].value)
    /\ saver[p].pc = "create" => t = Nothing
    /\ New(p) => /\ saver[p].text = Put(Nothing, saver[p].slot, saver[p].value)
                 /\ t = IF saver[p].pc = "created" THEN Nothing ELSE saver[p].text
                 /\ DOMAIN reported \subseteq unsure
GetterReads(t) == \A g \in Getters : Reading(g) /\ getter[g].alone => getter[g].text = t

\* Whoever has truncated the file alone is the only one that is alone, and no
\* two have made it alone.
Lone ==
    /\ \A g \in Getters : TornAlone(g) =>
        /\ \A h \in Getters : h # g /\ Reading(h) => ~ getter[h].alone
        /\ \A p \in Savers : Busy(p) => ~ saver[p].alone
    /\ \A p \in Savers : saver[p].pc = "created" /\ saver[p].alone =>
        /\ \A h \in Getters : Reading(h) => ~ getter[h].alone
        /\ \A q \in Savers : q # p /\ Busy(q) => ~ saver[q].alone
    /\ \A p, q \in Savers : New(p) /\ New(q) => p = q

\* A value that is not written yet is not in the file, unless as an older one.
Unwritten(t) == \A p \in Savers :
    (/\ saver[p].pc \in {"read", "temp", "create"} /\ saver[p].slot \notin unsure
     /\ saver[p].slot \in DOMAIN t /\ t[saver[p].slot] = saver[p].value)
       => saver[p].slot \in DOMAIN reported /\ reported[saver[p].slot] = saver[p].value

Sound(t) == Content(t) /\ Good(t) /\ SaverReads(t) /\ GetterReads(t) /\ Lone /\ Unwritten(t)

\* The values under way are pending, and no two are the same.
FreshValues == \A p \in Savers : Busy(p) =>
    /\ saver[p].value \in pending[saver[p].slot]
    /\ \A q \in Savers : Busy(q) /\ saver[q].value = saver[p].value => p = q

\* A handle that leads nowhere is of one who is not alone; no file, no text.
Handles == /\ \A p \in Savers : saver[p].alone \/ saver[p].pc # "created" => saver[p].held
           /\ \A g \in Getters : getter[g].alone \/ getter[g].pc # "torn" => getter[g].held
           /\ ~ secrets.there => secrets.text = Nothing

SecretsInv == SecretsTyped /\ FreshValues /\ Handles /\ \E t \in Texts : Sound(t)

\* The first state satisfies the invariant.
LEMMA SecretsStart == ASSUME SecretsInit PROVE SecretsInv
<1>0. IdleSave \in SaverRecord /\ IdleGet \in GetterRecord /\ NoFile \in Files
  BY NothingIsText DEF IdleSave, IdleGet, SaverRecord, GetterRecord, SaverPhases, NoFile, Files
<1>1. SecretsTyped
  BY <1>0, NothingIsText DEF SecretsInit, SecretsTyped, IdleSave, Busy
<1>2. /\ \A p \in Savers : saver[p].pc = "idle" /\ saver[p].held
      /\ \A g \in Getters : getter[g].pc = "idle" /\ getter[g].held
      /\ secrets.text = Nothing /\ reported = Nothing
  BY DEF SecretsInit, IdleSave, IdleGet, NoFile
<1>3. Content(Nothing) /\ Good(Nothing) /\ SaverReads(Nothing) /\ GetterReads(Nothing)
  BY <1>2, NothingIsText DEF Content, Good, StoredIn, SaverReads, GetterReads, New, Reading
<1>4. Lone /\ Unwritten(Nothing) /\ FreshValues /\ Handles
  BY <1>2 DEF Lone, TornAlone, New, Unwritten, FreshValues, Handles, Busy, Reading
<1> QED BY <1>1, <1>3, <1>4, NothingIsText DEF SecretsInv, Sound

-----------------------------------------------------------------------------
(* What the steps do.                                                      *)

\* One saver moves to the record r and no one else does.
LEMMA SaverMoves ==
    ASSUME SecretsTyped, NEW p \in Savers, NEW r \in SaverRecord,
           saver' = [saver EXCEPT ![p] = r]
    PROVE  /\ saver' \in [Savers -> SaverRecord] /\ saver'[p] = r
           /\ \A q \in Savers \ {p} : saver'[q] = saver[q]
  BY DEF SecretsTyped

\* A getter that moves leaves the others where they are.
LEMMA GetterMoves ==
    ASSUME SecretsTyped, NEW g \in Getters, NEW r \in GetterRecord,
           getter' = [getter EXCEPT ![g] = r]
    PROVE  /\ getter' \in [Getters -> GetterRecord] /\ getter'[g] = r
           /\ \A h \in Getters \ {g} : getter'[h] = getter[h]
  BY DEF SecretsTyped

\* What a step that alters the file leaves of the calls of S and of G.
SaversSee(S) == \A q \in S :
    /\ saver'[q].pc = saver[q].pc /\ saver'[q].slot = saver[q].slot
    /\ saver'[q].value = saver[q].value
    /\ saver'[q].alone <=> (saver[q].pc = "idle")
    /\ saver[q].held /\ saver[q].pc # "created" => saver'[q].held
GettersSee(G) == \A h \in G :
    /\ getter'[h].pc = getter[h].pc
    /\ getter'[h].alone <=> (getter[h].pc = "idle")
    /\ getter[h].held /\ getter[h].pc # "torn" => getter'[h].held

LEMMA SaverSeen ==
    ASSUME NEW c \in SaverRecord, NEW replaced \in BOOLEAN
    PROVE  /\ Seen(c, replaced) \in SaverRecord
           /\ Seen(c, replaced).pc = c.pc /\ Seen(c, replaced).slot = c.slot
           /\ Seen(c, replaced).value = c.value
           /\ Seen(c, replaced).alone <=> (c.pc = "idle")
           /\ c.held /\ c.pc # "created" => Seen(c, replaced).held
<1>1. PICK a \in BOOLEAN : a = (c.pc = "idle")
  OBVIOUS
<1>2. PICK b \in BOOLEAN : b = (c.held /\ ~ (replaced /\ c.pc \in {"torn", "created"}))
  OBVIOUS
<1> DEFINE d == [c EXCEPT !.alone = a]
<1>3. Seen(c, replaced) = [d EXCEPT !.held = b]
  BY <1>1, <1>2 DEF Seen
<1>4. /\ d \in SaverRecord /\ d.pc = c.pc /\ d.alone = a /\ d.slot = c.slot /\ d.value = c.value
  BY DEF SaverRecord
<1> HIDE DEF d
<1> QED BY <1>1, <1>2, <1>3, <1>4 DEF SaverRecord, SaverPhases

LEMMA GetterSeen ==
    ASSUME NEW c \in GetterRecord, NEW replaced \in BOOLEAN
    PROVE  /\ Seen(c, replaced) \in GetterRecord
           /\ Seen(c, replaced).pc = c.pc
           /\ Seen(c, replaced).alone <=> (c.pc = "idle")
           /\ c.held /\ c.pc # "torn" => Seen(c, replaced).held
<1>1. PICK a \in BOOLEAN : a = (c.pc = "idle")
  OBVIOUS
<1>2. PICK b \in BOOLEAN : b = (c.held /\ ~ (replaced /\ c.pc \in {"torn", "created"}))
  OBVIOUS
<1> DEFINE d == [c EXCEPT !.alone = a]
<1>3. Seen(c, replaced) = [d EXCEPT !.held = b]
  BY <1>1, <1>2 DEF Seen
<1>4. /\ d \in GetterRecord /\ d.pc = c.pc /\ d.alone = a
  BY DEF GetterRecord
<1> HIDE DEF d
<1> QED BY <1>1, <1>2, <1>3, <1>4 DEF GetterRecord

\* A saver alters the file.
LEMMA SaverBecomes ==
    ASSUME SecretsTyped, NEW p \in Savers, NEW r \in SaverRecord, NEW file \in Files,
           NEW replaced \in BOOLEAN, Becomes(file, replaced, p, r)
    PROVE  /\ secrets' = file
           /\ saver' \in [Savers -> SaverRecord] /\ saver'[p] = r /\ SaversSee(Savers \ {p})
           /\ getter' \in [Getters -> GetterRecord] /\ GettersSee(Getters)
<1>1. \A h \in Getters : getter[h] \in GetterRecord /\ h # p
  BY SecretsAssumption DEF SecretsTyped, SecretsAssumption
<1>2. \A q \in Savers : saver[q] \in SaverRecord
  BY DEF SecretsTyped
<1>3. /\ secrets' = file /\ saver'[p] = r
      /\ saver' = [q \in Savers |-> saver'[q]] /\ getter' = [h \in Getters |-> getter'[h]]
      /\ \A q \in Savers \ {p} : saver'[q] = Seen(saver[q], replaced)
      /\ \A h \in Getters : getter'[h] = Seen(getter[h], replaced)
  BY <1>1 DEF Becomes
<1>4. SaversSee(Savers \ {p}) /\ \A q \in Savers : saver'[q] \in SaverRecord
  BY <1>2, <1>3, SaverSeen DEF SaversSee
<1>5. GettersSee(Getters) /\ \A h \in Getters : getter'[h] \in GetterRecord
  BY <1>1, <1>3, GetterSeen DEF GettersSee
<1> QED BY <1>3, <1>4, <1>5

\* A getter alters the file.
LEMMA GetterBecomes ==
    ASSUME SecretsTyped, NEW g \in Getters, NEW r \in GetterRecord, NEW file \in Files,
           NEW replaced \in BOOLEAN, Becomes(file, replaced, g, r)
    PROVE  /\ secrets' = file
           /\ saver' \in [Savers -> SaverRecord] /\ SaversSee(Savers)
           /\ getter' \in [Getters -> GetterRecord] /\ getter'[g] = r
           /\ GettersSee(Getters \ {g})
<1>1. \A h \in Getters : getter[h] \in GetterRecord
  BY DEF SecretsTyped
<1>2. \A q \in Savers : saver[q] \in SaverRecord /\ q # g
  BY SecretsAssumption DEF SecretsTyped, SecretsAssumption
<1>3. /\ secrets' = file /\ getter'[g] = r
      /\ saver' = [q \in Savers |-> saver'[q]] /\ getter' = [h \in Getters |-> getter'[h]]
      /\ \A q \in Savers : saver'[q] = Seen(saver[q], replaced)
      /\ \A h \in Getters \ {g} : getter'[h] = Seen(getter[h], replaced)
  BY <1>2 DEF Becomes
<1>4. SaversSee(Savers) /\ \A q \in Savers : saver'[q] \in SaverRecord
  BY <1>2, <1>3, SaverSeen DEF SaversSee
<1>5. GettersSee(Getters \ {g}) /\ \A h \in Getters : getter'[h] \in GetterRecord
  BY <1>1, <1>3, GetterSeen DEF GettersSee
<1> QED BY <1>3, <1>4, <1>5

-----------------------------------------------------------------------------
(* Steps that alter the file.  The one who does it is alone, or the file is  *)
(* unsure from now on; the others are alone no more.                         *)

\* A Save alters the file and is done with it, or no longer alone, or has made a
\* new one.
LEMMA SaverSettles ==
    ASSUME SecretsTyped, Handles, NEW p \in Savers, NEW u \in Texts, secrets'.text = u,
           ~ secrets'.there => u = Nothing, SaversSee(Savers \ {p}), GettersSee(Getters),
           saver'[p].alone \/ saver'[p].pc # "created" => saver'[p].held,
           \/ saver'[p].pc = "idle"
           \/ ~ saver'[p].alone
           \/ /\ New(p)' /\ saver'[p].text = Put(Nothing, saver'[p].slot, saver'[p].value)
              /\ u = IF saver'[p].pc = "created" THEN Nothing ELSE saver'[p].text
              /\ DOMAIN reported' \subseteq unsure'
    PROVE  Content(u)' /\ SaverReads(u)' /\ GetterReads(u)' /\ Lone' /\ Handles'
<1>1. \A q \in Savers \ {p} : /\ saver'[q].alone => saver'[q].pc = "idle"
                              /\ saver'[q].alone \/ saver'[q].pc # "created" => saver'[q].held
  BY DEF SaversSee, Handles
<1>2. \A h \in Getters : /\ getter'[h].alone => getter'[h].pc = "idle"
                         /\ getter'[h].alone \/ getter'[h].pc # "torn" => getter'[h].held
  BY DEF GettersSee, Handles, Reading
<1>3. Content(u)' /\ GetterReads(u)' /\ Handles'
  BY <1>1, <1>2 DEF Content, GetterReads, Reading, Handles, Busy
<1>4. SaverReads(u)'
  BY <1>1 DEF SaverReads, New
<1>5. Lone'
  BY <1>1, <1>2 DEF Lone, TornAlone, New, Busy, Reading
<1> QED BY <1>3, <1>4, <1>5

\* A Get alters the file and is done with it, or no longer alone.
LEMMA GetterSettles ==
    ASSUME SecretsTyped, Handles, NEW g \in Getters, NEW u \in Texts, secrets'.text = u,
           ~ secrets'.there => u = Nothing, SaversSee(Savers), GettersSee(Getters \ {g}),
           getter'[g].alone \/ getter'[g].pc # "torn" => getter'[g].held,
           getter'[g].pc = "idle" \/ ~ getter'[g].alone
    PROVE  Content(u)' /\ SaverReads(u)' /\ GetterReads(u)' /\ Lone' /\ Handles'
<1>1. \A q \in Savers : /\ saver'[q].alone => saver'[q].pc = "idle"
                        /\ saver'[q].alone \/ saver'[q].pc # "created" => saver'[q].held
  BY DEF SaversSee, Handles, Busy
<1>2. \A h \in Getters : /\ getter'[h].alone => getter'[h].pc = "idle"
                         /\ getter'[h].alone \/ getter'[h].pc # "torn" => getter'[h].held
  BY DEF GettersSee, Handles, Reading
<1>3. Content(u)' /\ GetterReads(u)' /\ Handles'
  BY <1>1, <1>2 DEF Content, GetterReads, Reading, Handles, Busy
<1>4. SaverReads(u)'
  BY <1>1 DEF SaverReads, New
<1>5. Lone'
  BY <1>1, <1>2 DEF Lone, TornAlone, New, Busy, Reading
<1> QED BY <1>3, <1>4, <1>5

\* Nothing is claimed of a file that is unsure.
LEMMA UnsureIsGood ==
    ASSUME SecretsTyped', unsure' = Slots, NEW u
    PROVE  Good(u)' /\ Unwritten(u)'
<1>1. Good(u)'
  BY DEF Good
<1>2. Unwritten(u)'
  BY DEF Unwritten, SecretsTyped, Busy
<1> QED BY <1>1, <1>2

\* The calls under way stay those they were, and their values pending.
LEMMA StaysFresh ==
    ASSUME FreshValues,
           \A q \in Savers : Busy(q)' =>
              /\ Busy(q) /\ saver'[q].slot = saver[q].slot /\ saver'[q].value = saver[q].value
              /\ saver[q].value \in pending'[saver[q].slot]
    PROVE  FreshValues'
  BY DEF FreshValues, Busy

\* What a Save that alters the file in one of the ways above leaves.
LEMMA SaverWrites ==
    ASSUME SecretsTyped, FreshValues, Handles, NEW p \in Savers, Busy(p), NEW r \in SaverRecord,
           NEW file \in Files, ~ file.there => file.text = Nothing,
           NEW replaced \in BOOLEAN, Becomes(file, replaced, p, r),
           reported' \in Texts, pending' \in [Slots -> SUBSET (Values \cup {Cut})],
           unsure' \in SUBSET Slots,
           r.pc # "idle" => /\ r.slot = saver[p].slot /\ r.value = saver[p].value
                            /\ r.value \in pending'[r.slot],
           \A q \in Savers \ {p} : Busy(q) => saver[q].value \in pending'[saver[q].slot],
           r.alone \/ r.pc # "created" => r.held,
           \/ r.pc = "idle"
           \/ ~ r.alone
           \/ /\ r.pc \in {"created", "written"} /\ r.text = Put(Nothing, r.slot, r.value)
              /\ file.text = IF r.pc = "created" THEN Nothing ELSE r.text
              /\ DOMAIN reported' \subseteq unsure'
    PROVE  /\ SecretsTyped' /\ FreshValues' /\ Handles' /\ secrets' = file
           /\ saver'[p] = r /\ SaversSee(Savers \ {p}) /\ GettersSee(Getters)
           /\ (Good(file.text)' /\ Unwritten(file.text)') \/ unsure' = Slots => SecretsInv'
<1>1. /\ secrets' = file
      /\ saver' \in [Savers -> SaverRecord] /\ saver'[p] = r /\ SaversSee(Savers \ {p})
      /\ getter' \in [Getters -> GetterRecord] /\ GettersSee(Getters)
  BY SaverBecomes
<1>2. PICK u \in Texts : u = file.text
  BY DEF Files
<1>3. \A q \in Savers : Busy(q)' =>
        /\ Busy(q) /\ saver'[q].slot = saver[q].slot /\ saver'[q].value = saver[q].value
        /\ saver[q].value \in pending'[saver[q].slot]
  BY <1>1 DEF SaversSee, Busy
<1>4. FreshValues'
  BY <1>3, StaysFresh
<1>5. SecretsTyped'
  <2>1. \A q \in Savers : Busy(q)' => saver'[q].slot \in Slots /\ saver'[q].value \in Values
    BY <1>3 DEF SecretsTyped
  <2> QED BY <1>1, <2>1 DEF SecretsTyped
<1>6. Content(u)' /\ SaverReads(u)' /\ GetterReads(u)' /\ Lone' /\ Handles'
  <2>1. secrets'.text = u /\ (~ secrets'.there => u = Nothing)
    BY <1>1, <1>2
  <2>2. saver'[p].alone \/ saver'[p].pc # "created" => saver'[p].held
    BY <1>1
  <2>3. \/ saver'[p].pc = "idle"
        \/ ~ saver'[p].alone
        \/ /\ New(p)' /\ saver'[p].text = Put(Nothing, saver'[p].slot, saver'[p].value)
           /\ u = IF saver'[p].pc = "created" THEN Nothing ELSE saver'[p].text
           /\ DOMAIN reported' \subseteq unsure'
    BY <1>1, <1>2 DEF New
  <2> QED BY <1>1, <2>1, <2>2, <2>3, SaverSettles
<1>7. unsure' = Slots => Good(u)' /\ Unwritten(u)'
  BY <1>5, UnsureIsGood
<1>8. Good(u)' /\ Unwritten(u)' => SecretsInv'
  BY <1>4, <1>5, <1>6 DEF SecretsInv, Sound
<1> QED BY <1>1, <1>2, <1>4, <1>5, <1>6, <1>7, <1>8

\* What a Get that alters the file leaves.
LEMMA GetterWrites ==
    ASSUME SecretsTyped, FreshValues, Handles, NEW g \in Getters, NEW r \in GetterRecord,
           NEW file \in Files, file.there, Becomes(file, FALSE, g, r), r.alone \/ r.pc # "torn" => r.held,
           UNCHANGED <<reported, pending>>, unsure' \in SUBSET Slots
    PROVE  /\ SecretsTyped' /\ FreshValues' /\ Handles' /\ secrets' = file
           /\ getter'[g] = r /\ SaversSee(Savers) /\ GettersSee(Getters \ {g})
           /\ r.pc = "idle" \/ ~ r.alone =>
                /\ Content(file.text)' /\ SaverReads(file.text)' /\ GetterReads(file.text)' /\ Lone'
                /\ (Good(file.text)' /\ Unwritten(file.text)') \/ unsure' = Slots => SecretsInv'
<1>1. /\ secrets' = file
      /\ saver' \in [Savers -> SaverRecord] /\ SaversSee(Savers)
      /\ getter' \in [Getters -> GetterRecord] /\ getter'[g] = r /\ GettersSee(Getters \ {g})
  <2>1. PICK b \in BOOLEAN : b = FALSE
    OBVIOUS
  <2> QED BY <2>1, GetterBecomes
<1>2. PICK u \in Texts : u = file.text
  BY DEF Files
<1>3. \A q \in Savers : Busy(q)' =>
        /\ Busy(q) /\ saver'[q].slot = saver[q].slot /\ saver'[q].value = saver[q].value
        /\ saver[q].value \in pending'[saver[q].slot]
  BY <1>1 DEF SaversSee, Busy, FreshValues
<1>4. FreshValues'
  BY <1>3, StaysFresh
<1>5. SecretsTyped'
  <2>1. \A q \in Savers : Busy(q)' => saver'[q].slot \in Slots /\ saver'[q].value \in Values
    BY <1>3 DEF SecretsTyped
  <2> QED BY <1>1, <2>1 DEF SecretsTyped
<1>6. Handles'
  BY <1>1 DEF SaversSee, GettersSee, Handles, Busy, Reading
<1>7. ASSUME r.pc = "idle" \/ ~ r.alone
      PROVE  Content(u)' /\ SaverReads(u)' /\ GetterReads(u)' /\ Lone' /\ Handles'
  BY <1>1, <1>2, <1>7, GetterSettles
<1>8. unsure' = Slots => Good(u)' /\ Unwritten(u)'
  BY <1>5, UnsureIsGood
<1>9. ASSUME r.pc = "idle" \/ ~ r.alone, Good(u)' /\ Unwritten(u)' PROVE SecretsInv'
  BY <1>4, <1>5, <1>7, <1>9 DEF SecretsInv, Sound
<1> QED BY <1>1, <1>2, <1>4, <1>5, <1>6, <1>7, <1>8, <1>9

-----------------------------------------------------------------------------
(* The steps of a Save.                                                    *)

LEMMA IdleRecords ==
    /\ IdleSave \in SaverRecord /\ IdleSave.pc = "idle" /\ IdleSave.held
    /\ IdleGet \in GetterRecord /\ IdleGet.pc = "idle" /\ IdleGet.held
    /\ NoFile \in Files /\ ~ NoFile.there /\ NoFile.text = Nothing
    /\ \A u \in Texts : File(u) \in Files /\ File(u).there /\ File(u).text = u
  BY NothingIsText DEF IdleSave, IdleGet, SaverRecord, GetterRecord, SaverPhases, NoFile, Files, File

\* Values of Saves under way, and texts read, by name.
LEMMA SaverFacts ==
    ASSUME SecretsTyped, FreshValues, NEW p \in Savers, Busy(p)
    PROVE  /\ saver[p] \in SaverRecord /\ saver[p].text \in Texts
           /\ saver[p].slot \in Slots /\ saver[p].value \in Values /\ saver[p].value # Cut
           /\ saver[p].value \in pending[saver[p].slot]
           /\ \A q \in Savers : Busy(q) /\ saver[q].value = saver[p].value => p = q
  BY SecretsAssumption DEF SecretsTyped, FreshValues, SaverRecord, Busy, SecretsAssumption

\* A Save that does not alter the file ends or moves on: of the others all stays.
LEMMA SaverSteps ==
    ASSUME SecretsInv, NEW p \in Savers, Busy(p), NEW r \in SaverRecord,
           saver' = [saver EXCEPT ![p] = r],
           UNCHANGED <<secrets, getter, reported, unsure>>,
           r.alone \/ r.pc # "created" => r.held,
           \/ r.pc = "idle"
           \/ r.pc = "written" /\ ~ r.alone /\ r.slot = saver[p].slot /\ r.value = saver[p].value
           \/ /\ saver[p].pc = "read" /\ r.pc \in {"temp", "create"} /\ r.alone = saver[p].alone
              /\ r.pc = "create" => ~ secrets.there
              /\ r.slot = saver[p].slot /\ r.value = saver[p].value /\ r.text = saver[p].text,
           \/ pending' = pending
           \/ pending' = [pending EXCEPT ![saver[p].slot] = @ \cup {Cut}]
           \/ /\ saver[p].pc \in {"read", "create", "temp"} /\ r.pc = "idle"
              /\ pending' = [pending EXCEPT ![saver[p].slot] = @ \ {saver[p].value}]
    PROVE  SecretsInv'
<1>1. SecretsTyped /\ FreshValues /\ Handles /\ pending \in [Slots -> SUBSET (Values \cup {Cut})]
  BY DEF SecretsInv, SecretsTyped
<1>2. /\ saver' \in [Savers -> SaverRecord] /\ saver'[p] = r
      /\ \A q \in Savers \ {p} : saver'[q] = saver[q]
  BY <1>1, SaverMoves
<1>3. /\ saver[p].slot \in Slots /\ saver[p].value \in Values
      /\ saver[p].value \in pending[saver[p].slot]
      /\ \A q \in Savers : Busy(q) /\ saver[q].value = saver[p].value => p = q
  BY <1>1, SaverFacts
<1>4. /\ pending' \in [Slots -> SUBSET (Values \cup {Cut})]
      /\ \A m \in Slots : \A v \in pending[m] :
           \/ v \in pending'[m]
           \/ /\ m = saver[p].slot /\ v = saver[p].value /\ r.pc = "idle"
              /\ saver[p].pc \in {"read", "create", "temp"}
  BY <1>1, <1>3
<1>5. \A q \in Savers : Busy(q)' =>
        /\ Busy(q) /\ saver'[q].slot = saver[q].slot /\ saver'[q].value = saver[q].value
        /\ saver[q].value \in pending'[saver[q].slot] /\ saver[q].slot \in Slots
        /\ saver[q].value \in Values
  <2> SUFFICES ASSUME NEW q \in Savers, Busy(q)'
               PROVE  /\ Busy(q) /\ saver'[q].slot = saver[q].slot /\ saver'[q].value = saver[q].value
                      /\ saver[q].value \in pending'[saver[q].slot] /\ saver[q].slot \in Slots
                      /\ saver[q].value \in Values
    OBVIOUS
  <2>1. Busy(q) /\ saver'[q].slot = saver[q].slot /\ saver'[q].value = saver[q].value
    BY <1>2 DEF Busy
  <2>2. saver[q].slot \in Slots /\ saver[q].value \in pending[saver[q].slot] /\ saver[q].value \in Values
    BY <1>1, <2>1, SaverFacts
  <2>3. q = p => r.pc # "idle"
    BY <1>2 DEF Busy
  <2>4. q # p => saver[q].value # saver[p].value
    BY <1>3, <2>1
  <2> QED BY <1>4, <2>1, <2>2, <2>3, <2>4
<1>6. SecretsTyped' /\ FreshValues'
  <2>1. FreshValues'
    BY <1>1, <1>5, StaysFresh
  <2>2. \A q \in Savers : Busy(q)' => saver'[q].slot \in Slots /\ saver'[q].value \in Values
    BY <1>5
  <2> QED BY <1>1, <1>2, <1>4, <2>1, <2>2 DEF SecretsTyped
<1>7. Handles'
  BY <1>1, <1>2 DEF Handles, Busy, Reading
<1>8. PICK t \in Texts : Sound(t)
  BY DEF SecretsInv
<1>9. Content(t)' /\ GetterReads(t)'
  BY <1>8 DEF Sound, Content, GetterReads, TornAlone, Reading
<1>10. Unwritten(t)'
  BY <1>2, <1>8 DEF Sound, Unwritten
<1>11. Good(t)'
  <2> SUFFICES ASSUME NEW n \in Slots \ unsure PROVE StoredIn(t, n)'
    BY DEF Good
  <2>1. StoredIn(t, n)
    BY <1>8 DEF Sound, Good
  <2>2. n \in DOMAIN t /\ t[n] \in pending[n] /\ t[n] \notin pending'[n] =>
           n \in DOMAIN reported /\ t[n] = reported[n]
    BY <1>4, <1>8 DEF Sound, Unwritten
  <2> QED BY <2>1, <2>2 DEF StoredIn
<1>12. Lone'
  <2>1. \A q \in Savers : Busy(q)' /\ saver'[q].alone => Busy(q) /\ saver[q].alone
    BY <1>2 DEF Busy
  <2>2. \A q \in Savers : saver'[q].pc \in {"created", "written"} /\ saver'[q].alone => saver'[q] = saver[q]
    BY <1>2
  <2> QED BY <1>8, <2>1, <2>2 DEF Sound, Lone, TornAlone, Reading, New
<1>13. SaverReads(t)'
  <2>1. ~ New(p)' /\ \A q \in Savers \ {p} : New(q)' <=> New(q)
    BY <1>2 DEF New
  <2>2. saver'[p].alone /\ saver'[p].pc # "idle" =>
          /\ saver[p].pc = "read" /\ saver'[p].pc \in {"temp", "create"} /\ saver[p].alone
          /\ saver'[p].text = saver[p].text /\ saver'[p].slot = saver[p].slot
          /\ saver'[p].value = saver[p].value
          /\ saver'[p].pc = "create" => ~ secrets.there
    BY <1>2
  <2>3. saver'[p].alone /\ saver'[p].pc = "create" => t = Nothing
    <3>1. saver'[p].alone /\ saver'[p].pc = "create" => Busy(p) /\ saver[p].alone /\ secrets.text = Nothing
      BY <1>1, <2>2 DEF Handles, Busy
    <3> QED BY <1>8, <3>1 DEF Sound, Lone, Content
  <2>4. saver'[p].alone /\ saver'[p].pc \in {"read", "temp", "create"} =>
           saver'[p].text = Put(t, saver'[p].slot, saver'[p].value)
    BY <1>8, <2>2 DEF Sound, SaverReads
  <2>5. \A q \in Savers \ {p} : saver'[q].alone =>
    /\ saver'[q].pc \in {"read", "temp", "create"} =>
         saver'[q].text = Put(t, saver'[q].slot, saver'[q].value)
    /\ saver'[q].pc = "create" => t = Nothing
    /\ New(q)' => /\ saver'[q].text = Put(Nothing, saver'[q].slot, saver'[q].value)
                  /\ t = IF saver'[q].pc = "created" THEN Nothing ELSE saver'[q].text
                  /\ DOMAIN reported \subseteq unsure
    BY <1>2, <1>8, <2>1 DEF Sound, SaverReads
  <2> QED BY <2>1, <2>3, <2>4, <2>5 DEF SaverReads
<1> QED BY <1>6, <1>7, <1>8, <1>9, <1>10, <1>11, <1>12, <1>13 DEF SecretsInv, Sound

\* What a Save does outside the file, and what it writes through a handle that
\* leads nowhere, keeps the invariant.
LEMMA SaverOutOfFile ==
    ASSUME SecretsInv, NEW p \in Savers,
           \/ Stat(p) \/ SaveFails(p) \/ SaverDies(p)
           \/ (WriteNew(p) \/ WriteNewFails(p)) /\ ~ saver[p].held
           \/ RemoveNew(p) /\ UNCHANGED <<secrets, getter, pending, unsure>> /\ Ends(p)
    PROVE  SecretsInv'
<1>1. saver[p] \in SaverRecord /\ Handles
  BY DEF SecretsInv, SecretsTyped
<1>2. CASE Stat(p)
  <2> DEFINE x == IF Preexisting(secrets.there) THEN "temp" ELSE "create"
             r == [saver[p] EXCEPT !.pc = x]
  <2>0. x \in {"temp", "create"} /\ (x = "create" => ~ secrets.there)
    BY DEF Preexisting
  <2> HIDE DEF x
  <2>1. /\ r \in SaverRecord /\ r.pc \in {"temp", "create"} /\ r.alone = saver[p].alone
        /\ r.pc = "create" => ~ secrets.there
        /\ r.held = saver[p].held
        /\ r.slot = saver[p].slot /\ r.value = saver[p].value /\ r.text = saver[p].text
    BY <1>1, <2>0 DEF SaverRecord, SaverPhases
  <2>2. saver' = [saver EXCEPT ![p] = r] /\ saver[p].pc = "read" /\ Busy(p)
    BY <1>2 DEF Stat, x, Busy
  <2>3. UNCHANGED <<secrets, getter, reported, pending, unsure>>
    BY <1>2 DEF Stat
  <2>4. r.alone \/ r.pc # "created" => r.held
    BY <1>1, <2>1, <2>2 DEF Handles
  <2> HIDE DEF r
  <2> QED BY <2>1, <2>2, <2>3, <2>4, SaverSteps
<1>3. CASE SaveFails(p)
  BY <1>3, IdleRecords, SaverSteps DEF SaveFails, Ends, Withdrawn, Busy
<1>4. CASE SaverDies(p)
  BY <1>4, IdleRecords, SaverSteps DEF SaverDies, Ends, Busy
<1>5. CASE WriteNewFails(p) /\ ~ saver[p].held
  <2>1. unsure' = unsure
    BY <1>5 DEF WriteNewFails, Unsure
  <2>2. saver' = [saver EXCEPT ![p] = IdleSave] /\ UNCHANGED <<secrets, getter>>
    BY <1>5 DEF WriteNewFails, Written
  <2> QED BY <1>5, <2>1, <2>2, IdleRecords, SaverSteps DEF WriteNewFails, Busy
<1>6. CASE WriteNew(p) /\ ~ saver[p].held
  <2> DEFINE d == [saver[p] EXCEPT !.pc = "written"]
             r == [d EXCEPT !.held = TRUE]
  <2>1. /\ d \in SaverRecord /\ d.pc = "written" /\ d.alone = saver[p].alone
        /\ d.slot = saver[p].slot /\ d.value = saver[p].value
    BY <1>1 DEF SaverRecord, SaverPhases
  <2>2. /\ r \in SaverRecord /\ r.pc = "written" /\ r.alone = d.alone /\ r.held
        /\ r.slot = d.slot /\ r.value = d.value
    BY <2>1 DEF SaverRecord, SaverPhases
  <2>3. saver' = [saver EXCEPT ![p] = r] /\ UNCHANGED <<secrets, getter, unsure, reported, pending>>
    BY <1>6 DEF WriteNew, Written, Unsure
  <2>4. ~ saver[p].alone /\ Busy(p)
    BY <1>1, <1>6 DEF Handles, WriteNew, Busy
  <2> HIDE DEF d, r
  <2> QED BY <2>1, <2>2, <2>3, <2>4, SaverSteps
<1>7. CASE RemoveNew(p) /\ UNCHANGED <<secrets, getter, pending, unsure>> /\ Ends(p)
  BY <1>7, IdleRecords, SaverSteps DEF RemoveNew, Ends, Busy
<1> QED BY <1>2, <1>3, <1>4, <1>5, <1>6, <1>7

\* readEntries: the value is fresh, and whoever reads a file that is being written
\* is not alone.
LEMMA SaverBegins ==
    ASSUME SecretsInv, NEW p \in Savers, ReadEntries(p)
    PROVE  SecretsInv'
<1>1. /\ SecretsTyped /\ FreshValues /\ Handles /\ secrets.text \in Texts
      /\ pending \in [Slots -> SUBSET (Values \cup {Cut})]
  BY DEF SecretsInv, SecretsTyped, Files
<1>2. PICK n \in Slots, v \in Values \ UNION {pending[m] : m \in Slots} :
        /\ saver' = [saver EXCEPT ![p] = [pc |-> "read", slot |-> n, value |-> v,
                        text |-> Put(secrets.text, n, v), alone |-> ~ Torn, held |-> TRUE]]
        /\ pending' = [pending EXCEPT ![n] = @ \cup {v}]
  BY DEF ReadEntries
<1>3. saver[p].pc = "idle" /\ UNCHANGED <<secrets, getter, reported, unsure>>
  BY DEF ReadEntries
<1>4. PICK x \in Texts, b \in BOOLEAN : x = Put(secrets.text, n, v) /\ b = ~ Torn
  BY <1>1, PutIs
<1> DEFINE r == [pc |-> "read", slot |-> n, value |-> v, text |-> x, alone |-> b, held |-> TRUE]
<1>5. r \in SaverRecord
  BY DEF SaverRecord, SaverPhases
<1>6. /\ r.pc = "read" /\ r.slot = n /\ r.value = v /\ r.text = x /\ r.alone = b /\ r.held
      /\ saver' = [saver EXCEPT ![p] = r]
  BY <1>2, <1>4
<1> HIDE DEF r
<1>7. /\ saver' \in [Savers -> SaverRecord] /\ saver'[p] = r
      /\ \A q \in Savers \ {p} : saver'[q] = saver[q]
  BY <1>1, <1>5, <1>6, SaverMoves
<1>8. /\ pending' \in [Slots -> SUBSET (Values \cup {Cut})] /\ v \in pending'[n]
      /\ \A m \in Slots : pending[m] \subseteq pending'[m] /\ v \notin pending[m]
  BY <1>1, <1>2
<1>9. \A q \in Savers \ {p} : Busy(q)' =>
        /\ Busy(q) /\ saver'[q].value # v /\ saver'[q].value \in pending'[saver'[q].slot]
        /\ saver'[q].slot \in Slots /\ saver'[q].value \in Values
        /\ \A y \in Savers : Busy(y) /\ saver[y].value = saver[q].value => q = y
  <2> SUFFICES ASSUME NEW q \in Savers \ {p}, Busy(q)'
               PROVE  /\ Busy(q) /\ saver'[q].value # v /\ saver'[q].value \in pending'[saver'[q].slot]
                      /\ saver'[q].slot \in Slots /\ saver'[q].value \in Values
                      /\ \A y \in Savers : Busy(y) /\ saver[y].value = saver[q].value => q = y
    OBVIOUS
  <2>1. Busy(q) /\ saver'[q] = saver[q]
    BY <1>7 DEF Busy
  <2>2. /\ saver[q].slot \in Slots /\ saver[q].value \in pending[saver[q].slot]
        /\ saver[q].value \in Values
        /\ \A y \in Savers : Busy(y) /\ saver[y].value = saver[q].value => q = y
    BY <1>1, <2>1, SaverFacts
  <2> QED BY <1>8, <2>1, <2>2
<1>10. SecretsTyped' /\ Handles'
  <2>1. \A q \in Savers : Busy(q)' => saver'[q].slot \in Slots /\ saver'[q].value \in Values
    BY <1>6, <1>7, <1>9
  <2> QED BY <1>1, <1>3, <1>6, <1>7, <1>8, <2>1 DEF SecretsTyped, Handles, Busy, Reading
<1>11. FreshValues'
  <2> SUFFICES ASSUME NEW q \in Savers, Busy(q)'
               PROVE  /\ saver'[q].value \in pending'[saver'[q].slot]
                      /\ \A y \in Savers : Busy(y)' /\ saver'[y].value = saver'[q].value => q = y
    BY DEF FreshValues
  <2> QED BY <1>6, <1>7, <1>8, <1>9
<1>12. PICK t \in Texts : Sound(t)
  BY DEF SecretsInv
<1>13. Content(t)' /\ GetterReads(t)'
  BY <1>3, <1>12 DEF Sound, Content, GetterReads, TornAlone, Reading
<1>14. Good(t)'
  BY <1>3, <1>8, <1>12 DEF Sound, Good, StoredIn
<1>15. b => secrets.text = t /\ (\A g \in Getters : ~ TornAlone(g))
            /\ \A q \in Savers : ~ (saver[q].pc = "created" /\ saver[q].alone)
  BY <1>1, <1>4, <1>12 DEF Sound, Content, Torn, TornBy, TornAlone, Handles
<1>16. SaverReads(t)'
  BY <1>3, <1>4, <1>6, <1>7, <1>12, <1>15 DEF Sound, SaverReads, New
<1>17. Lone'
  BY <1>3, <1>6, <1>7, <1>12, <1>15 DEF Sound, Lone, TornAlone, New, Busy, Reading
<1>18. Unwritten(t)'
  <2>1. n \notin unsure /\ n \in DOMAIN t /\ t[n] = v => n \in DOMAIN reported /\ reported[n] = v
    BY <1>8, <1>12 DEF Sound, Good, StoredIn
  <2> QED BY <1>3, <1>6, <1>7, <1>12, <2>1 DEF Sound, Unwritten
<1> QED BY <1>10, <1>11, <1>12, <1>13, <1>14, <1>16, <1>17, <1>18 DEF SecretsInv, Sound

\* A Save that is alone and makes a new file: no slot that is sure was ever
\* confirmed, and its text is its own value.
LEMMA NewFacts ==
    ASSUME SecretsInv, NEW p \in Savers, saver[p].pc \in {"create", "created", "written"}, saver[p].alone
    PROVE  /\ saver[p].text = Put(Nothing, saver[p].slot, saver[p].value)
           /\ DOMAIN saver[p].text = {saver[p].slot} /\ saver[p].text[saver[p].slot] = saver[p].value
           /\ DOMAIN reported \subseteq unsure
<1>1. SecretsTyped /\ FreshValues /\ Busy(p) /\ DOMAIN reported \subseteq Slots
  BY DEF SecretsInv, SecretsTyped, Busy, Texts
<1>2. PICK t \in Texts : Sound(t)
  BY DEF SecretsInv
<1>3. saver[p].text = Put(Nothing, saver[p].slot, saver[p].value)
  BY <1>2 DEF Sound, SaverReads, New
<1>6. /\ DOMAIN saver[p].text = {saver[p].slot}
      /\ saver[p].text[saver[p].slot] = saver[p].value
  <2>1. PICK n \in Slots, v \in Values : n = saver[p].slot /\ v = saver[p].value
    BY <1>1, SaverFacts
  <2>2. PICK t0 \in Texts : t0 = Nothing /\ DOMAIN t0 = {}
    BY NothingIsText
  <2>3. DOMAIN Put(t0, n, v) = DOMAIN t0 \cup {n} /\ Put(t0, n, v)[n] = v
    BY PutIs
  <2> QED BY <1>3, <2>1, <2>2, <2>3
<1>4. CASE saver[p].pc = "create"
  <2>1. t = Nothing /\ Good(t)
    BY <1>2, <1>4 DEF Sound, SaverReads
  <2>2. \A n \in Slots \ unsure : n \notin DOMAIN reported
    BY <2>1, NothingIsText DEF Good, StoredIn
  <2> QED BY <1>1, <1>3, <1>6, <2>2
<1>5. CASE saver[p].pc \in {"created", "written"}
  <2>1. DOMAIN reported \subseteq unsure
    BY <1>2, <1>5 DEF Sound, SaverReads, New
  <2> QED BY <1>3, <1>6, <2>1
<1> QED BY <1>4, <1>5

\* The text of a new file, or a part of it, is as good as no text.
LEMMA NewIsGood ==
    ASSUME SecretsTyped, FreshValues, SecretsTyped', FreshValues', NEW p \in Savers, Busy(p), NEW u \in Texts,
           DOMAIN reported' \subseteq unsure', DOMAIN u \subseteq {saver[p].slot},
           \A n \in DOMAIN u : u[n] \in pending'[n] /\ u[n] \in {saver[p].value, Cut},
           SaversSee(Savers \ {p}), saver'[p].pc \in {"idle", "created", "written"}
    PROVE  Good(u)' /\ Unwritten(u)'
<1>1. Good(u)'
  BY DEF Good, StoredIn
<1>2. \A q \in Savers : saver'[q].pc \in {"read", "temp", "create"} =>
         saver'[q].value # saver[p].value /\ saver'[q].value # Cut
  <2> SUFFICES ASSUME NEW q \in Savers, saver'[q].pc \in {"read", "temp", "create"}
               PROVE  saver'[q].value # saver[p].value /\ saver'[q].value # Cut
    OBVIOUS
  <2>1. q # p /\ Busy(q) /\ saver'[q].value = saver[q].value
    BY DEF SaversSee, Busy
  <2> QED BY <2>1, SaverFacts
<1>3. Unwritten(u)'
  BY <1>2 DEF Unwritten
<1> QED BY <1>1, <1>3

\* Creating, or truncating, the new file keeps the invariant.
LEMMA NewCreated ==
    ASSUME SecretsInv, NEW p \in Savers, CreateNew(p)
    PROVE  SecretsInv'
<1>1. /\ SecretsTyped /\ FreshValues /\ Handles /\ Busy(p) /\ saver[p].pc = "create"
      /\ reported \in Texts /\ pending \in [Slots -> SUBSET (Values \cup {Cut})] /\ unsure \in SUBSET Slots
  BY DEF SecretsInv, SecretsTyped, CreateNew, Busy
<1>2. /\ saver[p] \in SaverRecord /\ saver[p].value \in pending[saver[p].slot] /\ saver[p].slot \in Slots
  BY <1>1, SaverFacts
<1> DEFINE r == [saver[p] EXCEPT !.pc = "created"]
<1>3. /\ r \in SaverRecord /\ r.pc = "created" /\ r.slot = saver[p].slot /\ r.text = saver[p].text
      /\ r.value = saver[p].value /\ r.alone = saver[p].alone /\ r.held = saver[p].held
  BY <1>2 DEF SaverRecord, SaverPhases
<1>4. PICK file \in Files, b \in BOOLEAN :
        /\ file = File(Nothing) /\ b = FALSE /\ file.there /\ file.text = Nothing
        /\ Becomes(file, b, p, r)
  BY NothingIsText, IdleRecords DEF CreateNew
<1>5. UNCHANGED <<reported, pending>> /\ unsure' = (IF saver[p].alone \/ ~ saver[p].held THEN unsure ELSE Slots)
  BY DEF CreateNew, Unsure
<1> HIDE DEF r
<1>6. saver[p].held /\ unsure' \in SUBSET Slots
  BY <1>1, <1>5 DEF Handles
<1>7. saver[p].alone => /\ saver[p].text = Put(Nothing, saver[p].slot, saver[p].value)
                       /\ DOMAIN reported \subseteq unsure /\ unsure' = unsure
  BY <1>1, <1>5, NewFacts
<1>8. \A q \in Savers : Busy(q) => saver[q].value \in pending'[saver[q].slot]
  BY <1>1, <1>5, SaverFacts
<1>9. \/ ~ r.alone
      \/ /\ r.pc \in {"created", "written"} /\ r.text = Put(Nothing, r.slot, r.value)
         /\ file.text = IF r.pc = "created" THEN Nothing ELSE r.text
         /\ DOMAIN reported' \subseteq unsure'
  BY <1>3, <1>4, <1>5, <1>7
<1>10. /\ SecretsTyped' /\ FreshValues' /\ saver'[p] = r /\ SaversSee(Savers \ {p})
       /\ (Good(file.text)' /\ Unwritten(file.text)') \/ unsure' = Slots => SecretsInv'
  BY <1>1, <1>2, <1>3, <1>4, <1>5, <1>6, <1>8, <1>9, SaverWrites
<1>11. PICK u \in Texts : u = file.text /\ DOMAIN u = {}
  BY <1>4, NothingIsText
<1>12. saver[p].alone => Good(u)' /\ Unwritten(u)'
  BY <1>1, <1>3, <1>5, <1>7, <1>10, <1>11, NewIsGood
<1>13. ~ saver[p].alone => unsure' = Slots
  BY <1>5, <1>6
<1> QED BY <1>10, <1>11, <1>12, <1>13

\* Writing the new file, or a part of it, keeps the invariant.
LEMMA NewWritten ==
    ASSUME SecretsInv, NEW p \in Savers, saver[p].pc = "created", saver[p].held,
           NEW file \in Files, file.there, NEW r \in SaverRecord, r.held,
           \/ /\ r.pc = "written" /\ r.alone = saver[p].alone /\ r.slot = saver[p].slot
              /\ r.value = saver[p].value /\ r.text = saver[p].text
              /\ file.text = saver[p].text /\ pending' = pending
           \/ /\ r.pc = "idle" /\ file \in Partials(saver[p].text)
              /\ pending' = [pending EXCEPT ![saver[p].slot] = @ \cup {Cut}],
           Becomes(file, FALSE, p, r), Unsure(saver[p]), reported' = reported
    PROVE  SecretsInv'
<1>1. /\ SecretsTyped /\ FreshValues /\ Handles /\ Busy(p)
      /\ reported \in Texts /\ pending \in [Slots -> SUBSET (Values \cup {Cut})] /\ unsure \in SUBSET Slots
  BY DEF SecretsInv, SecretsTyped, Busy
<1>2. /\ saver[p].text \in Texts
      /\ saver[p].value \in pending[saver[p].slot] /\ saver[p].slot \in Slots
  BY <1>1, SaverFacts
<1>3. unsure' = (IF saver[p].alone THEN unsure ELSE Slots) /\ unsure' \in SUBSET Slots
  BY <1>1 DEF Unsure
<1>4. /\ pending' \in [Slots -> SUBSET (Values \cup {Cut})]
      /\ \A m \in Slots : pending[m] \subseteq pending'[m]
      /\ r.pc = "idle" => Cut \in pending'[saver[p].slot]
  BY <1>1, <1>2
<1>5. \A q \in Savers : Busy(q) => saver[q].value \in pending'[saver[q].slot]
  BY <1>1, <1>4, SaverFacts
<1>6. saver[p].alone => /\ saver[p].text = Put(Nothing, saver[p].slot, saver[p].value)
                       /\ DOMAIN saver[p].text = {saver[p].slot}
                       /\ saver[p].text[saver[p].slot] = saver[p].value
                       /\ DOMAIN reported \subseteq unsure /\ unsure' = unsure
  BY <1>3, NewFacts
<1>7. PICK b \in BOOLEAN : b = FALSE /\ Becomes(file, b, p, r)
  OBVIOUS
<1>8. \/ r.pc = "idle"
      \/ ~ r.alone
      \/ /\ r.pc \in {"created", "written"} /\ r.text = Put(Nothing, r.slot, r.value)
         /\ file.text = IF r.pc = "created" THEN Nothing ELSE r.text
         /\ DOMAIN reported' \subseteq unsure'
  BY <1>6
<1>9. r.pc # "idle" => /\ r.slot = saver[p].slot /\ r.value = saver[p].value
                       /\ r.value \in pending'[r.slot]
  BY <1>2
<1>10. /\ SecretsTyped' /\ FreshValues' /\ saver'[p] = r /\ SaversSee(Savers \ {p})
       /\ (Good(file.text)' /\ Unwritten(file.text)') \/ unsure' = Slots => SecretsInv'
  BY <1>1, <1>3, <1>4, <1>5, <1>7, <1>8, <1>9, SaverWrites
<1>11. PICK u \in Texts : u = file.text
  BY DEF Files
<1>12. DOMAIN u \subseteq DOMAIN saver[p].text /\ \A n \in DOMAIN u :
          \/ u[n] = saver[p].text[n]
          \/ r.pc = "idle" /\ u[n] = Cut
  BY <1>2, <1>11, PartialIs
<1>13. saver[p].alone => /\ DOMAIN u \subseteq {saver[p].slot}
                        /\ \A n \in DOMAIN u : u[n] \in pending'[n] /\ u[n] \in {saver[p].value, Cut}
  BY <1>2, <1>4, <1>5, <1>6, <1>12
<1>14. saver[p].alone => Good(u)' /\ Unwritten(u)'
  BY <1>1, <1>6, <1>10, <1>13, NewIsGood
<1> QED BY <1>3, <1>10, <1>11, <1>14

\* Both ends of the write of a new file keep the invariant.
LEMMA NewEnds ==
    ASSUME SecretsInv, NEW p \in Savers, saver[p].held, WriteNew(p) \/ WriteNewFails(p)
    PROVE  SecretsInv'
<1>1. SecretsTyped /\ FreshValues /\ Busy(p) /\ saver[p].pc = "created"
  BY DEF SecretsInv, WriteNew, WriteNewFails, Busy
<1>2. PICK x \in SaverRecord, u \in Texts : x = saver[p] /\ u = saver[p].text
  BY <1>1, SaverFacts
<1>3. CASE WriteNew(p)
  <2> DEFINE d == [x EXCEPT !.pc = "written"]
             r == [d EXCEPT !.held = TRUE]
  <2>1. /\ d \in SaverRecord /\ d.pc = "written" /\ d.alone = x.alone
        /\ d.slot = x.slot /\ d.value = x.value /\ d.text = x.text
    BY DEF SaverRecord, SaverPhases
  <2>2. /\ r \in SaverRecord /\ r.pc = "written" /\ r.alone = d.alone /\ r.held
        /\ r.slot = d.slot /\ r.value = d.value /\ r.text = d.text
    BY <2>1 DEF SaverRecord, SaverPhases
  <2>3. PICK file \in Files : file = File(u) /\ file.there /\ file.text = u
    BY IdleRecords
  <2>4. /\ Becomes(file, FALSE, p, r) /\ Unsure(saver[p])
        /\ reported' = reported /\ pending' = pending
    BY <1>2, <1>3, <2>3 DEF WriteNew, Written
  <2> HIDE DEF d, r
  <2> QED BY <1>1, <1>2, <2>1, <2>2, <2>3, <2>4, NewWritten
<1>4. CASE WriteNewFails(p)
  <2>1. PICK file \in Partials(u) : Becomes(file, FALSE, p, IdleSave)
    BY <1>2, <1>4 DEF WriteNewFails, Written
  <2>2. file \in Files /\ file.there
    BY PartialIs
  <2>3. /\ Unsure(saver[p]) /\ reported' = reported
        /\ pending' = [pending EXCEPT ![saver[p].slot] = @ \cup {Cut}]
    BY <1>4 DEF WriteNewFails
  <2>4. PICK r \in SaverRecord : r = IdleSave /\ r.pc = "idle" /\ r.held
    BY IdleRecords
  <2> QED BY <1>1, <1>2, <2>1, <2>2, <2>3, <2>4, NewWritten
<1> QED BY <1>3, <1>4

\* Removing a new file that could not be protected keeps the invariant.
LEMMA NewRemoved ==
    ASSUME SecretsInv, NEW p \in Savers, RemoveNew(p), Becomes(NoFile, TRUE, p, IdleSave),
           Withdrawn(p), Unsure(saver[p])
    PROVE  SecretsInv'
<1>1. /\ SecretsTyped /\ FreshValues /\ Handles /\ Busy(p) /\ saver[p].pc = "written"
      /\ reported \in Texts /\ pending \in [Slots -> SUBSET (Values \cup {Cut})] /\ unsure \in SUBSET Slots
  BY DEF SecretsInv, SecretsTyped, Busy, RemoveNew
<1>2. saver[p].slot \in Slots /\ \A q \in Savers : Busy(q) /\ saver[q].value = saver[p].value => p = q
  BY <1>1, SaverFacts
<1>3. /\ unsure' = (IF saver[p].alone THEN unsure ELSE Slots) /\ unsure' \in SUBSET Slots
      /\ reported' = reported
  BY <1>1 DEF Unsure, Handles, RemoveNew
<1>4. pending' = [pending EXCEPT ![saver[p].slot] = @ \ {saver[p].value}]
  BY DEF Withdrawn
<1>5. /\ pending' \in [Slots -> SUBSET (Values \cup {Cut})]
      /\ \A q \in Savers \ {p} : Busy(q) => saver[q].value \in pending'[saver[q].slot]
  <2>1. pending' \in [Slots -> SUBSET (Values \cup {Cut})]
    BY <1>1, <1>2, <1>4
  <2> SUFFICES ASSUME NEW q \in Savers \ {p}, Busy(q) PROVE saver[q].value \in pending'[saver[q].slot]
    BY <2>1
  <2>2. saver[q].value \in pending[saver[q].slot] /\ saver[q].slot \in Slots /\ saver[q].value # saver[p].value
    BY <1>1, <1>2, SaverFacts
  <2> QED BY <1>1, <1>4, <2>2
<1>6. PICK file \in Files, b \in BOOLEAN, r \in SaverRecord :
        /\ file = NoFile /\ b = TRUE /\ r = IdleSave /\ r.pc = "idle" /\ r.held
        /\ ~ file.there /\ file.text = Nothing /\ Becomes(file, b, p, r)
  BY IdleRecords
<1>7. /\ SecretsTyped' /\ FreshValues' /\ saver'[p] = r /\ SaversSee(Savers \ {p})
      /\ (Good(file.text)' /\ Unwritten(file.text)') \/ unsure' = Slots => SecretsInv'
  BY <1>1, <1>3, <1>5, <1>6, SaverWrites
<1>8. PICK u \in Texts : u = file.text /\ DOMAIN u = {}
  BY <1>6, NothingIsText
<1>9. saver[p].alone => DOMAIN reported' \subseteq unsure'
  BY <1>1, <1>3, NewFacts
<1>10. saver[p].alone => Good(u)' /\ Unwritten(u)'
  BY <1>1, <1>6, <1>7, <1>8, <1>9, NewIsGood
<1> QED BY <1>3, <1>7, <1>8, <1>10

\* What a Save that reports success leaves of what is known.
LEMMA ConfirmedIs ==
    ASSUME SecretsTyped, FreshValues, NEW p \in Savers, Busy(p), Confirmed(p)
    PROVE  /\ reported' \in Texts /\ DOMAIN reported' = DOMAIN reported \cup {saver[p].slot}
           /\ reported'[saver[p].slot] = saver[p].value
           /\ \A m \in DOMAIN reported : m # saver[p].slot => reported'[m] = reported[m]
           /\ pending' \in [Slots -> SUBSET (Values \cup {Cut})]
           /\ \A m \in Slots : m # saver[p].slot => pending'[m] = pending[m]
           /\ \A q \in Savers \ {p} : Busy(q) => saver[q].value \in pending'[saver[q].slot]
           /\ unsure' = (IF saver[p].alone THEN unsure \ {saver[p].slot} ELSE Slots)
           /\ unsure' \in SUBSET Slots
<1>1. PICK n \in Slots, v \in Values \cup {Cut}, z \in Texts : n = saver[p].slot /\ v = saver[p].value /\ z = reported
  BY SaverFacts DEF SecretsTyped
<1>2. /\ Put(z, n, v) \in Texts /\ DOMAIN Put(z, n, v) = DOMAIN z \cup {n} /\ Put(z, n, v)[n] = v
      /\ \A m \in DOMAIN z : m # n => Put(z, n, v)[m] = z[m]
  BY PutIs
<1>3. /\ reported' = Put(z, n, v) /\ pending' = [pending EXCEPT ![n] = InFlight(n, p)]
      /\ unsure' = (IF saver[p].alone THEN unsure \ {n} ELSE Slots)
  BY <1>1 DEF Confirmed
<1>4. InFlight(n, p) \in SUBSET (Values \cup {Cut})
  <2>1. \A q \in Savers : saver[q].value \in Values \cup {Cut}
    BY DEF SecretsTyped, SaverRecord
  <2> QED BY <2>1 DEF InFlight
<1>5. pending \in [Slots -> SUBSET (Values \cup {Cut})] /\ unsure \in SUBSET Slots
  BY DEF SecretsTyped
<1>6. \A q \in Savers \ {p} : Busy(q) => saver[q].value \in pending'[saver[q].slot]
  <2> SUFFICES ASSUME NEW q \in Savers \ {p}, Busy(q) PROVE saver[q].value \in pending'[saver[q].slot]
    OBVIOUS
  <2>1. saver[q].slot \in Slots /\ saver[q].value \in pending[saver[q].slot]
    BY SaverFacts
  <2>2. saver[q].slot = n => saver[q].value \in InFlight(n, p)
    BY DEF InFlight, Busy
  <2> QED BY <1>3, <1>5, <2>1, <2>2
<1> QED BY <1>1, <1>2, <1>3, <1>4, <1>5, <1>6

\* A text with the slot of a Save that reports success is as good as before it.
LEMMA ConfirmedIsGood ==
    ASSUME SecretsTyped, FreshValues, NEW p \in Savers, Busy(p), Confirmed(p), saver[p].alone,
           NEW t \in Texts, Good(t), Unwritten(t), NEW u \in Texts, saver[p].slot \in DOMAIN u,
           u[saver[p].slot] = saver[p].value,
           DOMAIN u = DOMAIN t \cup {saver[p].slot},
           \A m \in DOMAIN t : m # saver[p].slot => u[m] = t[m],
           saver'[p].pc = "idle",
           \A q \in Savers \ {p} : /\ saver'[q].pc = saver[q].pc /\ saver'[q].slot = saver[q].slot
                                   /\ saver'[q].value = saver[q].value
    PROVE  Good(u)' /\ Unwritten(u)'
<1>1. /\ DOMAIN reported' = DOMAIN reported \cup {saver[p].slot}
      /\ reported'[saver[p].slot] = saver[p].value
      /\ \A m \in DOMAIN reported : m # saver[p].slot => reported'[m] = reported[m]
      /\ \A m \in Slots : m # saver[p].slot => pending'[m] = pending[m]
      /\ unsure' = unsure \ {saver[p].slot}
  BY ConfirmedIs
<1>2. Good(u)'
  <2> SUFFICES ASSUME NEW n \in Slots \ unsure' PROVE StoredIn(u, n)'
    BY DEF Good
  <2>1. CASE n = saver[p].slot
    BY <1>1, <2>1 DEF StoredIn
  <2>2. CASE n # saver[p].slot
    <3>1. StoredIn(t, n)
      BY <1>1, <2>2 DEF Good
    <3> QED BY <1>1, <2>2, <3>1 DEF StoredIn
  <2> QED BY <2>1, <2>2
<1>3. Unwritten(u)'
  <2> SUFFICES ASSUME NEW q \in Savers, saver'[q].pc \in {"read", "temp", "create"},
                      saver'[q].slot \notin unsure', saver'[q].slot \in DOMAIN u,
                      u[saver'[q].slot] = saver'[q].value
               PROVE  saver'[q].slot \in DOMAIN reported' /\ reported'[saver'[q].slot] = saver'[q].value
    BY DEF Unwritten
  <2>1. /\ q # p /\ Busy(q) /\ saver'[q].slot = saver[q].slot /\ saver'[q].value = saver[q].value
        /\ saver[q].pc \in {"read", "temp", "create"}
    BY DEF Busy
  <2>2. saver[q].value # saver[p].value
    BY <2>1, SaverFacts
  <2>3. saver[q].slot # saver[p].slot
    BY <2>1, <2>2
  <2>4. saver[q].slot \in DOMAIN reported /\ reported[saver[q].slot] = saver[q].value
    BY <1>1, <2>1, <2>3 DEF Unwritten
  <2> QED BY <1>1, <2>1, <2>3, <2>4
<1> QED BY <1>2, <1>3

\* Renaming the temporary file over the old one keeps the invariant.
LEMMA SaverRenames ==
    ASSUME SecretsInv, NEW p \in Savers, Rename(p)
    PROVE  SecretsInv'
<1>1. SecretsTyped /\ FreshValues /\ Handles /\ Busy(p) /\ saver[p].pc = "temp" /\ Confirmed(p)
  BY DEF SecretsInv, Rename, Busy
<1>2. PICK u \in Texts, n \in Slots, v \in Values \cup {Cut} :
         u = saver[p].text /\ n = saver[p].slot /\ v = saver[p].value
  BY <1>1, SaverFacts
<1>3. PICK file \in Files, b \in BOOLEAN, r \in SaverRecord :
        /\ file = File(u) /\ b = TRUE /\ r = IdleSave /\ r.pc = "idle" /\ r.held
        /\ file.there /\ file.text = u
  BY IdleRecords
<1>4. Becomes(file, b, p, r)
  BY <1>2, <1>3 DEF Rename
<1>5. /\ reported' \in Texts /\ pending' \in [Slots -> SUBSET (Values \cup {Cut})]
      /\ \A q \in Savers \ {p} : Busy(q) => saver[q].value \in pending'[saver[q].slot]
      /\ ~ saver[p].alone => unsure' = Slots
      /\ unsure' \in SUBSET Slots
  BY <1>1, ConfirmedIs
<1>6. /\ saver'[p] = r /\ SaversSee(Savers \ {p})
      /\ (Good(file.text)' /\ Unwritten(file.text)') \/ unsure' = Slots => SecretsInv'
  BY <1>1, <1>3, <1>4, <1>5, SaverWrites
<1>7. ASSUME saver[p].alone PROVE Good(u)' /\ Unwritten(u)'
  <2>1. PICK t \in Texts : Sound(t)
    BY DEF SecretsInv
  <2>2. u = Put(t, n, v) /\ Good(t) /\ Unwritten(t)
    BY <1>1, <1>2, <1>7, <2>1 DEF Sound, SaverReads
  <2>3. /\ DOMAIN u = DOMAIN t \cup {n} /\ u[n] = v
        /\ \A m \in DOMAIN t : m # n => u[m] = t[m]
    <3>1. /\ DOMAIN Put(t, n, v) = DOMAIN t \cup {n} /\ Put(t, n, v)[n] = v
          /\ \A m \in DOMAIN t : m # n => Put(t, n, v)[m] = t[m]
      BY PutIs
    <3> QED BY <2>2, <3>1
  <2>4. \A q \in Savers \ {p} : /\ saver'[q].pc = saver[q].pc /\ saver'[q].slot = saver[q].slot
                                /\ saver'[q].value = saver[q].value
    BY <1>6 DEF SaversSee
  <2> QED BY <1>1, <1>2, <1>3, <1>6, <1>7, <2>2, <2>3, <2>4, ConfirmedIsGood
<1> QED BY <1>3, <1>5, <1>6, <1>7

\* A protected new file is confirmed.
LEMMA NewProtected ==
    ASSUME SecretsInv, NEW p \in Savers, ProtectNew(p)
    PROVE  SecretsInv'
<1>1. /\ SecretsTyped /\ FreshValues /\ Handles /\ Busy(p) /\ saver[p].pc = "written" /\ Confirmed(p)
      /\ UNCHANGED <<secrets, getter>>
  BY DEF SecretsInv, ProtectNew, Busy
<1>2. /\ saver' \in [Savers -> SaverRecord] /\ saver'[p].pc = "idle" /\ saver'[p].held
      /\ \A q \in Savers \ {p} : saver'[q] = saver[q]
  BY <1>1, IdleRecords, SaverMoves DEF ProtectNew, Ends
<1>3. /\ reported' \in Texts /\ pending' \in [Slots -> SUBSET (Values \cup {Cut})]
      /\ DOMAIN reported' = DOMAIN reported \cup {saver[p].slot}
      /\ \A q \in Savers \ {p} : Busy(q) => saver[q].value \in pending'[saver[q].slot]
      /\ unsure' = (IF saver[p].alone THEN unsure \ {saver[p].slot} ELSE Slots)
      /\ unsure' \in SUBSET Slots
  BY <1>1, ConfirmedIs
<1>4. \A q \in Savers : Busy(q)' => q # p /\ Busy(q) /\ saver'[q] = saver[q]
  BY <1>2 DEF Busy
<1>5. SecretsTyped' /\ FreshValues' /\ Handles'
  <2>1. FreshValues'
    BY <1>1, <1>3, <1>4, StaysFresh
  <2>2. \A q \in Savers : Busy(q)' => saver'[q].slot \in Slots /\ saver'[q].value \in Values
    BY <1>1, <1>4 DEF SecretsTyped
  <2>3. SecretsTyped'
    BY <1>1, <1>2, <1>3, <2>2 DEF SecretsTyped
  <2>4. Handles'
    BY <1>1, <1>2 DEF Handles
  <2> QED BY <2>1, <2>3, <2>4
<1>6. PICK t \in Texts : Sound(t)
  BY DEF SecretsInv
<1>7. Content(t)' /\ GetterReads(t)'
  BY <1>1, <1>6 DEF Sound, Content, GetterReads, TornAlone, Reading
<1>8. Lone'
  <2>1. \A q \in Savers : New(q)' => New(q)
    BY <1>2 DEF New
  <2> QED BY <1>1, <1>2, <1>4, <1>6, <2>1 DEF Sound, Lone, TornAlone, Reading
<1>9. SaverReads(t)'
  <2>1. \A q \in Savers : New(q)' => New(q) /\ q # p /\ ~ New(p)
    BY <1>2, <1>6 DEF New, Sound, Lone
  <2>2. \A q \in Savers : New(q)' => DOMAIN reported' \subseteq unsure'
    <3>1. DOMAIN reported' \subseteq Slots
      BY <1>3 DEF Texts
    <3> QED BY <1>1, <1>3, <2>1, <3>1 DEF New
  <2> QED BY <1>2, <1>6, <2>1, <2>2 DEF Sound, SaverReads, New
<1>10. Good(t)' /\ Unwritten(t)'
  <2>1. CASE saver[p].alone
    <3>1. t = saver[p].text
      BY <1>1, <1>6, <2>1 DEF Sound, SaverReads, New
    <3>2. saver[p].slot \in DOMAIN t /\ t[saver[p].slot] = saver[p].value
      BY <1>1, <2>1, <3>1, NewFacts
    <3> QED BY <1>1, <1>2, <1>6, <2>1, <3>2, ConfirmedIsGood DEF Sound
  <2>2. CASE ~ saver[p].alone
    BY <1>3, <1>5, <2>2, UnsureIsGood
  <2> QED BY <2>1, <2>2
<1> QED BY <1>5, <1>6, <1>7, <1>8, <1>9, <1>10 DEF SecretsInv, Sound

-----------------------------------------------------------------------------
(* The steps of a Get.                                                     *)

\* A Get that reads, or ends without a step on the file.
LEMMA GetterSteps ==
    ASSUME SecretsInv, NEW g \in Getters, NEW r \in GetterRecord, getter' = [getter EXCEPT ![g] = r],
           UNCHANGED <<secrets, saver, reported, pending, unsure>>, r.held,
           ~ TornAlone(g),
           \/ r.pc = "idle"
           \/ /\ r.pc = "touch" /\ r.text = secrets.text
              /\ r.alone <=> ~ Torn
    PROVE  SecretsInv'
<1>1. SecretsTyped /\ FreshValues /\ Handles
  BY DEF SecretsInv
<1>2. /\ getter' \in [Getters -> GetterRecord] /\ getter'[g] = r
      /\ \A h \in Getters \ {g} : getter'[h] = getter[h]
  BY <1>1, GetterMoves
<1>3. SecretsTyped' /\ FreshValues' /\ Handles'
  BY <1>1, <1>2 DEF SecretsTyped, Busy, FreshValues, Handles
<1>4. PICK t \in Texts : Sound(t)
  BY DEF SecretsInv
<1>5. \A h \in Getters : TornAlone(h)' <=> TornAlone(h)
  BY <1>2 DEF TornAlone
<1>6. Content(t)'
  BY <1>4, <1>5 DEF Sound, Content
<1>7. Good(t)' /\ SaverReads(t)' /\ Unwritten(t)'
  BY <1>4 DEF Sound, Good, StoredIn, SaverReads, New, Unwritten
<1>8. r.pc = "touch" /\ r.alone =>
        /\ secrets.text = t /\ \A h \in Getters : ~ TornAlone(h)
        /\ \A p \in Savers : ~ (saver[p].pc = "created" /\ saver[p].alone)
  BY <1>1, <1>4 DEF Sound, Content, Torn, TornBy, TornAlone, Handles
<1>9. GetterReads(t)'
  BY <1>2, <1>4, <1>8 DEF Sound, GetterReads, Reading
<1>10. Lone'
  BY <1>2, <1>4, <1>5, <1>8 DEF Sound, Lone, New, Reading, Busy, TornAlone
<1> QED BY <1>3, <1>4, <1>6, <1>7, <1>9, <1>10 DEF SecretsInv, Sound

\* Reading the file, and giving up, keeps the invariant.
LEMMA GetterOutOfFile ==
    ASSUME SecretsInv, NEW g \in Getters,
           \/ Get(g) \/ TouchSkips(g)
           \/ (TouchWrites(g) \/ TouchFails(g)) /\ ~ getter[g].held
    PROVE  SecretsInv'
<1>1. CASE Get(g)
  <2>1. PICK x \in Texts, b \in BOOLEAN : x = secrets.text /\ b = ~ Torn
    BY DEF SecretsInv, SecretsTyped, Files
  <2> DEFINE r == [pc |-> "touch", text |-> x, alone |-> b, held |-> TRUE]
  <2>2. /\ getter' = [getter EXCEPT ![g] = r] /\ ~ TornAlone(g)
        /\ UNCHANGED <<secrets, saver, reported, pending, unsure>>
    BY <1>1, <2>1 DEF Get, TornAlone
  <2>3. r \in GetterRecord /\ r.pc = "touch" /\ r.text = x /\ r.alone = b /\ r.held
    BY DEF GetterRecord
  <2> HIDE DEF r
  <2> QED BY <2>1, <2>2, <2>3, GetterSteps
<1>2. CASE TouchSkips(g)
  BY <1>2, IdleRecords, GetterSteps DEF TouchSkips, TornAlone
<1>3. CASE (TouchWrites(g) \/ TouchFails(g)) /\ ~ getter[g].held
  <2>1. /\ getter' = [getter EXCEPT ![g] = IdleGet]
        /\ UNCHANGED <<secrets, saver, reported, pending, unsure>>
    BY <1>3 DEF TouchWrites, TouchFails, TouchEnds, Unsure
  <2>2. ~ TornAlone(g)
    BY <1>3 DEF SecretsInv, Handles, TornAlone
  <2> QED BY <2>1, <2>2, IdleRecords, GetterSteps
<1> QED BY <1>1, <1>2, <1>3

\* Truncating the file to touch it keeps the invariant.
LEMMA GetterTruncates ==
    ASSUME SecretsInv, NEW g \in Getters, TouchTruncates(g)
    PROVE  SecretsInv'
<1>1. /\ SecretsTyped /\ FreshValues /\ Handles /\ getter[g].pc = "touch" /\ getter[g].held
      /\ UNCHANGED <<reported, pending>> /\ unsure \in SUBSET Slots
  BY DEF SecretsInv, SecretsTyped, TouchTruncates, Handles
<1>2. PICK x \in GetterRecord : x = getter[g]
  BY <1>1 DEF SecretsTyped
<1> DEFINE r == [x EXCEPT !.pc = "torn"]
<1>3. /\ r \in GetterRecord /\ r.pc = "torn" /\ r.text = getter[g].text /\ r.alone = getter[g].alone /\ r.held
  BY <1>1, <1>2 DEF GetterRecord
<1>4. PICK file \in Files : file.there /\ file.text = Nothing /\ Becomes(file, FALSE, g, r)
  BY <1>2, NothingIsText, IdleRecords DEF TouchTruncates
<1> HIDE DEF r
<1>5. unsure' = (IF getter[g].alone THEN unsure ELSE Slots) /\ unsure' \in SUBSET Slots
  BY <1>1 DEF TouchTruncates, Unsure
<1>6. /\ SecretsTyped' /\ FreshValues' /\ Handles' /\ getter'[g] = r
      /\ SaversSee(Savers) /\ GettersSee(Getters \ {g})
      /\ ~ r.alone /\ unsure' = Slots => SecretsInv'
  BY <1>1, <1>3, <1>4, <1>5, GetterWrites
<1>7. ASSUME getter[g].alone PROVE SecretsInv'
  <2>1. PICK t \in Texts : Sound(t)
    BY DEF SecretsInv
  <2>2. unsure' = unsure /\ reported' = reported /\ pending' = pending
    BY <1>1, <1>5, <1>7
  <2>3. getter'[g].text = t /\ getter'[g].pc = "torn" /\ getter'[g].alone
    BY <1>1, <1>3, <1>6, <1>7, <2>1 DEF Sound, GetterReads, Reading
  <2>4. \A q \in Savers : /\ saver'[q].pc = saver[q].pc /\ saver'[q].slot = saver[q].slot
                          /\ saver'[q].value = saver[q].value
                          /\ saver'[q].alone => saver'[q].pc = "idle"
    BY <1>6 DEF SaversSee
  <2>5. \A h \in Getters \ {g} : getter'[h].alone => getter'[h].pc = "idle"
    BY <1>6 DEF GettersSee
  <2>6. Content(t)' /\ GetterReads(t)'
    BY <2>3, <2>5 DEF Content, TornAlone, GetterReads, Reading
  <2>7. Good(t)' /\ Unwritten(t)' /\ SaverReads(t)'
    BY <2>1, <2>2, <2>4 DEF Sound, Good, StoredIn, Unwritten, SaverReads, New
  <2>8. Lone'
    BY <2>3, <2>4, <2>5 DEF Lone, TornAlone, New, Busy, Reading
  <2> QED BY <1>6, <2>6, <2>7, <2>8 DEF SecretsInv, Sound
<1> QED BY <1>3, <1>5, <1>6, <1>7

\* A touch that writes back what it read, or fails to, keeps the invariant.
LEMMA GetterEnds ==
    ASSUME SecretsInv, NEW g \in Getters, getter[g].held, TouchWrites(g) \/ TouchFails(g)
    PROVE  SecretsInv'
<1>1. /\ SecretsTyped /\ FreshValues /\ Handles /\ getter[g].pc = "torn"
      /\ UNCHANGED <<reported, pending>> /\ unsure \in SUBSET Slots
  BY DEF SecretsInv, SecretsTyped, TouchWrites, TouchFails, TouchEnds
<1>2. PICK x \in Texts : x = getter[g].text
  BY <1>1 DEF SecretsTyped, GetterRecord
<1>3. PICK r \in GetterRecord : r = IdleGet /\ r.pc = "idle" /\ r.held
  BY IdleRecords
<1>4. PICK file \in Files :
        /\ file.there /\ Becomes(file, FALSE, g, r)
        /\ \/ TouchWrites(g) /\ file.text = x
           \/ TouchFails(g)
  <2>1. CASE TouchWrites(g)
    BY <1>2, <1>3, <2>1, IdleRecords DEF TouchWrites, TouchEnds
  <2>2. CASE TouchFails(g)
    <3>1. PICK file \in Partials(x) : Becomes(file, FALSE, g, IdleGet)
      BY <1>2, <2>2 DEF TouchFails, TouchEnds
    <3> QED BY <1>3, <2>2, <3>1, PartialIs
  <2> QED BY <2>1, <2>2
<1>5. PICK u \in Texts : u = file.text
  BY DEF Files
<1>6. /\ unsure' \in SUBSET Slots
      /\ TouchFails(g) \/ ~ getter[g].alone => unsure' = Slots
      /\ TouchWrites(g) /\ getter[g].alone => unsure' = unsure
  BY <1>1 DEF TouchFails, TouchWrites, Unsure
<1>7. /\ SaversSee(Savers)
      /\ (Good(file.text)' /\ Unwritten(file.text)') \/ unsure' = Slots => SecretsInv'
  BY <1>1, <1>3, <1>4, <1>6, GetterWrites
<1>8. ASSUME TouchWrites(g), getter[g].alone, file.text = x PROVE Good(u)' /\ Unwritten(u)'
  <2>1. PICK t \in Texts : Sound(t)
    BY DEF SecretsInv
  <2>2. u = t
    BY <1>1, <1>2, <1>5, <1>8, <2>1 DEF Sound, GetterReads, Reading
  <2>3. unsure' = unsure /\ reported' = reported /\ pending' = pending
    BY <1>1, <1>6, <1>8
  <2>4. Good(t)' /\ Unwritten(t)'
    BY <1>7, <2>1, <2>3 DEF Sound, Good, StoredIn, Unwritten, SaversSee
  <2> QED BY <2>2, <2>4
<1> QED BY <1>4, <1>5, <1>6, <1>7, <1>8

-----------------------------------------------------------------------------
\* Every step keeps the invariant.
LEMMA SecretsKept ==
    ASSUME SecretsInv, [SecretsNext]_secretVars
    PROVE  SecretsInv'
<1>1. CASE UNCHANGED secretVars
  BY <1>1 DEF secretVars, SecretsInv, SecretsTyped, FreshValues, Handles, Sound, Content, Good, StoredIn,
     SaverReads, GetterReads, Lone, TornAlone, New, Unwritten, Busy, Reading
<1>2. ASSUME NEW p \in Savers, \/ ReadEntries(p) \/ Stat(p) \/ CreateNew(p) \/ WriteNew(p)
                               \/ WriteNewFails(p) \/ ProtectNew(p) \/ RemoveNew(p)
                               \/ Rename(p) \/ SaveFails(p) \/ SaverDies(p)
      PROVE  SecretsInv'
  <2>1. CASE ReadEntries(p) \/ CreateNew(p) \/ ProtectNew(p) \/ Rename(p)
    BY <2>1, SaverBegins, NewCreated, NewProtected, SaverRenames
  <2>2. CASE Stat(p) \/ SaveFails(p) \/ SaverDies(p)
    BY <2>2, SaverOutOfFile
  <2>3. CASE WriteNew(p) \/ WriteNewFails(p)
    BY <2>3, NewEnds, SaverOutOfFile
  <2>4. CASE RemoveNew(p)
    BY <2>4, NewRemoved, SaverOutOfFile DEF RemoveNew
  <2> QED BY <1>2, <2>1, <2>2, <2>3, <2>4
<1>3. ASSUME NEW g \in Getters,
             Get(g) \/ TouchTruncates(g) \/ TouchWrites(g) \/ TouchFails(g) \/ TouchSkips(g)
      PROVE  SecretsInv'
  BY <1>3, GetterOutOfFile, GetterTruncates, GetterEnds
<1> QED BY <1>1, <1>2, <1>3 DEF SecretsNext

\* A Save leaves both credentials as the last Saves that succeeded stored them,
\* or as a Save that never reported has, whatever step of whichever Save fails
\* or is the last of its process (secret.go:147), for any number of Saves, Gets
\* and credentials.  Not of a slot, until it is saved anew, after two calls whose
\* reads and writes overlapped or after a Get whose rewrite of the file failed or
\* died half-way: the latter alone loses both.
THEOREM SavesAreAtomic == SecretsSpec => []SaveIsAtomic
<1>1. SecretsInit => SecretsInv
  BY SecretsStart
<1>2. SecretsInv /\ [SecretsNext]_secretVars => SecretsInv'
  BY SecretsKept
<1>3. SecretsInv => SaveIsAtomic
  <2> SUFFICES ASSUME SecretsInv, ~ Torn PROVE SaveIsAtomic
    BY DEF SaveIsAtomic
  <2>1. PICK t \in Texts : Sound(t)
    BY DEF SecretsInv
  <2>2. \A g \in Getters : ~ TornAlone(g)
    BY DEF SecretsInv, Handles, Torn, TornBy, TornAlone
  <2>3. secrets.text = t /\ Good(t)
    BY <2>1, <2>2 DEF Sound, Content
  <2> QED BY <2>3 DEF Good, StoredIn, SaveIsAtomic
<1> QED BY <1>1, <1>2, <1>3, PTL DEF SecretsSpec

-----------------------------------------------------------------------------
(* The schema.  An Open that has the file to itself brings it to the       *)
(* current version.  The invariant says how far the file is: it has the    *)
(* columns of the migrations up to its version and of none after it, and   *)
(* the one Open that is under way has read that version.                   *)

\* A file is empty, or it fits version v: nothing in it but the schema, the
\* columns of migrations 1 to v, and what a migration after v will drop.
Fits(v, obj) ==
    /\ \A n \in 1..v : Migrations[n].columns \subseteq obj
    /\ \A n \in (v + 1)..Latest : Migrations[n].columns \cap obj = {}
    /\ \A x \in obj : \/ x \in Range(Schema)
                      \/ \E n \in 1..v : x \in Migrations[n].columns
                      \/ \E n \in (v + 1)..Latest : x \in Migrations[n].drops

FileOK(v, obj) ==
    obj = {} \/ ("events" \in obj /\ (v <= Latest => Fits(v, obj)))

\* The file after one statement, and after one migration.
Executed(obj, new) ==
    obj \cup {new} \cup (IF new = "events" /\ new \notin obj THEN Columns(Later(0)) ELSE {})

Migrated(obj, m) == (obj \cup m.columns \cup m.ensures) \ m.drops

\* What an Open that stands at op knows of the file.
Knows(op, v, obj) ==
    /\ op.pc = "stamp" => obj = {}
    /\ op.pc = "exec" =>
          /\ op.at \in 0..Len(Schema) /\ \A i \in 1..op.at : Schema[i] \in obj
          /\ obj = {} => v = Latest
    /\ op.pc = "migrate" =>
          /\ op.at = v /\ Range(Schema) \subseteq obj
    /\ op.pc = "ready" =>
          /\ v = Latest /\ Range(Schema) \subseteq obj
    /\ op.pc # "failed"

Parts == {"closed", "stamp", "exec", "migrate", "ready", "refused", "failed"}

OpenTyped ==
    /\ version \in 0..(Latest + 1)
    /\ opens \in [Openers -> [pc : Parts, at : Int, fresh : BOOLEAN]]

OneOpenAtATime == \A o, p \in Openers : UnderWay(o) /\ UnderWay(p) => o = p

OpenInv ==
    /\ OpenTyped
    /\ OneOpenAtATime
    /\ FileOK(version, objects)
    /\ \A o \in Openers : Knows(opens[o], version, objects)

-----------------------------------------------------------------------------
(* The schema and the migrations. *)

(* What the assumption says of one migration, or of two.                   *)
LEMMA MigrationFacts ==
    /\ Latest \in Nat
    /\ Len(Schema) \in Nat /\ Len(Schema) >= 1 /\ Schema[1] = "events"
    /\ \A i \in 1..Len(Schema) : Schema[i] \in Range(Schema)
    /\ \A x \in Range(Schema) : \E i \in 1..Len(Schema) : x = Schema[i]
    /\ \A n \in 1..Latest :
          /\ Migrations[n].ensures \subseteq Range(Schema) \ {"events"}
          /\ Migrations[n].columns \cap Range(Schema) = {}
          /\ Migrations[n].drops \cap Range(Schema) = {}
          /\ \A k \in 1..Latest : Migrations[n].drops \cap Migrations[k].columns = {}
          /\ \A k \in 1..Latest :
                n # k => Migrations[n].columns \cap Migrations[k].columns = {}
  <1>1. /\ Schema \in Seq(STRING) /\ Schema # <<>>
        /\ Migrations \in Seq([columns : SUBSET STRING, ensures : SUBSET STRING, drops : SUBSET STRING])
    BY SchemaAssumption
  <1>2. /\ Len(Schema) \in Nat /\ DOMAIN Schema = 1..Len(Schema)
        /\ Latest \in Nat /\ DOMAIN Migrations = 1..Latest
    BY <1>1 DEF Latest
  <1>3. Len(Schema) >= 1
    BY <1>1, <1>2
  <1>4. Schema[1] = "events"
    BY SchemaAssumption
  <1>5. /\ \A i \in 1..Len(Schema) : Schema[i] \in Range(Schema)
        /\ \A x \in Range(Schema) : \E i \in 1..Len(Schema) : x = Schema[i]
        /\ \A n \in 1..Latest : Migrations[n] \in Range(Migrations)
    BY <1>2 DEF Range
  <1>6. ASSUME NEW n \in 1..Latest
        PROVE  /\ Migrations[n].ensures \subseteq Range(Schema) \ {"events"}
               /\ Migrations[n].columns \cap Range(Schema) = {}
               /\ Migrations[n].drops \cap Range(Schema) = {}
    BY <1>5, SchemaAssumption
  <1>7. ASSUME NEW n \in 1..Latest, NEW k \in 1..Latest
        PROVE  /\ Migrations[n].drops \cap Migrations[k].columns = {}
               /\ n # k => Migrations[n].columns \cap Migrations[k].columns = {}
    BY <1>2, <1>5, SchemaAssumption
  <1> QED BY <1>2, <1>3, <1>4, <1>5, <1>6, <1>7

(* The unions over the migrations after v, member by member.               *)
LEMMA LaterFacts ==
    ASSUME NEW v \in Nat
    PROVE  /\ \A x : x \in Columns(Later(v)) <=> \E n \in (v + 1)..Latest : x \in Migrations[n].columns
           /\ \A x : x \in Ensured(Later(v)) <=> \E n \in (v + 1)..Latest : x \in Migrations[n].ensures
           /\ \A x : x \in Dropped(Later(v)) <=> \E n \in (v + 1)..Latest : x \in Migrations[n].drops
  BY DEF Columns, Ensured, Dropped, Later

(* A file that fits the latest version and has the whole schema has what   *)
(* SchemaAlwaysOpens asks for.                                             *)
LEMMA FitsLatest ==
    ASSUME NEW obj, Fits(Latest, obj), Range(Schema) \subseteq obj
    PROVE  obj = (Range(Schema) \cup Columns(Later(0))) \ Dropped(Later(0))
  <1>1. \A x : /\ x \in Columns(Later(0)) <=> \E n \in 1..Latest : x \in Migrations[n].columns
               /\ x \in Dropped(Later(0)) <=> \E n \in 1..Latest : x \in Migrations[n].drops
    <2>1. 0 \in Nat /\ 0 + 1 = 1
      OBVIOUS
    <2> QED BY <2>1, LaterFacts
  <1>2. (Latest + 1)..Latest = {}
    BY MigrationFacts
  <1>3. ASSUME NEW x \in obj
        PROVE  /\ x \in Range(Schema) \cup Columns(Later(0))
               /\ x \notin Dropped(Later(0))
    <2>1. x \in Range(Schema) \/ \E n \in 1..Latest : x \in Migrations[n].columns
      BY <1>2 DEF Fits
    <2>2. \A n \in 1..Latest : x \notin Migrations[n].drops
      BY <2>1, MigrationFacts
    <2> QED BY <1>1, <2>1, <2>2
  <1>4. ASSUME NEW x \in Range(Schema) \cup Columns(Later(0))
        PROVE  x \in obj
    BY <1>1 DEF Fits
  <1> QED BY <1>3, <1>4

-----------------------------------------------------------------------------
(* The file at the start, and the steps that write it. *)

(* A file that some binary left fits its version.                          *)
LEMMA LeftFileOK ==
    ASSUME NEW v \in 0..(Latest + 1), NEW k \in 0..Len(Schema)
    PROVE  FileOK(v, CreatedBy(v, k))
  <1> DEFINE obj == CreatedBy(v, k)
  <1>1. CASE k = 0
    BY <1>1 DEF FileOK, CreatedBy
  <1>2. CASE k # 0
    <2>0. Latest \in Nat /\ Len(Schema) \in Nat /\ v \in Nat /\ 0 + 1 = 1 /\ 1 \in 1..k
      BY <1>2, MigrationFacts
    <2>1. \A x : x \in obj <=>
             /\ \/ \E i \in 1..k : x = Schema[i]
                \/ \E n \in 1..Latest : x \in Migrations[n].columns
                \/ \E n \in (v + 1)..Latest : x \in Migrations[n].drops
             /\ \A n \in (v + 1)..Latest : x \notin Migrations[n].columns /\ x \notin Migrations[n].ensures
      <3>1. obj = ({Schema[i] : i \in 1..k} \cup Columns(Later(0)) \cup Dropped(Later(v)))
                    \ (Columns(Later(v)) \cup Ensured(Later(v)))
        BY <1>2 DEF CreatedBy
      <3>2. \A x : x \in Columns(Later(0)) <=> \E n \in 1..Latest : x \in Migrations[n].columns
        BY <2>0, LaterFacts
      <3> HIDE DEF obj
      <3> QED BY <3>1, <3>2, <2>0, LaterFacts
    <2> HIDE DEF obj
    <2>2. \A n \in (v + 1)..Latest : n \in 1..Latest
      BY <2>0
    <2>3. "events" \in obj
      BY <2>0, <2>1, <2>2, MigrationFacts
    <2>4. ASSUME v <= Latest
          PROVE  Fits(v, obj)
      <3>1. \A n \in 1..v : n \in 1..Latest /\ n \notin (v + 1)..Latest
        BY <2>0, <2>4
      <3>2. ASSUME NEW n \in 1..v, NEW x \in Migrations[n].columns
            PROVE  x \in obj
        <4>1. n \in 1..Latest /\ x \notin Range(Schema)
          BY <3>1, MigrationFacts
        <4>2. \A k2 \in (v + 1)..Latest : x \notin Migrations[k2].columns /\ x \notin Migrations[k2].ensures
          BY <4>1, <3>1, <2>2, MigrationFacts
        <4> QED BY <4>1, <4>2, <2>1
      <3>3. ASSUME NEW n \in (v + 1)..Latest
            PROVE  Migrations[n].columns \cap obj = {}
        BY <2>1
      <3>4. ASSUME NEW x \in obj
            PROVE  \/ x \in Range(Schema)
                   \/ \E n \in 1..v : x \in Migrations[n].columns
                   \/ \E n \in (v + 1)..Latest : x \in Migrations[n].drops
        <4>1. \A i \in 1..k : i \in 1..Len(Schema)
          BY <2>0
        <4>2. \A n \in 1..Latest : n \in 1..v \/ n \in (v + 1)..Latest
          BY <2>0
        <4> QED BY <4>1, <4>2, <2>1, MigrationFacts
      <3> QED BY <3>2, <3>3, <3>4 DEF Fits
    <2> QED BY <2>3, <2>4 DEF FileOK, obj
  <1> QED BY <1>1, <1>2

(* A statement of schema.sql keeps what the file was.                      *)
LEMMA StatementKeeps ==
    ASSUME NEW v \in 0..(Latest + 1), NEW obj, FileOK(v, obj),
           NEW at \in 0..(Len(Schema) - 1), \A i \in 1..at : Schema[i] \in obj,
           obj = {} => v = Latest
    PROVE  LET obj2 == Executed(obj, Schema[at + 1])
           IN  FileOK(v, obj2) /\ obj \subseteq obj2 /\ \A i \in 1..(at + 1) : Schema[i] \in obj2
  <1> DEFINE new == Schema[at + 1]
             obj2 == Executed(obj, new)
  <1>e. obj2 = obj \cup {new} \cup (IF new = "events" /\ new \notin obj THEN Columns(Later(0)) ELSE {})
    BY DEF Executed
  <1>0. Latest \in Nat /\ Len(Schema) \in Nat /\ v \in Nat /\ at \in Nat /\ at + 1 \in 1..Len(Schema) /\ 0 + 1 = 1
    BY MigrationFacts
  <1>1. obj \subseteq obj2 /\ new \in obj2 /\ new \in Range(Schema)
    BY <1>0, <1>e, MigrationFacts
  <1>2. \A i \in 1..(at + 1) : Schema[i] \in obj2
    <2>1. \A i \in 1..(at + 1) : i \in 1..at \/ i = at + 1
      BY <1>0
    <2> QED BY <2>1, <1>1
  <1> HIDE DEF obj2
  <1>3. ASSUME obj = {} PROVE FileOK(v, obj2)
    <2>1. at = 0
      <3>1. at # 0 => 1 \in 1..at
        BY <1>0
      <3> QED BY <3>1, <1>3
    <2>2. new = "events" /\ v = Latest
      BY <2>1, <1>3, <1>0, MigrationFacts
    <2>3. \A x : x \in obj2 <=> x = "events" \/ \E n \in 1..Latest : x \in Migrations[n].columns
      <3>1. \A x : x \in Columns(Later(0)) <=> \E n \in 1..Latest : x \in Migrations[n].columns
        BY <1>0, LaterFacts
      <3> QED BY <3>1, <2>2, <1>3, <1>e
    <2>4. (Latest + 1)..Latest = {}
      BY <1>0
    <2>5. Fits(Latest, obj2)
      BY <2>2, <2>3, <2>4, <1>1 DEF Fits
    <2> QED BY <2>2, <2>5, <1>1 DEF FileOK
  <1>4. ASSUME obj # {} PROVE FileOK(v, obj2)
    <2>1. "events" \in obj /\ (v <= Latest => Fits(v, obj))
      BY <1>4 DEF FileOK
    <2>2. obj2 = obj \cup {new}
      BY <2>1, <1>e
    <2>3. \A n \in (v + 1)..Latest : n \in 1..Latest
      BY <1>0
    <2>4. ASSUME v <= Latest
          PROVE  Fits(v, obj2)
      <3>1. Fits(v, obj)
        BY <2>1, <2>4
      <3>2. \A n \in 1..v : Migrations[n].columns \subseteq obj2
        BY <3>1, <2>2 DEF Fits
      <3>3. \A n \in (v + 1)..Latest : Migrations[n].columns \cap obj2 = {}
        BY <3>1, <2>2, <2>3, <1>1, MigrationFacts DEF Fits
      <3>4. \A x \in obj2 : x \in obj \/ x \in Range(Schema)
        BY <2>2, <1>1
      <3> QED BY <3>1, <3>2, <3>3, <3>4 DEF Fits
    <2> QED BY <2>1, <2>4, <1>1 DEF FileOK
  <1> QED BY <1>1, <1>2, <1>3, <1>4 DEF obj2

(* A migration that starts from its own version finds none of its columns, *)
(* and leaves a file that fits the next version.                           *)
LEMMA MigrationKeeps ==
    ASSUME NEW v \in 0..(Latest - 1), NEW obj, FileOK(v, obj), Range(Schema) \subseteq obj
    PROVE  /\ Migrations[v + 1].columns \cap obj = {}
           /\ FileOK(v + 1, Migrated(obj, Migrations[v + 1]))
           /\ Range(Schema) \subseteq Migrated(obj, Migrations[v + 1])
  <1> DEFINE obj2 == Migrated(obj, Migrations[v + 1])
  <1>e. obj2 = (obj \cup Migrations[v + 1].columns \cup Migrations[v + 1].ensures)
                 \ Migrations[v + 1].drops
    BY DEF Migrated
  <1> HIDE DEF obj2
  <1>0. /\ Latest \in Nat /\ v \in Nat /\ v + 1 \in 1..Latest /\ v + 1 \in (v + 1)..Latest /\ v <= Latest
        /\ (v + 1) + 1 = v + 2
    BY MigrationFacts
  <1>1. "events" \in Range(Schema)
    <2>1. 1 \in 1..Len(Schema)
      BY MigrationFacts
    <2> QED BY <2>1, MigrationFacts
  <1>2. Fits(v, obj)
    BY <1>0, <1>1 DEF FileOK
  <1>3. Migrations[v + 1].columns \cap obj = {}
    BY <1>0, <1>2 DEF Fits
  <1>4. Range(Schema) \subseteq obj2
    BY <1>0, <1>e, MigrationFacts
  <1>5. \A n \in 1..(v + 1) : n \in 1..Latest /\ (n \in 1..v \/ n = v + 1)
    BY <1>0
  <1>6. \A n \in (v + 2)..Latest : n \in 1..Latest /\ n \in (v + 1)..Latest /\ n # v + 1
    BY <1>0
  <1>7. \A n \in (v + 1)..Latest : n = v + 1 \/ n \in (v + 2)..Latest
    BY <1>0
  <1>8. \A n \in 1..(v + 1) : Migrations[n].columns \subseteq obj2
    <2> SUFFICES ASSUME NEW n \in 1..(v + 1), NEW x \in Migrations[n].columns PROVE x \in obj2
      OBVIOUS
    <2>1. x \notin Migrations[v + 1].drops
      BY <1>0, <1>5, MigrationFacts
    <2>2. x \in obj \cup Migrations[v + 1].columns
      BY <1>2, <1>5 DEF Fits
    <2> QED BY <2>1, <2>2, <1>e
  <1>9. \A n \in (v + 2)..Latest : Migrations[n].columns \cap obj2 = {}
    <2> SUFFICES ASSUME NEW n \in (v + 2)..Latest, NEW x \in Migrations[n].columns
                 PROVE  x \notin obj \cup Migrations[v + 1].columns \cup Migrations[v + 1].ensures
      BY <1>e
    <2>1. x \notin obj
      BY <1>2, <1>6 DEF Fits
    <2>2. x \notin Migrations[v + 1].columns
      BY <1>0, <1>6, MigrationFacts
    <2>3. x \notin Migrations[v + 1].ensures
      BY <1>0, <1>6, MigrationFacts
    <2> QED BY <2>1, <2>2, <2>3
  <1>10. ASSUME NEW x \in obj2
         PROVE  \/ x \in Range(Schema)
                \/ \E n \in 1..(v + 1) : x \in Migrations[n].columns
                \/ \E n \in (v + 2)..Latest : x \in Migrations[n].drops
    <2>1. x \notin Migrations[v + 1].drops
      BY <1>e
    <2>2. \A n \in 1..v : n \in 1..(v + 1)
      BY <1>0
    <2>3. CASE x \in obj
      BY <2>1, <2>2, <2>3, <1>2, <1>7 DEF Fits
    <2>4. CASE x \in Migrations[v + 1].columns
      <3>1. v + 1 \in 1..(v + 1)
        BY <1>0
      <3> QED BY <3>1, <2>4
    <2>5. CASE x \in Migrations[v + 1].ensures
      BY <2>5, <1>0, MigrationFacts
    <2> QED BY <2>3, <2>4, <2>5, <1>e
  <1>11. Fits(v + 1, obj2)
    BY <1>0, <1>8, <1>9, <1>10 DEF Fits
  <1> QED BY <1>1, <1>3, <1>4, <1>11 DEF FileOK, obj2

-----------------------------------------------------------------------------
(* The inductive invariant. *)

\* The first Open starts so.
LEMMA InitOpens == ASSUME OpenInit PROVE OpenInv
  <1>1. opens = [o \in Openers |-> [pc |-> "closed", at |-> 0, fresh |-> FALSE]]
    BY DEF OpenInit, Closed
  <1>2. OpenTyped
    <2>1. [pc |-> "closed", at |-> 0, fresh |-> FALSE] \in [pc : Parts, at : Int, fresh : BOOLEAN]
      BY DEF Parts
    <2>2. opens \in [Openers -> [pc : Parts, at : Int, fresh : BOOLEAN]]
      BY <1>1, <2>1
    <2> QED BY <2>2 DEF OpenInit, OpenTyped
  <1>3. OneOpenAtATime
    BY <1>1 DEF OneOpenAtATime, UnderWay
  <1>4. FileOK(version, objects)
    BY LeftFileOK DEF OpenInit
  <1>5. \A o \in Openers : Knows(opens[o], version, objects)
    BY <1>1 DEF Knows
  <1> QED BY <1>2, <1>3, <1>4, <1>5 DEF OpenInv

(* A step of o that leaves the file alone keeps the invariant when it      *)
(* leaves o knowing what its new part needs, and starts nothing new.       *)
LEMMA Moves ==
    ASSUME OpenInv, NEW o \in Openers,
           NEW pc \in Parts, NEW at \in Int, NEW fresh \in BOOLEAN,
           opens' = [opens EXCEPT ![o] = [pc |-> pc, at |-> at, fresh |-> fresh]],
           UNCHANGED <<version, objects>>,
           \/ pc \in {"closed", "ready", "refused"}
           \/ UnderWay(o)
           \/ \A p \in Openers : ~UnderWay(p),
           Knows([pc |-> pc, at |-> at, fresh |-> fresh], version, objects)
    PROVE  OpenInv'
  <1>1. /\ opens'[o] = [pc |-> pc, at |-> at, fresh |-> fresh]
        /\ \A p \in Openers : p # o => opens'[p] = opens[p]
    BY DEF OpenInv, OpenTyped
  <1>2. OpenTyped'
    BY DEF OpenInv, OpenTyped
  <1>3. OneOpenAtATime'
    BY <1>1 DEF OpenInv, OneOpenAtATime, UnderWay
  <1>4. FileOK(version, objects)'
    BY DEF OpenInv
  <1>5. (\A p \in Openers : Knows(opens[p], version, objects))'
    BY <1>1 DEF OpenInv
  <1> QED BY <1>2, <1>3, <1>4, <1>5 DEF OpenInv

(* The steps that write the file: nobody else is under way, and a process  *)
(* that is ready still finds all it needs.                                 *)
LEMMA Writes ==
    ASSUME OpenInv, NEW o \in Openers, UnderWay(o),
           NEW pc \in Parts, NEW at \in Int, NEW fresh \in BOOLEAN,
           opens' = [opens EXCEPT ![o] = [pc |-> pc, at |-> at, fresh |-> fresh]],
           version' \in 0..(Latest + 1), FileOK(version', objects'),
           Knows([pc |-> pc, at |-> at, fresh |-> fresh], version', objects'),
           \A p \in Openers : opens[p].pc = "ready" =>
               version' = Latest /\ Range(Schema) \subseteq objects'
    PROVE  OpenInv'
  <1>1. /\ opens'[o] = [pc |-> pc, at |-> at, fresh |-> fresh]
        /\ \A p \in Openers : p # o => opens'[p] = opens[p]
    BY DEF OpenInv, OpenTyped
  <1>2. OpenTyped'
    BY DEF OpenInv, OpenTyped
  <1>3. OneOpenAtATime'
    BY <1>1 DEF OpenInv, OneOpenAtATime, UnderWay
  <1>4. ASSUME NEW p \in Openers, p # o
        PROVE  Knows(opens'[p], version', objects')
    <2>1. ~UnderWay(p)
      BY <1>4 DEF OpenInv, OneOpenAtATime
    <2>2. opens[p].pc # "failed"
      BY DEF OpenInv, Knows
    <2> QED BY <2>1, <2>2, <1>1, <1>4 DEF UnderWay, Knows
  <1>5. (\A p \in Openers : Knows(opens[p], version, objects))'
    BY <1>1, <1>4
  <1> QED BY <1>2, <1>3, <1>5 DEF OpenInv

\* Without a second Open under way, every step keeps the invariant.
LEMMA StepOpens == ASSUME ~Overlap, OpenInv, [OpenNext]_openVars PROVE OpenInv'
  <1>1. CASE UNCHANGED openVars
    BY <1>1 DEF openVars, OpenInv, OpenTyped, OneOpenAtATime, UnderWay
  <1>2. ASSUME NEW o \in Openers,
               \/ Probe(o) \/ Stamp(o) \/ Exec(o) \/ ReadVersion(o)
               \/ Refuse(o) \/ Migrate(o) \/ Opened(o) \/ Closes(o)
        PROVE  OpenInv'
    <2>0. /\ opens[o] \in [pc : Parts, at : Int, fresh : BOOLEAN]
          /\ version \in 0..(Latest + 1) /\ Latest \in Nat /\ Len(Schema) \in Nat
          /\ FileOK(version, objects) /\ Knows(opens[o], version, objects)
          /\ \A p \in Openers : opens[p].pc = "ready" => version = Latest /\ Range(Schema) \subseteq objects
      BY MigrationFacts DEF OpenInv, OpenTyped, Knows
    <2>g. ASSUME NEW pc, NEW at, Goes(o, pc, at)
          PROVE  opens' = [opens EXCEPT ![o] = [pc |-> pc, at |-> at, fresh |-> opens[o].fresh]]
      <3> DEFINE half == [opens EXCEPT ![o].pc = pc]
      <3>1. opens \in [Openers -> [pc : Parts, at : Int, fresh : BOOLEAN]]
        BY DEF OpenInv, OpenTyped
      <3>2. half[o] = [pc |-> pc, at |-> opens[o].at, fresh |-> opens[o].fresh]
        BY <3>1
      <3>3. DOMAIN half = Openers /\ \A p \in Openers : p # o => half[p] = opens[p]
        BY <3>1
      <3>4. opens' = [half EXCEPT ![o].at = at]
        BY <2>g DEF Goes
      <3> HIDE DEF half
      <3>5. /\ DOMAIN opens' = Openers /\ opens' = [p \in Openers |-> opens'[p]]
            /\ opens'[o] = [half[o] EXCEPT !.at = at]
            /\ \A p \in Openers : p # o => opens'[p] = opens[p]
        BY <3>3, <3>4
      <3>6. opens'[o] = [pc |-> pc, at |-> at, fresh |-> opens[o].fresh]
        BY <3>2, <3>5
      <3> QED BY <3>1, <3>5, <3>6
    <2>1. CASE Probe(o)
      <3> DEFINE fresh == "events" \notin objects
                 pc == StampFirst("probe", fresh)
      <3>1. /\ opens' = [opens EXCEPT ![o] = [pc |-> pc, at |-> 0, fresh |-> fresh]]
            /\ UNCHANGED <<version, objects>> /\ \A p \in Openers : ~UnderWay(p)
        BY <2>1 DEF Probe
      <3>2. fresh \in BOOLEAN /\ pc = (IF fresh THEN "stamp" ELSE "exec") /\ pc \in Parts
        BY DEF StampFirst, Parts
      <3>3. fresh => objects = {}
        BY <2>0 DEF FileOK
      <3>4. \A i \in 1..0 : FALSE
        OBVIOUS
      <3>5. Knows([pc |-> pc, at |-> 0, fresh |-> fresh], version, objects)
        BY <2>0, <3>2, <3>3, <3>4 DEF Knows
      <3> HIDE DEF fresh, pc
      <3>6. pc \in Parts /\ fresh \in BOOLEAN /\ 0 \in Int
        BY <3>2
      <3> QED BY <3>1, <3>5, <3>6, Moves
    <2>2. CASE Stamp(o)
      <3>1. /\ opens' = [opens EXCEPT ![o] = [pc |-> "exec", at |-> 0, fresh |-> opens[o].fresh]]
            /\ opens[o].pc = "stamp" /\ version' = Latest /\ objects' = objects /\ UnderWay(o)
        BY <2>2, <2>g DEF Stamp, StampFirst, UnderWay
      <3>2. objects = {}
        BY <3>1, <2>0 DEF Knows
      <3>3. \A p \in Openers : opens[p].pc # "ready"
        <4>1. 1 \in 1..Len(Schema)
          BY MigrationFacts
        <4> QED BY <4>1, <3>2, <2>0, MigrationFacts
      <3>4. \A i \in 1..0 : FALSE
        OBVIOUS
      <3>5. Knows([pc |-> "exec", at |-> 0, fresh |-> opens[o].fresh], version', objects')
        BY <3>1, <3>4, <2>0 DEF Knows
      <3>6. FileOK(version', objects') /\ version' \in 0..(Latest + 1)
        BY <3>1, <3>2, <2>0 DEF FileOK
      <3>7. "exec" \in Parts /\ 0 \in Int
        BY DEF Parts
      <3> QED BY <3>1, <3>3, <3>5, <3>6, <3>7, <2>0, Writes
    <2>3. CASE Exec(o)
      <3> DEFINE at == opens[o].at
                 new == Schema[at + 1]
      <3>1. /\ opens' = [opens EXCEPT ![o] = [pc |-> "exec", at |-> at + 1, fresh |-> opens[o].fresh]]
            /\ opens[o].pc = "exec" /\ at < Len(Schema) /\ version' = version /\ UnderWay(o)
            /\ objects' = Executed(objects, new)
        BY <2>3, <2>g DEF Exec, Executed, UnderWay
      <3>2. /\ at \in 0..(Len(Schema) - 1) /\ at + 1 \in 0..Len(Schema) /\ at + 1 \in Int
            /\ \A i \in 1..at : Schema[i] \in objects
            /\ objects = {} => version = Latest
        BY <3>1, <2>0 DEF Knows
      <3> HIDE DEF at, new
      <3>3. /\ FileOK(version, objects') /\ objects \subseteq objects'
            /\ \A i \in 1..(at + 1) : Schema[i] \in objects'
        BY <3>1, <3>2, <2>0, StatementKeeps DEF new
      <3>4. Knows([pc |-> "exec", at |-> at + 1, fresh |-> opens[o].fresh], version', objects')
        BY <3>1, <3>2, <3>3 DEF Knows
      <3>5. "exec" \in Parts
        BY DEF Parts
      <3>6. \A p \in Openers : opens[p].pc = "ready" => version' = Latest /\ Range(Schema) \subseteq objects'
        BY <3>1, <3>3, <2>0
      <3> QED BY <3>1, <3>2, <3>3, <3>4, <3>5, <3>6, <2>0, Writes
    <2>4. CASE ReadVersion(o)
      <3>1. /\ opens' = [opens EXCEPT ![o] = [pc |-> "migrate", at |-> version, fresh |-> opens[o].fresh]]
            /\ opens[o].pc = "exec" /\ opens[o].at = Len(Schema) /\ UNCHANGED <<version, objects>>
            /\ UnderWay(o)
        BY <2>4, <2>g DEF ReadVersion, StampFirst, UnderWay
      <3>2. Range(Schema) \subseteq objects
        BY <3>1, <2>0, MigrationFacts DEF Knows
      <3>3. Knows([pc |-> "migrate", at |-> version, fresh |-> opens[o].fresh], version, objects)
        BY <3>2 DEF Knows
      <3>4. "migrate" \in Parts /\ version \in Int
        BY <2>0 DEF Parts
      <3> QED BY <3>1, <3>3, <3>4, <2>0, Moves
    <2>5. CASE Refuse(o)
      <3>1. /\ opens' = [opens EXCEPT ![o] = [pc |-> "refused", at |-> 0, fresh |-> opens[o].fresh]]
            /\ UNCHANGED <<version, objects>>
        BY <2>5, <2>g DEF Refuse
      <3>2. /\ Knows([pc |-> "refused", at |-> 0, fresh |-> opens[o].fresh], version, objects)
            /\ "refused" \in Parts /\ 0 \in Int
        BY DEF Knows, Parts
      <3> QED BY <3>1, <3>2, <2>0, Moves
    <2>6. CASE Migrate(o)
      <3> DEFINE m == Migrations[version + 1]
                 obj2 == Migrated(objects, m)
      <3>1. /\ opens[o].pc = "migrate" /\ opens[o].at = version /\ opens[o].at < Latest
            /\ Range(Schema) \subseteq objects /\ UnderWay(o)
        BY <2>6, <2>0 DEF Migrate, Knows, UnderWay
      <3>2. version \in 0..(Latest - 1) /\ version + 1 \in 0..(Latest + 1) /\ version + 1 \in Int /\ version # Latest
        BY <3>1, <2>0
      <3>3. m.columns \cap objects = {} /\ FileOK(version + 1, obj2) /\ Range(Schema) \subseteq obj2
        BY <3>1, <3>2, <2>0, MigrationKeeps
      <3>4. /\ objects' = obj2 /\ version' = version + 1
            /\ opens' = [opens EXCEPT ![o] = [pc |-> "migrate", at |-> version + 1, fresh |-> opens[o].fresh]]
        BY <2>6, <2>g, <3>1, <3>3 DEF Migrate, Migrated
      <3> HIDE DEF m, obj2
      <3>5. Knows([pc |-> "migrate", at |-> version + 1, fresh |-> opens[o].fresh], version', objects')
        BY <3>3, <3>4 DEF Knows
      <3>6. \A p \in Openers : opens[p].pc # "ready"
        BY <3>2, <2>0
      <3>7. "migrate" \in Parts
        BY DEF Parts
      <3> QED BY <3>1, <3>2, <3>3, <3>4, <3>5, <3>6, <3>7, <2>0, Writes
    <2>7. CASE Opened(o)
      <3>1. /\ opens' = [opens EXCEPT ![o] = [pc |-> "ready", at |-> 0, fresh |-> opens[o].fresh]]
            /\ opens[o].pc = "migrate" /\ opens[o].at = Latest /\ UNCHANGED <<version, objects>>
        BY <2>7, <2>g DEF Opened
      <3>2. /\ Knows([pc |-> "ready", at |-> 0, fresh |-> opens[o].fresh], version, objects)
            /\ "ready" \in Parts /\ 0 \in Int
        BY <3>1, <2>0 DEF Knows, Parts
      <3> QED BY <3>1, <3>2, <2>0, Moves
    <2>8. CASE Closes(o)
      <3>1. /\ opens' = [opens EXCEPT ![o] = [pc |-> "closed", at |-> 0, fresh |-> FALSE]]
            /\ UNCHANGED <<version, objects>>
        BY <2>8 DEF Closes, Closed
      <3>2. /\ Knows([pc |-> "closed", at |-> 0, fresh |-> FALSE], version, objects)
            /\ "closed" \in Parts /\ 0 \in Int
        BY DEF Knows, Parts
      <3> QED BY <3>1, <3>2, Moves
    <2> QED BY <1>2, <2>1, <2>2, <2>3, <2>4, <2>5, <2>6, <2>7, <2>8
  <1> QED BY <1>1, <1>2 DEF OpenNext

\* The invariant implies that an Open succeeds with the whole schema.
LEMMA InvOpens == ASSUME OpenInv PROVE SchemaAlwaysOpens
  <1> SUFFICES ASSUME NEW o \in Openers
               PROVE  /\ opens[o].pc # "failed"
                      /\ opens[o].pc = "ready" =>
                            /\ version = Latest
                            /\ objects = (Range(Schema) \cup Columns(Later(0))) \ Dropped(Later(0))
    BY DEF SchemaAlwaysOpens
  <1>1. opens[o].pc # "failed"
    BY DEF OpenInv, Knows
  <1>2. ASSUME opens[o].pc = "ready"
        PROVE  version = Latest /\ objects = (Range(Schema) \cup Columns(Later(0))) \ Dropped(Later(0))
    <2>1. version = Latest /\ Range(Schema) \subseteq objects
      BY <1>2 DEF OpenInv, Knows
    <2>2. objects # {} /\ Latest <= Latest
      <3>1. 1 \in 1..Len(Schema) /\ Latest <= Latest
        BY MigrationFacts
      <3> QED BY <3>1, <2>1, MigrationFacts
    <2>3. Fits(Latest, objects)
      BY <2>1, <2>2 DEF OpenInv, FileOK
    <2> QED BY <2>1, <2>3, FitsLatest
  <1> QED BY <1>1, <1>2

-----------------------------------------------------------------------------
(* Open (store.go), for every schema and every list of migrations, and     *)
(* whichever binary left the file and wherever it or this one died: with   *)
(* no other Open under way, it never fails on a migration that has landed, *)
(* and it returns with the current version and everything in it.           *)
THEOREM UpgradesAlwaysOpen == ASSUME ~Overlap PROVE OpenSpec => []SchemaAlwaysOpens
  <1>1. OpenInit => OpenInv
    BY InitOpens
  <1>2. OpenInv /\ [OpenNext]_openVars => OpenInv'
    BY StepOpens
  <1>3. OpenInv => SchemaAlwaysOpens
    BY InvOpens
  <1> QED BY <1>1, <1>2, <1>3, PTL DEF OpenSpec
==============================================================================
