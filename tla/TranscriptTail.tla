----------------------------- MODULE TranscriptTail -----------------------------
(***************************************************************************)
(* The tail of Claude Code's transcripts: files that another program       *)
(* appends to, a byte cursor per file in ingest_state, and polls that read *)
(* from the cursor to the last complete line, write one row per request    *)
(* and store the new cursor.  Three polls may run side by side: the        *)
(* scheduler's, the dashboard's trigger, and a command's (`clens ingest`,  *)
(* `ingest --rebuild`, the last pass of `clens rekey`).  Source:           *)
(* src/internal/jsonlogs, src/internal/ingest/scheduler.go,                *)
(* src/internal/cli/ingest.go, the third pass of src/internal/cli/rekey.go.*)
(*                                                                         *)
(* Bytes are counted in lines: an offset is a number of complete lines.    *)
(* A usage value stands for everything a line says of its request.         *)
(***************************************************************************)
EXTENDS Integers, Sequences, FiniteSets

CONSTANTS
    Served,         \* polls of the serve process: the scheduler's "tick" and triggers
    Files,
    Keys,           \* requests
    Keyless,        \* requests whose lines carry neither requestId nor message.id
    Noise,          \* key of a line that names no request: other types, malformed
    Script,         \* Script[f][g]: the lines Claude Code writes to incarnation g of f
    Generations,    \* bound: how often a file is replaced
    Commands,       \* what the command line may be asked to do
    Faults          \* bound: failed store calls and deaths of a process

Usages == Nat \ {0}
Line == [key : Keys \cup {Noise}, usage : Usages]

ASSUME TailAssumption ==
    /\ "tick" \in Served /\ "cli" \notin Served
    /\ IsFiniteSet(Files) /\ IsFiniteSet(Keys)
    /\ Keyless \subseteq Keys
    /\ Noise \notin Keys
    /\ Generations \in Nat
    /\ Script \in [Files -> [0..Generations -> Seq(Line)]]
    /\ Commands \subseteq {"ingest", "rebuild", "rekey"}
    /\ Faults \in Nat

Pollers == Served \cup {"cli"}

VARIABLES
    gen,        \* incarnation of each file
    size,       \* complete lines of it
    partial,    \* the file ends in an unfinished line
    present,    \* FALSE: Claude Code removed the file
    cursor,     \* ingest_state, key "jsonl:<path>", Unseen without an entry
    rows,       \* events: the usage of each request's row, 0 without a row
    minted,     \* events: requests with a row under a "jsonl:" key of an older version
    poll,       \* each poll: where it is, and the locals of tailFile
    command,    \* the command line: what it runs and where it is
    faults,     \* failed calls and deaths so far
    unwritten,  \* auxiliary: requests whose last insert failed
    wiped,      \* auxiliary: requests whose row a rekey deleted, not written since
    reads,      \* auxiliary: the incarnation a cursor counts lines of
    overlap,    \* auxiliary: two polls had the same file in hand
    disturbed   \* auxiliary: something else happened while a command re-read

world == <<gen, size, partial, present>>
store == <<cursor, rows, minted>>
ghost == <<unwritten, wiped, reads, overlap, disturbed>>
vars == <<world, store, poll, command, faults, ghost>>

TextOf(f, g) == Script[f][g]
Text(f) == TextOf(f, gen[f])
MaxLines == UNION {UNION {DOMAIN TextOf(f, g) : g \in 0..Generations} : f \in Files}
Offsets == {0} \cup MaxLines
Unseen == -1

Poll == [pc : {"idle", "walk", "read", "insert", "save"},
         walk : SUBSET Files,       \* files of the walk still to tail
         file : Files,              \* the file in hand
         of : 0..Generations,       \* auxiliary: the incarnation the offset is of
         at : 0..Generations,       \* the incarnation that was read
         off : Offsets,             \* offset the reading starts at
         upto : Offsets,            \* offset the complete lines end at
         todo : SUBSET MaxLines]    \* representatives not yet inserted

AnyFile == CHOOSE f \in Files : TRUE
Resting == [pc |-> "idle", walk |-> {}, file |-> AnyFile, of |-> 0, at |-> 0,
            off |-> 0, upto |-> 0, todo |-> {}]

Command == [pc : {"idle", "check", "delete", "reset", "poll", "done"},
            name : {"ingest", "rebuild", "rekey"},
            left : SUBSET Files]    \* cursors still to reset

NoCommand == [pc |-> "idle", name |-> "ingest", left |-> {}]

TypeOK ==
    /\ gen \in [Files -> 0..Generations]
    /\ size \in [Files -> Offsets]
    /\ partial \in [Files -> BOOLEAN]
    /\ present \in [Files -> BOOLEAN]
    /\ cursor \in [Files -> Offsets \cup {Unseen}]
    /\ rows \in [Keys -> Nat]
    /\ minted \subseteq Keys
    /\ poll \in [Pollers -> Poll]
    /\ command \in Command
    /\ faults \in 0..Faults
    /\ unwritten \subseteq Keys
    /\ wiped \subseteq Keys
    /\ reads \in [Files -> 0..Generations]
    /\ overlap \in BOOLEAN
    /\ disturbed \in BOOLEAN

----------------------------------------------------------------------------
(* The lines of a file. *)

\* The requests named by lines lo+1..hi of incarnation g of f.
Named(f, g, lo, hi) == {TextOf(f, g)[i].key : i \in (lo + 1)..hi} \ {Noise}

\* splitCompleteLines consumes no unfinished line.
CompleteWithTail(f) == size[f] + (IF partial[f] THEN 1 ELSE 0)
Complete(f) == size[f]

\* dedupeAssistantLines: one line of each request, the last of them.
FirstOfEach(f, lo, hi) ==
    {i \in (lo + 1)..hi : /\ Text(f)[i].key # Noise
                          /\ \A j \in (lo + 1)..(i - 1) : Text(f)[j].key # Text(f)[i].key}
LastOfEach(f, lo, hi) ==
    {i \in (lo + 1)..hi : /\ Text(f)[i].key # Noise
                          /\ \A j \in (i + 1)..hi : Text(f)[j].key # Text(f)[i].key}

Recorded(k) == rows[k] # 0 \/ k \in minted

----------------------------------------------------------------------------
(* An installation starts empty, or with transcripts an older version has  *)
(* read to the end; it stored the requests under keys of its own.          *)
Init ==
    /\ gen = [f \in Files |-> 0]
    /\ partial = [f \in Files |-> FALSE]
    /\ present = [f \in Files |-> TRUE]
    /\ \/ /\ size = [f \in Files |-> 0]
          /\ cursor = [f \in Files |-> Unseen]
       \/ /\ size = [f \in Files |-> Len(TextOf(f, 0))]
          /\ cursor = size
    /\ minted = UNION {Named(f, 0, 0, size[f]) : f \in Files}
    /\ rows = [k \in Keys |-> 0]
    /\ poll = [p \in Pollers |-> Resting]
    /\ command = NoCommand
    /\ faults = 0
    /\ unwritten = {} /\ wiped = {}
    /\ reads = gen
    /\ overlap = FALSE /\ disturbed = FALSE

----------------------------------------------------------------------------
(* Claude Code. *)

BeginLine(f) ==
    /\ present[f] /\ ~partial[f] /\ size[f] < Len(Text(f))
    /\ partial' = [partial EXCEPT ![f] = TRUE]
    /\ UNCHANGED <<gen, size, present, store, poll, command, faults, ghost>>

EndLine(f) ==
    /\ present[f] /\ partial[f]
    /\ partial' = [partial EXCEPT ![f] = FALSE]
    /\ size' = [size EXCEPT ![f] = @ + 1]
    /\ UNCHANGED <<gen, present, store, poll, command, faults, ghost>>

\* Rotation: the file starts over.
Replace(f) ==
    /\ present[f] /\ gen[f] < Generations
    /\ gen' = [gen EXCEPT ![f] = @ + 1]
    /\ size' = [size EXCEPT ![f] = 0]
    /\ partial' = [partial EXCEPT ![f] = FALSE]
    /\ disturbed' = TRUE
    /\ UNCHANGED <<present, store, poll, command, faults, unwritten, wiped, reads, overlap>>

Remove(f) ==
    /\ present[f]
    /\ present' = [present EXCEPT ![f] = FALSE]
    /\ disturbed' = TRUE
    /\ UNCHANGED <<gen, size, partial, store, poll, command, faults, unwritten, wiped,
                   reads, overlap>>

----------------------------------------------------------------------------
(* A poll: walk the tree, then tail one file after the other. *)

Set(p, q) == poll' = [poll EXCEPT ![p] = q]
Busy(p) == poll[p].pc # "idle"
InHand(p, f) == poll[p].pc \in {"read", "insert", "save"} /\ poll[p].file = f

\* The walk lists the files that are there.
WalkOnce == [Resting EXCEPT !.pc = "walk",
                            !.walk = {f \in Files : present[f] /\ cursor[f] = Unseen}]
Walk == [Resting EXCEPT !.pc = "walk", !.walk = {f \in Files : present[f]}]

\* The scheduler's loop makes its runs itself, one after the other; the trigger
\* runs beside it, on the goroutine of its request.
StartServed(p) ==
    /\ p \in Served /\ ~Busy(p)
    /\ Set(p, Walk)
    /\ disturbed' = TRUE
    /\ UNCHANGED <<world, store, command, faults, unwritten, wiped, reads, overlap>>

\* A store call fails, or a process dies.
Fault == faults < Faults /\ faults' = faults + 1

\* loadCursor: no entry, or an entry that cannot be read, is offset 0.
Stored(f) == IF cursor[f] = Unseen THEN 0 ELSE cursor[f]

LoadCursor(p, f) ==
    /\ poll[p].pc = "walk" /\ f \in poll[p].walk
    /\ \E off \in {0, Stored(f)} :
        /\ Set(p, [poll[p] EXCEPT !.pc = "read", !.file = f, !.walk = @ \ {f}, !.off = off,
                                  !.of = reads[f]])
        /\ IF off = Stored(f) THEN UNCHANGED faults ELSE Fault
    /\ overlap' = (overlap \/ \E q \in Pollers \ {p} : InHand(q, f))
    /\ UNCHANGED <<world, store, command, unwritten, wiped, reads, disturbed>>

\* A file the walk listed can be gone by now; the walk goes on with the next.
Gone(p) ==
    /\ poll[p].pc = "read" /\ ~present[poll[p].file]
    /\ Set(p, [poll[p] EXCEPT !.pc = "walk"])
    /\ UNCHANGED <<world, store, command, faults, ghost>>

\* A file shorter than its cursor is read from the start.
Offset(f, off) == IF size[f] < off THEN 0 ELSE off

Read(p) ==
    LET f == poll[p].file
        from == Offset(f, poll[p].off)
        upto == Complete(f) IN
    /\ poll[p].pc = "read" /\ present[f]
    /\ Set(p, [poll[p] EXCEPT !.pc = "insert", !.off = from, !.upto = upto, !.at = gen[f],
                              !.of = IF from = 0 THEN gen[f] ELSE @,
                              !.todo = LastOfEach(f, from, size[f])])
    /\ UNCHANGED <<world, store, command, faults, ghost>>

\* Requests are written in the order of their first lines.
FirstLine(p, i) ==
    LET text == TextOf(poll[p].file, poll[p].at) IN
    CHOOSE j \in (poll[p].off + 1)..i :
        /\ text[j].key = text[i].key
        /\ \A h \in (poll[p].off + 1)..(j - 1) : text[h].key # text[i].key

IsNext(p, i) == i \in poll[p].todo /\ \A j \in poll[p].todo : FirstLine(p, i) <= FirstLine(p, j)

\* InsertEvent: a new row, or a merge into the request's row that takes the
\* usage of the later report.
Insert(p, i) ==
    LET line == TextOf(poll[p].file, poll[p].at)[i] IN
    /\ poll[p].pc = "insert" /\ IsNext(p, i)
    /\ rows' = [rows EXCEPT ![line.key] = line.usage]
    /\ unwritten' = unwritten \ {line.key}
    /\ wiped' = wiped \ {line.key}
    /\ Set(p, [poll[p] EXCEPT !.todo = @ \ {i}])
    /\ UNCHANGED <<world, cursor, minted, command, faults, reads, overlap, disturbed>>

\* An insert that fails is counted and skipped.
Skip(p, i) ==
    /\ poll[p].pc = "insert" /\ IsNext(p, i)
    /\ Fault
    /\ unwritten' = unwritten \cup {TextOf(poll[p].file, poll[p].at)[i].key}
    /\ Set(p, [poll[p] EXCEPT !.todo = @ \ {i}])
    /\ UNCHANGED <<world, store, command, wiped, reads, overlap, disturbed>>

\* Sessions are folded here, see CapturePipeline.
Inserted(p) ==
    /\ poll[p].pc = "insert" /\ poll[p].todo = {}
    /\ Set(p, [poll[p] EXCEPT !.pc = "save"])
    /\ UNCHANGED <<world, store, command, faults, ghost>>

Save(p) ==
    LET f == poll[p].file IN
    /\ poll[p].pc = "save"
    /\ Set(p, [poll[p] EXCEPT !.pc = "walk"])
    /\ \/ /\ cursor' = [cursor EXCEPT ![f] = poll[p].upto]
          /\ reads' = [reads EXCEPT ![f] = poll[p].of]
          /\ UNCHANGED faults
       \/ Fault /\ UNCHANGED <<cursor, reads>>
    /\ UNCHANGED <<world, rows, minted, command, unwritten, wiped, overlap, disturbed>>

\* The last file is done.
Finish(p) ==
    /\ poll[p].pc = "walk" /\ poll[p].walk = {}
    /\ Set(p, Resting)
    /\ command' = IF p = "cli" THEN [command EXCEPT !.pc = "done"] ELSE command
    /\ UNCHANGED <<world, store, faults, ghost>>

Step(p) ==
    \/ \E f \in Files : LoadCursor(p, f)
    \/ Gone(p) \/ Read(p)
    \/ \E i \in MaxLines : Insert(p, i) \/ Skip(p, i)
    \/ Inserted(p) \/ Save(p) \/ Finish(p)

----------------------------------------------------------------------------
(* The command line. *)

\* Bound: one command runs to its end, as often as it is killed before.
Ask(name) ==
    /\ command.pc = "idle"
    /\ command' = [pc |-> CASE name = "ingest" -> "poll" [] name = "rebuild" -> "reset"
                            [] name = "rekey" -> "check",
                   name |-> name, left |-> {f \in Files : present[f]}]
    /\ poll' = IF name = "ingest" THEN [poll EXCEPT !["cli"] = Walk] ELSE poll
    /\ disturbed' = \E p \in Served : Busy(p)
    /\ UNCHANGED <<world, store, faults, unwritten, wiped, reads, overlap>>

\* checkRekeyPrecondition: every recorded cursor names a file that is there and
\* at least as long.
Reliable(f) == cursor[f] = Unseen \/ (present[f] /\ cursor[f] <= size[f])

Check ==
    /\ command.pc = "check"
    /\ command' = [command EXCEPT !.pc = IF \A f \in Files : Reliable(f) THEN "delete" ELSE "idle"]
    /\ UNCHANGED <<world, store, poll, faults, ghost>>

\* DeleteJSONLKeyedEvents: every row under a "jsonl:" key.
DeleteAndReset(files) ==
    LET doomed == minted \cup {k \in Keyless : rows[k] # 0} IN
    /\ command.pc = "delete"
    /\ command' = [command EXCEPT !.pc = "reset", !.left = files]
    /\ minted' = {}
    /\ rows' = [k \in Keys |-> IF k \in Keyless THEN 0 ELSE rows[k]]
    /\ wiped' = wiped \cup {k \in doomed : rows'[k] = 0}
    /\ UNCHANGED <<world, cursor, poll, faults, unwritten, reads, overlap, disturbed>>

DeleteOnly == DeleteAndReset({})
Delete == DeleteAndReset({f \in Files : present[f]})

\* resetJSONLCursors: one SetIngestState per file of the walk.
Reset(f) ==
    /\ command.pc = "reset" /\ f \in command.left
    /\ cursor' = [cursor EXCEPT ![f] = 0]
    /\ reads' = [reads EXCEPT ![f] = gen[f]]
    /\ command' = [command EXCEPT !.left = @ \ {f}]
    /\ UNCHANGED <<world, rows, minted, poll, faults, unwritten, wiped, overlap, disturbed>>

Reread ==
    /\ command.pc = "reset" /\ command.left = {}
    /\ command' = [command EXCEPT !.pc = "poll"]
    /\ Set("cli", Walk)
    /\ UNCHANGED <<world, store, faults, ghost>>

\* A store call outside the poll fails, or the command is killed.
Abort ==
    /\ command.pc \notin {"idle", "done"}
    /\ Fault
    /\ command' = NoCommand
    /\ Set("cli", Resting)
    /\ UNCHANGED <<world, store, ghost>>

\* The serve process dies; so does a run whose context is cancelled, since the
\* cursor is saved under the same context as the rows.
Crash ==
    /\ \E p \in Served : Busy(p)
    /\ Fault
    /\ poll' = [p \in Pollers |-> IF p \in Served THEN Resting ELSE poll[p]]
    /\ UNCHANGED <<world, store, command, ghost>>

----------------------------------------------------------------------------
Client == \E f \in Files : BeginLine(f) \/ EndLine(f) \/ Replace(f) \/ Remove(f)

CommandStep ==
    \/ \E name \in Commands : Ask(name)
    \/ Check \/ Delete \/ Reread \/ Abort
    \/ \E f \in Files : Reset(f)

Next ==
    \/ Client
    \/ \E p \in Pollers : StartServed(p) \/ Step(p)
    \/ CommandStep
    \/ Crash

Spec == Init /\ [][Next]_vars

\* The scheduler's ticker keeps firing (scheduler.go:22-45) and a goroutine keeps
\* running; nothing is assumed of Claude Code, the trigger or the command line's
\* user.
FairSpec ==
    /\ Spec
    /\ WF_vars(StartServed("tick"))
    /\ \A p \in Pollers : WF_vars(Step(p))

----------------------------------------------------------------------------
(* Properties. *)

\* What a cursor of the present incarnation has passed.
Passed(f) == IF reads[f] = gen[f] THEN Named(f, gen[f], 0, cursor[f]) ELSE {}

\* A cursor never passes a request that was neither written nor counted as
\* failed: whatever polls, resets, partial lines and faults interleave, and
\* wherever a poll is cut, the next one reads again what the store lacks
\* (jsonlogs.go:287-400).
NothingSkipped == \A f \in Files : \A k \in Passed(f) : Recorded(k) \/ k \in unwritten \cup wiped

\* A request's row holds what the last of its lines behind the cursor said, or
\* what a line past it says, unless two polls had the file in hand
\* (dedup.go:123-127: "the last one seen").
LaterLine(f, k, i) ==
    /\ Text(f)[i].key = k
    /\ \A j \in (i + 1)..cursor[f] : Text(f)[j].key # k

LastLineWins ==
    ~overlap =>
        \A f \in Files : \A k \in Passed(f) \ (unwritten \cup wiped \cup minted) :
            \E i \in DOMAIN Text(f) : LaterLine(f, k, i) /\ rows[k] = Text(f)[i].usage

Restored == \A f \in Files : present[f] => Passed(f) \cap wiped \subseteq unwritten

\* A rebuild or a rekey that nothing disturbed gives back every row it deleted
\* and could read again (rekey.go:91-103, cli/ingest.go:142-158).
RereadRestores ==
    command.pc = "done" /\ command.name # "ingest" /\ ~disturbed => Restored

\* A complete line is written, or its failure counted, by some later poll
\* (scheduler.go:22-45), unless the file goes first.
LineLands ==
    \A f \in Files : \A g \in 0..Generations : \A i \in DOMAIN TextOf(f, g) :
        (gen[f] = g /\ present[f] /\ size[f] >= i) ~>
            \/ gen[f] # g \/ ~present[f] \/ reads[f] # g
            \/ LET k == TextOf(f, g)[i].key IN
               k = Noise \/ Recorded(k) \/ k \in unwritten \cup wiped
=============================================================================
