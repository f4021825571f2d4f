---------------------------- MODULE CapturePipeline ----------------------------
(***************************************************************************)
(* The way of a captured call into the store: the proxy submits it to a    *)
(* bounded sink that never blocks, the consumer collects a batch, and a    *)
(* flush writes each row, runs the session rules and folds the touched     *)
(* sessions.  The transcript tailer writes the same requests into the same *)
(* rows beside it, in its own order.  Source: src/internal/sink,           *)
(* src/internal/consumer, src/internal/session, the tail of                *)
(* src/internal/jsonlogs and the session totals of src/internal/store.     *)
(*                                                                         *)
(* A call stands for its request id.  A row's content is the set of the    *)
(* sources merged into it, and a session's totals are the content and the  *)
(* warnings they were last derived from.                                   *)
(***************************************************************************)
EXTENDS Integers, Sequences, FiniteSets, Functions

CONSTANTS
    Calls,          \* the calls, each with a request id of its own
    Sessions,
    ProxySession,   \* the session the resolver gives a captured call
    TailSession,    \* the session its transcript line names
    Lines,          \* the calls that have a transcript line
    Capacity,       \* of the sink's channel
    BatchSize,
    Retries,        \* waits of the backoff schedule
    StoreFails      \* FALSE: no store call fails unless its context is cancelled

ASSUME PipelineAssumption ==
    /\ IsFiniteSet(Calls) /\ Calls # {}
    /\ ProxySession \in [Calls -> Sessions]
    /\ TailSession \in [Calls -> Sessions]
    /\ Lines \subseteq Calls
    /\ Capacity \in Nat \ {0}
    /\ BatchSize \in Nat \ {0}
    /\ Retries \in Nat
    /\ StoreFails \in BOOLEAN

Sources == {"proxy", "jsonl"}

VARIABLES
    fresh,      \* calls the proxy has not finished yet
    queue,      \* the sink's channel
    dropped,    \* sink: calls refused because the channel was full
    cancelled,  \* the context of serve
    processed,  \* consumer: calls taken from the channel
    failed,     \* consumer: calls whose row was not written
    batch,      \* consumer: calls collected for a flush, or in it
    work,       \* consumer: where it is, and the locals of a flush
    tail,       \* tailer: where it is, and the locals of tailFile
    merged,     \* events: the sources merged into a call's row, {} when absent
    owner,      \* events.session_id
    warned,     \* events that have warnings
    totals,     \* sessions: whether the row exists, what it was derived from
    owed        \* auxiliary: sessions whose fold a writer gave up

sinkVars  == <<fresh, queue, dropped>>
countVars == <<processed, failed>>
storeVars == <<merged, owner, warned, totals, owed>>
vars == <<sinkVars, cancelled, countVars, batch, work, tail, storeVars>>

FlushPCs == {"insert", "warn", "rule", "attach", "upsert", "derive"}

Work == [pc : {"select", "drain", "done"} \cup FlushPCs,
         pos : Nat,               \* the row in hand
         order : Seq(Sessions),   \* sessions touched, in arrival order
         at : Nat,                \* the session in hand
         found : SUBSET Calls,    \* rows the session pass has findings for
         tries : 0..Retries,      \* retries of the store call in hand
         waits : BOOLEAN,         \* its last attempt failed, the backoff timer runs
         last : BOOLEAN]          \* Run returns after this flush

Selecting == [pc |-> "select", pos |-> 1, order |-> <<>>, at |-> 1, found |-> {},
              tries |-> 0, waits |-> FALSE, last |-> FALSE]

TailWork == [pc : {"idle", "insert", "warn", "upsert", "derive"},
             todo : SUBSET Lines,        \* lines not yet inserted
             call : Calls,               \* the line in hand
             order : SUBSET Sessions,    \* sessions to fold
             at : Sessions]              \* the session in hand

AnyCall == CHOOSE c \in Calls : TRUE

Idle == [pc |-> "idle", todo |-> {}, call |-> AnyCall, order |-> {},
         at |-> ProxySession[AnyCall]]

Unknown == [known |-> FALSE, rows |-> [c \in Calls |-> {}], warned |-> {}]

Totals == [known : BOOLEAN, rows : [Calls -> SUBSET Sources], warned : SUBSET Calls]

TypeOK ==
    /\ fresh \subseteq Calls
    /\ queue \in Seq(Calls)
    /\ Len(queue) <= Capacity
    /\ dropped \in Nat
    /\ cancelled \in BOOLEAN
    /\ processed \in Nat
    /\ failed \in Nat
    /\ batch \in Seq(Calls)
    /\ work \in Work
    /\ tail \in TailWork
    /\ merged \in [Calls -> SUBSET Sources]
    /\ owner \in [Calls -> Sessions]
    /\ warned \subseteq Calls
    /\ totals \in [Sessions -> Totals]
    /\ owed \subseteq Sessions

Init ==
    /\ fresh = Calls
    /\ queue = <<>>
    /\ dropped = 0
    /\ cancelled = FALSE
    /\ processed = 0
    /\ failed = 0
    /\ batch = <<>>
    /\ work = Selecting
    /\ tail = Idle
    /\ merged = [c \in Calls |-> {}]
    /\ owner = ProxySession
    /\ warned = {}
    /\ totals = [s \in Sessions |-> Unknown]
    /\ owed = {}

Written == {c \in Calls : "proxy" \in merged[c]}

-----------------------------------------------------------------------------
(* The store. *)

\* reconcileSessionTx: the totals that the events and warnings of s add up to.
Derived(rows, own, warn, s) ==
    [known |-> TRUE,
     rows |-> [c \in Calls |-> IF own[c] = s THEN rows[c] ELSE {}],
     warned |-> {c \in warn : own[c] = s}]

\* InsertEvent: a first write gives the row its session; a collision merges,
\* may attach source_mismatch, and re-derives the row's session, which stays the
\* one it was first written under, in one transaction.
InsertEvent(c, source, session) ==
    IF merged[c] = {}
    THEN /\ merged' = [merged EXCEPT ![c] = {source}]
         /\ owner' = [owner EXCEPT ![c] = session]
         /\ UNCHANGED <<warned, totals, owed>>
    ELSE LET s == owner[c] IN
         \E mismatch \in BOOLEAN :
            /\ merged' = [merged EXCEPT ![c] = @ \cup {source}]
            /\ warned' = IF mismatch THEN warned \cup {c} ELSE warned
            /\ IF totals[s].known
               THEN /\ totals' = [totals EXCEPT ![s] = Derived(merged', owner, warned', s)]
                    /\ owed' = owed \ {s}
               ELSE UNCHANGED <<totals, owed>>
            /\ UNCHANGED owner

UpsertWarnings(c) ==
    /\ warned' = warned \cup {c}
    /\ UNCHANGED <<merged, owner, totals, owed>>

\* UpsertSession leaves the aggregate columns alone.
UpsertSession(s) ==
    /\ totals' = [totals EXCEPT ![s].known = TRUE]
    /\ UNCHANGED <<merged, owner, warned, owed>>

ReconcileSession(s) ==
    /\ totals' = [totals EXCEPT ![s] = Derived(merged, owner, warned, s)]
    /\ owed' = owed \ {s}
    /\ UNCHANGED <<merged, owner, warned>>

\* A fold that is given up leaves its sessions behind.
Owes(S) ==
    /\ owed' = owed \cup S
    /\ UNCHANGED <<merged, owner, warned, totals>>

-----------------------------------------------------------------------------
(* The sink and the context. *)

HasRoom == Len(queue) < Capacity

\* Submit never waits: accepted when the channel has room, else dropped.
Submit(c) ==
    /\ c \in fresh
    /\ fresh' = fresh \ {c}
    /\ IF HasRoom
       THEN queue' = Append(queue, c) /\ UNCHANGED dropped
       ELSE dropped' = dropped + 1 /\ UNCHANGED queue
    /\ UNCHANGED <<cancelled, countVars, batch, work, tail, storeVars>>

Cancel ==
    /\ ~cancelled
    /\ cancelled' = TRUE
    /\ UNCHANGED <<sinkVars, countVars, batch, work, tail, storeVars>>

-----------------------------------------------------------------------------
(* The consumer's loop. *)

Take ==
    /\ queue # <<>>
    /\ batch' = Append(batch, Head(queue))
    /\ queue' = Tail(queue)
    /\ processed' = processed + 1
    /\ UNCHANGED <<fresh, dropped, cancelled, failed, tail, storeVars>>

\* A call from the channel; a full batch is flushed.
Receive ==
    /\ work.pc = "select"
    /\ Take
    /\ work' = IF Len(batch') >= BatchSize THEN [work EXCEPT !.pc = "insert"] ELSE work

\* The flush interval has passed.  (Mutant: only a full batch is flushed.)
QuietFlushesFull(b) == Len(b) >= BatchSize
QuietFlushes(b) == b # <<>>

Quiet ==
    /\ work.pc = "select"
    /\ QuietFlushes(batch)
    /\ work' = [work EXCEPT !.pc = "insert"]
    /\ UNCHANGED <<sinkVars, cancelled, countVars, batch, tail, storeVars>>

Stop ==
    /\ work.pc = "select"
    /\ cancelled
    /\ work' = [work EXCEPT !.pc = "drain"]
    /\ UNCHANGED <<sinkVars, cancelled, countVars, batch, tail, storeVars>>

Drain ==
    /\ work.pc = "drain"
    /\ Take
    /\ UNCHANGED work

\* The channel is empty or the grace period is over: one last flush, and Run
\* returns.
LastFlush == [Selecting EXCEPT !.pc = "insert", !.last = TRUE]
Drained(b) == IF b = <<>> THEN [Selecting EXCEPT !.pc = "done"] ELSE LastFlush

DrainOver ==
    /\ work.pc = "drain"
    /\ work' = Drained(batch)
    /\ UNCHANGED <<sinkVars, cancelled, countVars, batch, tail, storeVars>>

-----------------------------------------------------------------------------
(* The flush. *)

\* The flush goes on as w; the batch is emptied when it is over.
Go(w) ==
    /\ work' = w
    /\ batch' = IF w.pc \in FlushPCs THEN batch ELSE <<>>
    /\ UNCHANGED <<sinkVars, cancelled, processed, tail>>

Over(w) == IF w.last THEN [Selecting EXCEPT !.pc = "done"] ELSE Selecting

\* Phase 3 folds the session in hand, or the flush is over.
FoldFrom(w, i) ==
    IF i > Len(w.order) THEN Over(w)
    ELSE [w EXCEPT !.pc = "upsert", !.at = i, !.tries = 0]

\* Phase 2 runs the session pass, once per session, before every fold.
RuleFrom(w, i) ==
    IF i > Len(w.order) THEN FoldFrom(w, 1)
    ELSE [w EXCEPT !.pc = "rule", !.at = i, !.found = {}, !.tries = 0]

AfterRow(w) ==
    IF w.pos < Len(batch) THEN [w EXCEPT !.pc = "insert", !.pos = @ + 1, !.tries = 0]
    ELSE RuleFrom(w, 1)

\* The session of the written row is folded later, once.  (Mutant: the session
\* the call resolved to.)
TouchResolved(w) ==
    LET s == ProxySession[batch[w.pos]] IN
    IF \E i \in DOMAIN w.order : w.order[i] = s THEN w
    ELSE [w EXCEPT !.order = Append(@, s)]
Touch(w) ==
    LET s == owner[batch[w.pos]] IN
    IF \E i \in DOMAIN w.order : w.order[i] = s THEN w
    ELSE [w EXCEPT !.order = Append(@, s)]

\* A store call succeeds only under a live context; it fails for good under a
\* cancelled one, or because the store says so.
Succeeds == ~cancelled
FailsForGood == cancelled \/ StoreFails

Insert ==
    LET c == batch[work.pos] IN
    /\ work.pc = "insert"
    /\ \/ /\ Succeeds
          /\ InsertEvent(c, "proxy", ProxySession[c])
          /\ Go([work EXCEPT !.pc = "warn", !.tries = 0])
          /\ UNCHANGED failed
       \/ /\ FailsForGood
          /\ failed' = failed + 1
          /\ Go(AfterRow(work))
          /\ UNCHANGED storeVars

\* The row's warnings, if the analyzers have any.
Warn ==
    /\ work.pc = "warn"
    /\ \/ Succeeds /\ UpsertWarnings(batch[work.pos])
       \/ UNCHANGED storeVars
    /\ Go(AfterRow(Touch(work)))
    /\ UNCHANGED failed

\* The session pass reads the session's rows and finds something on some.
Rule ==
    LET rows == {c \in Calls : merged[c] # {} /\ owner[c] = work.order[work.at]} IN
    /\ work.pc = "rule"
    /\ \/ /\ Succeeds
          /\ \E found \in SUBSET rows :
               Go(IF found = {} THEN RuleFrom(work, work.at + 1)
                  ELSE [work EXCEPT !.pc = "attach", !.found = found, !.tries = 0])
       \/ /\ FailsForGood
          /\ Go(RuleFrom(work, work.at + 1))
    /\ UNCHANGED <<failed, storeVars>>

Attach ==
    /\ work.pc = "attach"
    /\ \E c \in work.found :
         /\ \/ Succeeds /\ UpsertWarnings(c)
            \/ FailsForGood /\ UNCHANGED storeVars
         /\ Go(IF work.found = {c} THEN RuleFrom(work, work.at + 1)
               ELSE [work EXCEPT !.found = @ \ {c}, !.tries = 0])
    /\ UNCHANGED failed

\* RecordCall: ensure the session row, then re-derive it.
Ensure ==
    LET s == work.order[work.at] IN
    /\ work.pc = "upsert"
    /\ \/ /\ Succeeds
          /\ UpsertSession(s)
          /\ Go([work EXCEPT !.pc = "derive"])
       \/ /\ FailsForGood
          /\ Owes({s})
          /\ Go(FoldFrom(work, work.at + 1))
    /\ UNCHANGED failed

Rederive ==
    LET s == work.order[work.at] IN
    /\ work.pc = "derive"
    /\ \/ Succeeds /\ ReconcileSession(s)
       \/ FailsForGood /\ Owes({s})
    /\ Go(FoldFrom(work, work.at + 1))
    /\ UNCHANGED failed

\* A transient failure of the store call in hand: a wait begins.
Busy ==
    /\ work.pc \in FlushPCs
    /\ ~work.waits
    /\ StoreFails
    /\ ~cancelled
    /\ work.tries < Retries
    /\ work' = [work EXCEPT !.waits = TRUE]
    /\ UNCHANGED <<sinkVars, cancelled, countVars, batch, tail, storeVars>>

\* The wait is over, and the select may take the timer although the context is
\* cancelled as well.  RecordCall is retried whole.
Retry ==
    /\ work.pc \in FlushPCs
    /\ work.waits
    /\ work.tries < Retries
    /\ work' = [work EXCEPT !.tries = @ + 1, !.waits = FALSE,
                            !.pc = IF @ = "derive" THEN "upsert" ELSE @]
    /\ UNCHANGED <<sinkVars, cancelled, countVars, batch, tail, storeVars>>

\* Rows of the batch that this flush has not written or counted yet.
Untried ==
    IF work.pc = "insert" THEN Len(batch) - work.pos + 1
    ELSE IF work.pc = "warn" THEN Len(batch) - work.pos
    ELSE 0

\* Sessions that the flush has touched and not folded.
Unfolded ==
    IF work.pc \in {"upsert", "derive"}
    THEN {work.order[i] : i \in work.at..Len(work.order)}
    ELSE {work.order[i] : i \in DOMAIN work.order}
            \cup (IF work.pc = "warn" THEN {owner[batch[work.pos]]} ELSE {})

\* Every remaining row of the batch has failed.  (Mutant: the one in hand has.)
FailsOne == IF work.pc = "insert" THEN 1 ELSE 0
FailsRest == Untried

\* A wait ends with the context.  (Mutant: it is slept through.)
SleepsOn == FALSE
CutShort == work.waits /\ cancelled

\* The waits ran out: the call failed again after the last one.
RanOut == ~work.waits /\ StoreFails /\ ~cancelled /\ work.tries = Retries

\* Then, and when a wait is cut short, the rest of the flush makes no store calls.
GiveUp ==
    /\ work.pc \in FlushPCs
    /\ CutShort \/ RanOut
    /\ failed' = failed + FailsRest
    /\ Owes(Unfolded)
    /\ Go(Over(work))

-----------------------------------------------------------------------------
(* The tailer: inserts the lines of a file, then folds the sessions. *)

TailStep(t) ==
    /\ tail' = t
    /\ UNCHANGED <<sinkVars, cancelled, countVars, batch, work>>

Poll(S) ==
    /\ tail.pc = "idle"
    /\ S # {}
    /\ TailStep([tail EXCEPT !.pc = "insert", !.todo = S])
    /\ UNCHANGED storeVars

TailInsert(c) ==
    /\ tail.pc = "insert"
    /\ c \in tail.todo
    /\ \/ /\ Succeeds
          /\ InsertEvent(c, "jsonl", TailSession[c])
          /\ TailStep([tail EXCEPT !.pc = "warn", !.call = c, !.todo = @ \ {c},
                                   !.order = @ \cup {owner'[c]}])
       \/ /\ FailsForGood
          /\ TailStep([tail EXCEPT !.todo = @ \ {c}])
          /\ UNCHANGED storeVars

TailWarn ==
    /\ tail.pc = "warn"
    /\ \/ Succeeds /\ UpsertWarnings(tail.call)
       \/ UNCHANGED storeVars
    /\ TailStep([tail EXCEPT !.pc = "insert"])

\* All lines are in: the next session, or the file is done.
TailFold ==
    /\ tail.pc = "insert"
    /\ tail.todo = {}
    /\ \/ \E s \in tail.order : TailStep([tail EXCEPT !.pc = "upsert", !.at = s])
       \/ tail.order = {} /\ TailStep(Idle)
    /\ UNCHANGED storeVars

TailEnsure ==
    /\ tail.pc = "upsert"
    /\ \/ /\ Succeeds
          /\ UpsertSession(tail.at)
          /\ TailStep([tail EXCEPT !.pc = "derive"])
       \/ /\ FailsForGood
          /\ Owes({tail.at})
          /\ TailStep([tail EXCEPT !.pc = "insert", !.order = @ \ {tail.at}])

TailRederive ==
    /\ tail.pc = "derive"
    /\ \/ Succeeds /\ ReconcileSession(tail.at)
       \/ FailsForGood /\ Owes({tail.at})
    /\ TailStep([tail EXCEPT !.pc = "insert", !.order = @ \ {tail.at}])

-----------------------------------------------------------------------------
Loop == Receive \/ Quiet \/ Stop \/ Drain \/ DrainOver

\* A store call that is not retried any more, for good or for bad.
Attempt == ~work.waits /\ (Insert \/ Warn \/ Rule \/ Attach \/ Ensure \/ Rederive)

FlushStep == Attempt \/ Busy \/ Retry \/ GiveUp

TailerStep == (\E c \in Lines : TailInsert(c)) \/ TailWarn \/ TailFold \/ TailEnsure \/ TailRederive

Next ==
    \/ \E c \in Calls : Submit(c)
    \/ Cancel
    \/ Loop
    \/ FlushStep
    \/ \E S \in SUBSET Lines : Poll(S)
    \/ TailerStep

Spec == Init /\ [][Next]_vars

\* The steps of the consumer that wait for no timer: neither that of the quiet
\* flush nor that of the backoff.
Prompt == Receive \/ Stop \/ Drain \/ DrainOver \/ Attempt \/ Busy \/ GiveUp

\* The consumer's goroutine keeps running; whether the two timers fire is left
\* to the property that needs them.
PromptSpec == Spec /\ WF_vars(Prompt)

-----------------------------------------------------------------------------
(* Properties. *)

\* Every call is accounted for: dropped, queued, or taken; and what was taken is
\* written, counted as failed, or still to be tried (sink.go:92-113,
\* consumer.go:255-289).
Accounted ==
    LET pending == IF work.pc \in {"select", "drain"} THEN Len(batch) ELSE Untried IN
    /\ Cardinality(Calls) = Cardinality(fresh) + dropped + Len(queue) + processed
    /\ processed = failed + Cardinality(Written) + pending

\* A session's totals are what its rows and warnings add up to, unless a writer
\* is still going to fold it or gave that up after a failure, whatever the
\* order in which consumer and tailer write, merge and fold (session.go:91-94,
\* store.go:766-769).
Accurate(s) ==
    LET d == Derived(merged, owner, warned, s) IN
    /\ totals[s].rows = d.rows
    /\ totals[s].warned = d.warned
    /\ (\E c \in Calls : d.rows[c] # {}) => totals[s].known

TotalsAccurate ==
    \A s \in Sessions : Accurate(s) \/ s \in owed \cup Unfolded \cup tail.order

\* Shutdown waits for no timer: once the context is cancelled Run returns, even if
\* the backoff it may be in and the quiet interval never end (retry.go:17-18,
\* consumer.go:364-367).
ConsumerReturns == cancelled ~> work.pc = "done"

\* If the timers fire (and a batch in hand is then flushed even while calls keep
\* arriving), a queued call reaches the store or the failure count, unless the
\* process is stopped.
Settles ==
    WF_vars(Loop \/ FlushStep) =>
        \A c \in Calls :
            c \in Range(queue) ~>
                \/ cancelled
                \/ c \notin Range(queue) \cup Range(batch)

\* "On cancel it drains whatever is already queued ..., flushes, and returns"
\* (consumer.go:187-188): with a store that never fails, a call that was taken
\* from the channel is in the store when Run returns.
ShutdownKeepsCalls == ~StoreFails /\ work.pc = "done" => failed = 0
=============================================================================
