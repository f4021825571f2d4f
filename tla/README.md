# claude-lens in TLA+

claude-lens is a reverse proxy that captures Claude API calls into SQLite,
correlates them with transcripts and provider reports, and serves a dashboard.
This directory models its behaviour over time: what happens when its goroutines,
its processes, a crash and a failing store meet in an order that no test was
written for. Paths below are relative to the repository; every definition's
source lines are in `PROJECT.json` under `map`.

## 1. Inventory

State that survives a step is in SQLite (`events`, `warnings`, `sessions`,
`body_archive`, `ingest_state`, ...), in day files `bodies-YYYY-MM-DD.db` beside
it, in the files `config.toml`, `prices.toml`, `secrets.toml`, `provider` and
`serve.state.json`, in transcripts that another program writes, and in the memory
of one `clens serve` process. Other `clens` processes (purge, archive, ingest,
refresh, rekey, prices, accounts, restart) open the same files, at any time,
without a lock of their own.

| component | state | operations | talks to | hard about it | correct when |
|---|---|---|---|---|---|
| proxy (`internal/proxy`) | provider pointer and file, tee buffers | `ServeHTTP`, `Set`, submit | queue | a switch against calls under way, caps, aborts | a row names the provider that served it and claims completeness only when whole |
| capture queue (`internal/sink`) | bounded channel, counters | `Submit`, `Drain` | proxy, consumer | full while the consumer waits | never blocks; every call is counted once |
| consumer (`internal/consumer`) | batch, locals of a flush, counters | `Run`, `flush`, `drainRemaining`, `withRetry` | queue, store, sessions, rules | retries, give-up, cancellation, drain at shutdown | every call taken is written or counted; shutdown ends |
| call identity (`consumer.requestID`, `parse/meta.go`, `internal/session`) | counter of made-up keys, prefix groups | `Resolve`, `requestID` | consumer | calls end in another order than they start | calls share a row or a session only when they belong together |
| parsing (`internal/parse`) | carry buffer of a stream, folded usage | `Feed`, `Close`, `ExtractUsage` | consumer | chunks, three line endings, cut streams | a stream is read as the message says, as far as it came |
| rules (`internal/analyze`) | warnings of rows | twelve rules of a call, six of a session | consumer, store | rows arrive out of order, warnings are never withdrawn | what is stored stays true and agrees with itself |
| events and merge (`store.go`, `merge.go`) | one row per request id | `InsertEvent`, `mergeEvents`, purge, reprice | every source | order of sources, partial captures | the outcome does not depend on who was first, where the code says so |
| sessions (`store.go`) | `sessions` rows | `UpsertSession`, `ReconcileSession` | consumer, tailer, merge | two writers, two transactions per fold | totals are what rows and warnings add up to |
| body archive (`archive.go`, `archiver.go`, `archive_ops.go`) | hot columns, marker, day file, per-process handles | archive cycle, collection, restore, hydrate | purge, merge, readers | two databases, crashes, several processes, unlinked files | invisible to a reader; a purge leaves nothing |
| transcript tailer (`internal/jsonlogs`) | byte cursor per file | `Poll`, `tailFile`, rebuild | store, sessions | partial lines, truncation, overlapping polls, crash before the cursor | every complete line reaches its row |
| collectors (`internal/ingest`, `snapshot`, `adminrep`) | cursors, health, quota and report rows | `RunOnce`, schedule, trigger, refresh | store, HTTP | two processes, failing pages, missing credentials | no hole behind a cursor; one broken source does not starve another |
| serve (`cli/serve.go`, `restart.go`, `shutdown.go`, `serve_state.go`) | listeners, record file, contexts | start, stop, restart, rollback | everything | hand-over between processes, order of shutdown | a successor starts after the drain; a stop ends |
| live updates (`api/broker.go`, `publishing_store.go`) | subscriber channels | `Publish`, `Subscribe`, unsubscribe | store, SSE | slow subscriber, unsubscribe against publish | no silent gap, one close |
| settings (`config.go`, `cli/reload.go`, `api/accounts.go`) | live retention, hot days, accounts | load, reload, save accounts | consumer, archive cycle | two files edited under a reload | valid, flags kept, all or nothing |
| prices (`internal/pricing`, `cli/prices.go`) | override file, table in memory | set, unset, post, edit, reload on change | consumer, dashboard | writers without lock or rename, mtime noted late | the table says what the file says; an edit is local |
| secrets (`internal/secret`) | one file with both credentials | `Save`, `Get` | collectors, dashboard | a save dies or fails anywhere | the other credential is untouched |
| replay (`api/replay.go`) | snapshot of the newest replay | send, wait for the row | proxy, store | two replays at once, a late row | a replay finds its own row |
| schema (`store.go`, `schema.sql`) | `user_version`, tables, columns | `Open`, five migrations | every process | death between statements, two opens | the next open works |
| rekey (`cli/rekey.go`, `store.go`) | request ids, session ids, lineage | three passes | serve, archive, tailer | runs beside a live server, dies anywhere | nothing is lost, a rerun finishes |

The read handlers of the API, quota estimate, reconciliation, read-only commands,
web assets, process detachment and the model catalog hold no protocol and are
not modelled (section 15). `PROJECT.json` also lists the hazards, each at the
line where it bites, with the properties that cover it.

## 2. Modules

| module | what | status |
|---|---|---|
| `BodyStore` | abstract: what a reader of bodies is promised | written |
| `BodyArchive` (implements `BodyStore`), `BodyOverlap`, `MCBodyArchive`, `MCBodyOverlap`, `BodyArchiveProofs` | the archive with its jobs, processes, crashes and stale handles; what is kept when jobs overlap | checked, proved |
| `CapturePipeline`, `MCCapturePipeline`, `CapturePipelineProofs` | from `Submit` to the session totals, with the tailer as second writer | checked, totals and counters proved |
| `EventMerge`, `EventMergeProofs` | `mergeEvents` as pure operators, and the arrivals and reprices that drive them | checked, proved |
| `TranscriptTail`, `MCTranscriptTail`, `TranscriptTailProofs` | the tail of transcripts: scheduler, commands, faults | checked, proved |
| `Collectors`, `MCCollectors` | runner, snapshot and Admin pulls in two processes | checked, proved in `FiguresProofs` |
| `ServeLife` | serve processes and `clens restart` | checked in `MCServe`, proved in `ServeProofs` |
| `ProxyCalls`, `ProxyProofs` | provider switch, tee, replay | checked in `MCServe`, proved |
| `LiveFeed` | commit, publish, streams | checked in `MCServe`, proved in `ServeProofs` |
| `LiveSettings` | reload beside edits | checked in `MCServe`, proved in `ServeProofs` |
| `Secrets` | saves and reads of `secrets.toml` | checked in `MCServe` and alone, proved in `ServeProofs` |
| `SchemaOpen`, `MCSchemaOpen` | open and migrate | checked in `MCServe` and alone, proved in `ServeProofs` |
| `CallRules`, `SessionRules` | rules of a call and of a session | checked in `MCFigures`, proved in `FiguresProofs` |
| `PriceFile` | price overrides, editors, loader, what a call costs | checked in `MCFigures`, proved in `FiguresProofs` |
| `StreamParse`, `StreamProofs` | bodies to frames to usage | checked in `MCFigures`, proved |
| `CallIdentity` | which row and which session a call goes to | checked in `MCFigures`, proved in `FiguresProofs` |
| `RekeyPasses` | passes 1 and 2 of rekey beside serve | checked in `MCFigures`, proved in `EventMergeProofs` |

Composition. `CapturePipeline` composes sink, consumer, sessions and the tailer's
writes. `TranscriptTail` composes the scheduler's poll, the trigger and the
commands over one cursor table. `Collectors` composes two processes. `MCServe` and
`MCFigures` are *sums*: a behaviour picks a part at the start, works in it and
leaves the others at rest. That is no loss, because the parts in one sum
share nothing but rows that are already committed, and no property of the sum
relates two parts; it lets one run explore each part exhaustively at its own
bounds.

`ServeProofs`, `FiguresProofs` and `EventMergeProofs` hold the proofs of the parts of
`MCServe` and `MCFigures`, each in a section with its own invariant, under its own
constants; `FiguresProofs` also holds those of `Collectors`. What is still worth doing:
a refinement of `EventMerge` by the rows of `RekeyPasses`.

## 3. BodyArchive

### Correspondence

| model | code |
|---|---|
| `stage`, `hot`, `names` | a row of `events`, its body columns, `req_tool_names` |
| `marker` | `body_archive.body_mask` of the row |
| `dirent`, `table`, `data` | the archive directory; each file (an inode) with its `bodies` table |
| `cache` | `archiveCache`, one per process, keyed by path |
| `job[p]` | the one job a process runs, with its program counter and the locals that live across statements |
| `Capture`, `Merge`, `BackfillToolNames` | `InsertEvent`, the backfill rules of `mergeEvents`, `clens backfill-tool-names` |
| `SelectBatch` .. `MarkAndClear` | `Archiver.Run`: candidates, `takeBatch`, `readBodies`, `writeDay` (open, upsert, commit), re-read of masks, one hot transaction |
| `GCOpen` .. `GCRemove` | `gcFile`: open, marker query, hot query, delete of orphans, count, `os.Remove` |
| `RestoreDay`, `RestoreRow`, `RestoreDrop` | `restoreDay`: decode, write the hot row and drop the marker, delete the file row |
| `Purge` | `PurgeOlderThan` and `PurgeUnpriced`, followed by a collection |
| `Hydrate` | a reader's `hydrate`, which opens and caches a handle and evicts a vanished one |
| `Fail`, `Crash` | a job ends early with an error; a process loses its job and its handles |

A step is one transaction or one file-system call; everything else can happen
between two steps. Several processes run jobs because nothing in the code
excludes it: the daily cycle of `serve` and a command share only SQLite's locks.

Abstractions. A body is present or absent: the store never replaces the content
of a column, and a zero-length body carries nothing. Compression and codecs are
left out (`body_mask` is a set of columns). `os.Stat` followed by opening the
cached handle is one step. The cache's eviction of the least recently used
handle is left out: it can only turn a stale handle into a fresh one. `Inodes`
bounds the files that exist or are held open. Row deletion never reuses an id
(AUTOINCREMENT).

### Runs

| run | instance | shows |
|---|---|---|
| `archive_safe` | 2 processes, 1 legacy event, 2 columns, 4 files, `Serialised` | `ArchiveInv`, `AwaitingStaysHot`, the refinement `ArchiveIsInvisible` |
| `archive_progress` | a server with its daily cycle, a second process with restores and purges that may fail and crash, no exclusion | `EligibleIsArchived`, `JobEnds`, `NeverHotAndMarked`, `CollectingKeepsBodies`, `PurgedBytesGo` |
| `archive_deletes` | 2 processes, 1 event, 1 column, no exclusion | violation: `RowDeletesKeepBodies` |

`Serialised` is an assumption about use, not about the code: no archiver run
overlaps a collecting job (collection, restore). Within one process the program
mostly behaves so (the cycle collects after it archives, and the ticker loop
waits for it); across processes nothing enforces it.

Three things can happen then, each with an archiver of another process in a window of
two steps. `gcFile` asks for markers and for hot bodies in two statements
(`archiver.go:386-403`); an archiver's last step in between makes the row look like an
orphan, and its only copy is deleted: the run `archive_deletes`. `gcFile` counts the rows of a
file and removes it (`421`, `429`); a batch committed and marked in between goes with it.
Bodies copied before a purge reach the day file after the purge's collection has
looked (`store.go:952`); a later collection deletes them.

`BodyOverlap` says how much the code keeps without the assumption. It adds two
history variables to `BodyArchive`, which no step of the archive reads: `late[p]`
has the rows that an archiver committed or marked while process `p` has a day file
in hand, and `owed[p]` the purged rows whose bodies no archiver had copied when
`p`'s collection began. `CollectingKeepsBodies`: a collection or a restore takes
no body of a row that is not late. `PurgedBytesGo`: a finished collection leaves
nothing of what it owes. The three windows above are exactly the
complement. `archive_progress` checks both in the instance of its cycle, the proofs for
every instance and with failures and crashes of every process.

Bounds. One event suffices for every interleaving of two jobs over one row. That a
batch has several rows, and that a batch and a collection keep to one of several days,
is proved (`ArchiveInv` for any events and days) and not in an instance. Two columns distinguish a partial mask from a full one. Four inodes let
a file be removed and created again while each process still holds an older one.

Fairness (`CycleSpec`): a job that runs keeps running (weak fairness of each
process's `Work`: a goroutine that is never blocked for good), and the server's
ticker starts a cycle again and again. `EligibleIsArchived` additionally assumes
that the command line falls quiet, as an antecedent of the property.

### Proofs (`BodyArchiveProofs`)

For every number of processes, events, columns, days and files:

- `Typing`: `Spec => []TypeOK`.
- `Apart`: `Spec => []NeverHotAndMarked`, without any exclusion between jobs. The
  invariant adds that only live rows have hot columns or markers.
- `ArchiveSafety`: `Spec => []ArchiveInv` under `Serialised`. That a marker never
  over-claims is not inductive alone: a job acts on copies it took earlier. The
  strengthening says what the copies are still worth. `FilesAreLinked`: an
  unlinked file is empty, so a stale handle can only under-claim.
  `CopiesAreAccounted`: what a linked file holds is hot or marked. One clause per
  kind of job (`ArchiverHolds`, `CollectorHolds`, `RestoreHolds`) states what its
  locals guarantee at each program counter, and `NoOverlap` makes the clauses of
  other jobs survive a step.
- `AwaitingAlwaysHot`, under `Serialised` too: `Spec => []AwaitingStaysHot`. It
  needs `AwaitInv`: no row in an archiver's hands, from the select to the clearing,
  awaits its tool names, and no marker claims the request body of a row that has none.
- `OverlapHolds`, `CollectorsSpareBodies` and `PurgesLeaveNothing`: `OverlapSpec =>
  []OverlapInv`, `CollectingKeepsBodies` and `PurgedBytesGo`, with no assumption on
  how jobs overlap. `CollectorSees` and `RestoreSees` say what a job's locals are
  worth beside any other job, up to the late rows: the rows examined are unmarked,
  the file counted is the linked one unless that has nothing for the day, the copy
  a restore holds covers the file. `Owes` says that a row a purge is owed is in no
  archiver's hands, will be in none, and is still ahead of the collection wherever
  a file holds it. `Beside` is what any step of any process may do to another's job.
- `NoOverclaim` and `Invisible` follow: the latter is the refinement of `BodyStore`,
  step by step, with `Readable` as the refinement mapping.

The proof has one lemma per action (or per pair of actions that only look), and
one step per conjunct it can disturb.

## 4. CapturePipeline

### Correspondence

| model | code |
|---|---|
| `queue`, `dropped` | the sink's channel and counter |
| `batch`, `processed`, `failed` | the locals and counters of `Consumer.Run` |
| `work` | the consumer's place in `Run` and `flush`: row in hand, `order`, findings, retries, whether `Run` returns afterwards |
| `tail` | the same for the tailer's `tailFile` |
| `merged`, `owner`, `warned` | events by request id: sources merged, `session_id`, rows with warnings |
| `totals` | `sessions`: whether the row exists and what its aggregates were last derived from |
| `owed` | auxiliary: sessions whose fold a writer gave up |
| `Submit`, `Cancel` | `Sink.Submit`; the signal context of `serve` |
| `Receive`, `Quiet`, `Stop`, `Drain`, `DrainOver` | the cases of the select, `drainRemaining` |
| `Insert`, `Warn`, `Rule`, `Attach`, `Ensure`, `Rederive` | the three phases of `flush`, one store transaction each |
| `Busy`, `Retry`, `CutShort`, `RanOut`, `GiveUp` | `withRetry`: an attempt fails, the backoff timer fires, the cancelled context or the end of the schedule stops it; the `gaveUp` flag |
| `Poll`, `TailInsert`, `TailWarn`, `TailFold`, `TailEnsure`, `TailRederive` | `tailFile` and `insert` |

Every store call may succeed, fail for good, or fail for a while, in which case
it waits for the backoff timer, is tried again and in the end given up; under a
cancelled context it fails, since each begins with `BeginTx(ctx)`, and a wait is cut
short. A timer that fired may still win against the cancelled context, as in the
select. `StoreFails = FALSE` removes all failures but that.
A session's totals are modelled as a snapshot of what they were derived from, so
that "accurate" is equality with the present rows. The tailer takes its lines in
any order and may read a line again (truncation, a failed cursor save). Proxy and
transcript may name different sessions for one request id; the first writer's
stays. Prices, accounts, prefix hashes and the request id's derivation are
data. `Close` is never called in the program.

### Runs

| run | instance | shows |
|---|---|---|
| `capture_safe` | 2 calls, channel of 1, batches of 2, 1 retry, failing store, the transcript has one of the calls under another session | `Accounted`, `TotalsAccurate`, `ConsumerReturns`, `Settles` |
| `capture_shutdown` | the same with a store that never fails and no retry | violation: `ShutdownKeepsCalls` |

`Accounted`: each call is dropped, queued or taken, and each taken call is written,
counted as failed or still in the flush. `TotalsAccurate`: a session's totals equal
what its rows and warnings add up to, unless the consumer or the tailer is still
going to fold it or gave that up. `ConsumerReturns`: a cancelled
consumer returns, even if neither the quiet timer nor a backoff timer ever fires: a
backoff that slept on under a cancelled context would break it.
`Settles`: if the timers fire, a queued call leaves queue and batch, unless the process is
stopped.

The finding: `Run` flushes the drained batch under the context whose cancellation
made it drain. Every insert fails, so the calls it took care to collect are
counted as failed. The test for shutdown (`TestConsumerShutdownBound`) checks that
`Run` returns, not that the rows are there.

Bounds. A channel of 1 and two calls make the drop happen; a batch of 2 gives
full and partial batches, and a flush that fails at its first or second row; two
sessions give the merge under a foreign session. One retry distinguishes the
first attempt, a retry and giving up.

Fairness (`PromptSpec`): weak fairness of `Prompt`, the consumer's steps other than `Quiet`
and `Retry`, the two that wait for a timer. `ConsumerReturns` needs no more. `Settles` has weak
fairness of the goroutine as a whole as an antecedent, since the quiet timer fires after
every interval; the goroutine is the only one that takes calls out, so while a batch is
in hand some step of it is always enabled. No fairness of the proxy or the tailer is
assumed.

### Proofs (`CapturePipelineProofs`)

From `PipelineAssumption` alone, for every number of calls, sessions and lines:

- `PipelineTyping`: `Spec => []TypeOK`.
- `TotalsAlwaysAccurate`: `Spec => []TotalsAccurate`.
- `EveryCallAccounted`: `Spec => []Accounted`.

`TotalsAccurate` is not inductive alone: it exempts the sessions a writer has
yet to fold, so a step that leaves the flush must not forget one. The invariant
adds where the two writers can be (`Placed`: a program counter with positions
inside the batch and the list of sessions), and that the rows they hold exist
and are in the sessions they are about to fold (`WorkHolds`, `TailHolds`): a row
keeps its session once it is written. The proof is in two layers. `Touches(D)`
says what one store transaction may do: only the sessions in `D` may become
inaccurate, and only an accurate one stops being owed. One lemma per store
operation shows for which `D` it holds. Then there is one lemma per step of the
consumer and of the tailer, all through `Went` (the flush) or `Tailed` (the
tailer): the step's `D` is among the sessions still to be folded.

`Accounted` adds sizes of sets, so it needs that a call is in one place only: the
proxy's hands, the channel, the untried end of the batch, or the rows
(`Apart3`). A call whose row is given up is in none of them any more, only in the
counter. `Counts` is that invariant as a relation between values (the counters of
sink and consumer, the sets and sequences, and the first row not yet tried). One
lemma shows it for each kind of change (`Accepted`, `Refused`, `TakenOut`, `Wrote`,
`Lost`, `Emptied`), and one per step which change the step is.

## 5. EventMerge

### Correspondence

| model | code |
|---|---|
| `row` | the `events` row of one request id |
| `ProxyRows`, `WithCost` | what `Consumer.processCall` builds: mode and account from the credential or the provider, usage from the response body, cost in the mode's column |
| `TranscriptRows` | what `Tailer.buildEvent` builds: no bodies, always complete, the mode guessed from the model's prefix |
| `Winner`, `Mismatch` | the pick of `mergeEvents` and its correction by `usageObserved` |
| `Arbitrated`, `proxySide`, `KeepsCost` | `alignBillingIdentity` |
| `ModeOf` | the switch on an empty `merged.BillingMode` |
| `Account`, `Real` | `preferNonEmpty` and `enforceLocalAccountInvariant` |
| `captureCompleteFromBodies` | the function of that name with the `bodySides` of the backfill |
| `ProxyArrives`, `TranscriptArrives` | `InsertEvent`, through `insertOrMerge` |
| `Reprice(byModel)` | one row of `RepriceCosts`, with or without `--model` |
| `seen`, `told`, `warned` | auxiliary: the capture as it arrived, the figures the transcript has told, the row's `source_mismatch` |

The six token columns are one figure, which is what the merge compares and moves;
0 is "all six zero". A cost is the rates it was computed with, since what can go
wrong is its column and its mode, not its amount. An account is named by its
mode: both builders take the first account of a mode, and no account of mode `""`
exists. Whether a model has a rate is the price table's choice, made anew at each
arrival. Two rows of the code never meet here: a call without any response gets a
synthetic key, so it merges with nothing, and a request id is captured once. The
columns with a plain prefer-non-empty rule are left out, as is the archive
marker, which counts as a present body (`BodyArchive` has it).

### What is checked

`EventMerge` is a part of the run `figures_safe`: usage up to 3, an account for
subscription and none for api, every shape of capture, any number of transcript
lines and reprices.

`CostFitsMode` (invariant 5 of the code), `CompleteMeansWhole` and
`ProxyDecidesLocal` are about one row after any history. `CompleteUsageWins` and
`DisagreementIsReported` tie the row to what was told about the call.
`ArrivalOrderIsMoot`, which no run checks and `OrderIsMoot` proves, compares the two orders
of a capture and a line. Several mutants are the code's own history: the `||` of the two flags, the stored mode
taken first, the proxy recognised by `source` alone.

Not stated as properties: a capture whose request body was cut is incomplete, and
only two complete records can mismatch, so its tokens may differ from the
transcript's without a warning (`merge.go:239-264`); an aborted capture without
bodies clears the row's flag only when it is first (`merge.go:576`); the
severity of a mismatch goes by the row's first writer, so a transcript line that
amends the transcript's own figure on a proxy-first row is reported as a
conflict of the two sources (`merge.go:157`); a merge can write an empty list of
tool names over an unknown one (`store.go:1436`).

Bounds. Two figures besides 0 make every disagreement; the third lets an amended
line differ from both. One configured and one missing account cover the
empty account name. The rows are finite in every other respect, so arrivals
need no bound.

There is nothing that must happen here, so no fairness and no liveness.

### Proofs

From `MergeAssumption` alone (usage bounded by any number, accounts for any of the
two modes). `Sound(e)` is what holds of every row however made: its type, the
cost column, the flag, the local account. One lemma each shows that building,
pricing and merging keep it (`SoundWhenBuilt`, `SoundWhenPriced`,
`SoundWhenMerged`). `Known` adds who has written the row: without it, a merge could
not tell a row the proxy took part in, nor that an empty mode is the proxy's.
`Traced` adds that a complete row's figure is a complete record's and that the
row stays complete while its records are; this is what makes
`DisagreementIsReported` inductive. The step lemmas are one per action and group
of conjuncts. All six properties are theorems, and so is `UsageNeverLost`.

## 6. TranscriptTail

| model | code |
|---|---|
| `gen`, `size`, `partial`, `present` | a transcript: its incarnation (rotation), complete lines, an unfinished last line, whether it is there |
| `cursor` | `ingest_state`, key `jsonl:<path>`, an offset in complete lines |
| `rows`, `minted` | the usage each request's row has; rows under the `jsonl:` keys of older versions |
| `poll[p]` | one run of `Poll` and the locals of `tailFile`: the walk, the offset, the representatives to insert |
| `command` | `clens ingest`, `ingest --rebuild`, the last pass of `clens rekey` |
| `LoadCursor`, `Gone`, `Read`, `Insert`, `Skip`, `Inserted`, `Save`, `Finish` | the stages of `tailFile`: cursor, stat, read and split, insert in the order of first lines with the last line's content, save |
| `Check`, `Delete`, `Reset`, `Reread`, `Abort` | `checkRekeyPrecondition`, `DeleteJSONLKeyedEvents`, `resetJSONLCursors`, the poll that follows, a command that fails or is killed |
| `BeginLine`, `EndLine`, `Replace`, `Remove` | Claude Code writing, rotating and removing a file |
| `Crash` | serve dies, or its context is cancelled |

Bytes are counted in lines; a usage value stands for all that a line says of its
request. Every store call may fail while `Faults` lasts. `unwritten`, `wiped`,
`reads`, `overlap` and `disturbed` are auxiliary: they say which exceptions the
code itself makes (an insert that failed is counted and passed; what a rekey
deleted waits for the re-read; two polls of one file may write in either order).

`tail_safe`: one file of two lines of one request, replaced once by a file with
another request, one keyless request, one fault, rebuild and rekey. `NothingSkipped`: no
cursor passes a request that was neither written nor counted as failed.
`LastLineWins`: the row says what the last line behind the cursor says, unless two polls of
the file overlapped: then the older line may be written last, and nothing in the code
orders the two.
`RereadRestores`: an undisturbed rebuild or rekey gives back what it deleted.
`LineLands`: a complete line is written in the end.

Bounds. One file suffices, because files share only the walk's order, and `Gone` covers
a file that breaks off in the walk; two lines of one request with a poll between
them are what the dedup and the cursor can get wrong. The command's poll and the
scheduler's overlap, as the trigger's would.

`FairSpec`: the ticker fires again and again and a poll's goroutine runs on;
nothing is assumed of Claude Code, the trigger or the user.

Remarks. A file that regrew past its old cursor after a rotation is read from
the middle (`jsonlogs.go:320` compares sizes only); the auxiliary `reads` exempts
it. A poll that loaded its offset before a rebuild or a rekey resets the cursors stores
the old end of the file over the reset (`jsonlogs.go:395-396`), so the command's own poll
reads nothing: a rebuild leaves the rows under their old keys, against
`cli/ingest.go:142-143`, and what a rekey deleted stays away (`rekey.go:91-100`).
`RereadRestores` is about undisturbed commands and does not catch it.

### Proofs (`TranscriptTailProofs`)

For every set of files, texts, pollers, generations and bounds:

- `NothingIsSkipped`: `Spec => []NothingSkipped`. `TailInv` says of a poll in the
  middle of a file what it says of a cursor (`PollCounts`): every request named
  between the cursor it loaded and its end offset has a row, is excused, or is
  still among its representatives. Two facts carry it over the steps of
  everybody else: files only grow or are replaced as a whole (`Advances`), and a
  request that is recorded or excused stays so (`Counts`). Any number of polls may
  overlap; an older offset that is saved last is only a smaller one.
- `TheLastLineWins`: `Spec => []LastLineWins`, if the lines of a request are all in one
  transcript (`OneFile`; a request named in two files would get the figures of
  whichever is read later). `LastInv` adds, while no two polls of a file have
  overlapped, that one poll at most holds a file (`OneHolds`), that its cursor has
  not been overtaken (`NotAhead`), and that a row is right up to the offset the poll
  has reached (`PollRight`, `CursorRight`). `RightBut(K)` is the frame: a step changes
  only rows of the requests in `K`, and these are in no other file.
- `RereadsRestore`: `Spec => []RereadRestores`. `AgainInv` follows an undisturbed
  rebuild or rekey through its poll: every file that was there is still to be
  taken up from a reset cursor (`Due`), in the poll's hands from its first line
  (`Taken`), or done with all its lines back (`Done`), and no poll of serve is at work
  beside it (`Alone`).

## 7. Collectors

| model | code |
|---|---|
| `host[h]` | a process with a runner: its entries as `addCollectors` registered them, the admin window fixed at that moment |
| `run[r]` | one `RunOnce`: entries left, locals of the collector at work |
| `cursor`, `days` | `admin:usage`, `admin:cost`; the days with rows |
| `quota`, `mark` | windows stored by a snapshot poll; the cursor that names it |
| `health` | the outcome last recorded per source |
| `Boot`, `Stop`, `Begin`, `End` | a process starts, dies; a run starts, ends |
| `Unconfigured`, `Answer`, `StoreWindow`, `MarkPoll` | the snapshot poll |
| `Collect`, `Ask`, `FetchPage`, `PageFails`, `StoreDays`, `SaveCursor`, `StoreLimits` | the three Admin reports |
| `Fail` | any collector returns an error or panics |
| `NextDay`, `Toggle` | time; credentials set and removed by the user |

`collect_safe`: serve's tick and one refresh, one account with two windows, days
0 to 2 with a lookback of 1, the session key coming and going, two process
starts, one fault. `UsageHasNoGap`, `PollsAreWhole`, `EveryCollectorRuns` hold.
Two windows distinguish a partial poll from a whole one; three days let two
processes fix different windows and a third follow the cursor. The trigger of
the dashboard is a second run of the same host; the tick and the refresh overlap
in the same way.

`collect_cost`: violation of `CostHasNoGap`. The next window starts at the usage
cursor alone, so a cost report that failed once behind a usage report that came
through is not asked for again, and the next run turns the source green.

`FairSpec`: the ticker fires while serve is up, and a run goes on. HTTP requests
end because the clients have timeouts.

Remarks. The admin window is computed once per process, so serve pulls the same
days until it is restarted (`refresh.go:123`); collectors keep the accounts they
were booted with; two subscription accounts share one health record
(`ingest.go:83-92`); a window that ends in the middle of a day stores a partial
day until the lookback covers it again; a rate limit that the provider no longer
lists stays in the table (`store.go:1296-1322`).

### Proofs (last sections of `FiguresProofs`)

For every number of processes, runs, accounts and windows:

- `PollsStayWhole`: `Spec => []PollsAreWhole`. A run that stores windows still owns the
  account's poll, or another has overtaken it, and what it has yet to store is
  all that is missing (`Filling`).
- `LookbackStaysStored`: unless a window was computed without its cursor, the
  `Lookback` days before the usage cursor are stored, for every horizon `Days`.
  `GapInv`: each window that a process fixed (`Window`), and each that a run carries
  (`Stored`), reaches back to days that are stored or covered by itself, whatever
  the cursor has become since.
- `UsageStaysWhole`: `Spec => []UsageHasNoGap` for `Days <= 2 * Lookback`. The hypothesis is
  needed: a first pull that stores its days and dies before its cursor, followed
  by another first pull more than two lookbacks later, leaves days with nothing
  between them. No cursor ever claimed those days, which is what
  `LookbackStaysStored` says without the hypothesis. TLC found the counterexample
  when the proof failed.

## 8. ServeLife

| model | code |
|---|---|
| `proc[p]`, `flushed`, `cancelled` | where a process is in `Serve`; whether its consumer has drained; whether its context is cancelled |
| `owns`, `record` | who wrote `serve.state.json`; the PID in it |
| `streams` | a dashboard stream that holds `Shutdown` up |
| `cmd[c]` | a `clens restart`: the record it read, whom it met, its child |
| `BindProxy` .. `RemoveRecord`, `Kill` | one step per bind, file operation and stage of the shutdown |
| `ReadPrev`, `Health`, `Ask`, `DialDash`, `DialProxy`, `AwaitRecord`, `Spawn`, `Healthy`, `Unhealthy`, `Rollback`, `GiveUp` | `runRestart`, step by step, with its timeout and the rollback of a swapped binary |

In `serve_safe`: three processes (the old one, its successor, a rolled-back one),
one restart with `--exe`, two faults (a kill, an unwritable record, a timeout),
open streams. `DrainBeforeSpawn`: the successor starts only after the process that
answered has drained or is dead. `StopEnds`: a process asked to stop ends. The run
assumes that the user starts nothing while another process lives or a command
works (`Impatient = FALSE`) and that commands do not overlap.

Fairness: each process's own steps (`Process`): goroutines run, the shutdown's
grace and the drain's bound expire. Commands, kills and users have none.

Remarks. Without those assumptions `DrainBeforeSpawn` fails: a second restart whose
health check falls between the closed dashboard and the last flush takes the
old process for stopped (`restart.go:98-119`). `removeServeState` reads the record
and removes it in two steps (`serve_state.go:80-84`), so a successor's record can
be removed. The rollback follows a kill without waiting for the process to go
(`restart.go:131`, `143`). A second serve purges the database before it loses
the bind (`serve.go:77` against `254`).

`ServeProofs` proves `ChildWaitsForDrain`: `LifeSpec => []DrainBeforeSpawn`, for any number
of processes, assuming `~Impatient` and that there is one restart command; with two,
the first remark is a counterexample. The invariant (`LifeInv`): whoever
removes the record, or is no longer in it, has drained (`RemovesDrained`); while the
command waits there is one process beside it (`OneProcess`), it is the one the
command met (`Watches`), and the places behind the wait are reached only when that
one has drained (`Passed`).

## 9. ProxyCalls

| model | code |
|---|---|
| `active`, `file`, `setter` | `Targets.active`, the provider file, a `Set` under its mutex in two steps |
| `call[c]` | one request: the provider read on arrival, the upstream that served it, a replay's snapshot and result |
| `queue`, `rows` | submitted calls, rows in the order they are written |
| `Arrive`, `Route`, `Unreachable`, `Answer` | `ServeHTTP`, `Rewrite`, `ErrorHandler`, the tee through `boundedBuffer` and `onClose` |
| `Snapshot`, `Found`, `TimesOut` | the replay handler: newest replay before the send, `awaitReplayRow` |
| `Reboot` | serve is killed and started again, perhaps without its local upstream |

Two calls, one setter, a cap of 1 with sizes 1 and 2 (one fits, one is cut),
both policies, one reboot. `RowsAreTrue`: the provider on a row is the one that
served it, and a row that claims to be complete is. `ChoiceOutlivesServe`: the
provider in use is the one a reboot would choose. `ReplayFindsItself`: a replay
with no other replay of the same call beside it is answered with its own row.

Remarks. With `EarlyAnswers = TRUE`, an upstream that answers before it has read
the request, `RowsAreTrue` fails: the capture assumes the request is fully teed
by then (`proxy.go:135-138`).
Two replays of one call that took their snapshots before either row was written are
both answered with the row written first (`api/replay.go:246-255`, against `234-239`), and
the late row of one that timed out is taken likewise; hence `alone`.

### Proofs (`ProxyProofs`)

For every number of calls, setters, providers, sizes and reboots:

- `ChoiceAlwaysOutlivesServe`: one setter is inside the mutex (`OneSwitch`), what it
  writes was offered, and what it has saved is in the file (`Persisted`).
- `RowsAlwaysTrue`, assuming `~EarlyAnswers`: a routed call was sent to the provider it
  is stamped with, and every entry of the queue and every row is true
  (`CaptureInv`).
- `ReplaysFindThemselves`: starts are counted, so that "a newer row than the
  snapshot" can be compared with "started after it" (`Timed`). For a lone replay
  (`LoneOK`) no other replay of the call is pending, so a row newer than its
  snapshot is its own (`Newer`, `Sees`).

## 10. LiveFeed, LiveSettings, Secrets

`LiveFeed`: `CommitRow` and `Publish` of two writers through the `PublishingStore`,
one stream with a channel of 2, two rows with their warnings. `FeedHasNoGap`: a
subscribed stream has or holds everything published since it joined, in order; a
dropped one has a prefix and a channel closed once. The buffer of 2 fills with
three of four publications.

`ServeProofs` proves it (`FeedNeverGaps == FeedSpec => []FeedHasNoGap`) from
`FeedAssumption`, for any number of writers, streams and rows and any buffer. The
invariant (`Follows`) says it for one stream position by position, so that
appending to the log, receiving and leaving are three facts about indices, and
adds that a stream that has not begun or has gone is not in the broker's map;
`FollowsHasNoGap` brings it back to prefixes and concatenations.

`LiveSettings`: `Enter`, `LoadConf`, `LoadAccounts`, `Tell`, `Apply` are the steps of
`Reloader` under its mutex; `Edit` is the user at either file between any two of
them. Two reloads, day counts 0, 1 and 7 (never, below and at the default), two edits, flags
and environment set or unset. `SettingsHold`: what is in force validates, keeps
the boot flags, and consumer and dashboard agree between reloads. The two files are
read one after the other; edits of both in between can be applied half, until the
next reload, and the property does not speak of that.

`ServeProofs` proves it (`SettingsAlwaysHold == SettingsSpec => []SettingsHold`)
from `SettingsAssumption`, for any number of reloads, edits and values. The
invariant adds that at most one request is past `Enter` (the mutex), that what it
has loaded is valid once it is past `LoadAccounts` and keeps the flags from
`LoadConf` on, and that the consumer has exactly its accounts when it is "told".

`Secrets`: `ReadEntries` and `Stat` begin a `Save`; `CreateNew`, `WriteNew`, `ProtectNew`,
`RemoveNew` are its way with a new file, `Rename` the end of its way through a
temporary one. `Get`, `TouchTruncates`, `TouchWrites` are the read that rewrites the
file for a timestamp. Everything may fail or die at every step: `WriteNewFails`
and `TouchFails` end a write in place after the truncate, and leave a file that
does not parse, the first sections, or the first ones with the last value cut
short (`Partials`, from what `parse` makes of a prefix); `RemoveNew` may leave the
file, since the code ignores that error. A handle whose file another call has
replaced or removed writes nowhere (`held`). Values with a quote are escaped on the
way out and not unescaped on the way in; they are left out.

`SaveIsAtomic` (two slots, two values, two savers, one getter, two saves): each credential is what the last successful save stored, or what a save
that never reported has. A save that reported an error has stored nothing, except
where there was no file and its write or the removal of the file failed. Not
covered, of a slot until it is saved anew (`unsure`): two calls whose reads and
writes overlap, which nothing in the code excludes, so that a `Get` beside a `Save`
can bring the old text back; and a `Get` that fails or dies between its truncate
and the end of its write. The latter needs no second call: `secrets_touch` shows it
(`FailedTouchKeepsCredentials`, a finding).

`ServeProofs` proves it (`SavesAreAtomic == SecretsSpec => []SaveIsAtomic`) for any
savers, getters, slots and values. The invariant says that some text is the
file's content, or is what the one getter that has truncated it alone will write
back (`Content`); that each slot that is sure is in it as reported or pending
(`Good`); and that whoever is alone has read that text (`SaverReads`, `GetterReads`).
A new file is a case of its own: it alone is written in place and taken back, so
no slot that is sure may have been confirmed before (`New`, `Lone`), and a value not
written yet is in the file only as an older one (`Unwritten`).

Remarks. The daily tick reads `RetentionDays` and `HotDays` separately
(`serve.go:314-315`), so it may see one of each side of a reload.

## 11. SchemaOpen

`version` is `user_version`, `objects` the tables, indexes and columns that
migrations know of, `opens[o]` a process's `Open`: `Probe` (`eventsTableAbsent`),
`Stamp` (seed a fresh file), `Exec` (one statement of `schema.sql`), `ReadVersion`,
`Refuse`, `Migrate`, `Opened`; `Closes` is a death or a normal close anywhere.
`OpenInit` starts from every file that a binary of any version can have left,
also one that died in `schema.sql`, and from a file of a newer binary.

In `serve_safe`, with one Open at a time: `SchemaAlwaysOpens`. With two at once
(`schema_upgrade`), `MigrationsMatchVersion` is violated: the slower process sets the
version of a version-1 file back behind a column that is there, and every later
`Open` fails on adding it. All five migrations are in the instance; `schema.sql`
is cut to the statements a migration is about.

`ServeProofs` proves `SchemaAlwaysOpens` for every schema and every list of
migrations (`UpgradesAlwaysOpen`: assuming `~Overlap`, `OpenSpec => []SchemaAlwaysOpens`).
`SchemaAssumption` says what the proof needs of them, and what those of the code
satisfy: the table of events comes first, a migration ensures only what
`schema.sql` creates too, drops nothing that `schema.sql` creates or a migration
adds, and no column is added twice. A new migration that breaks one of these is
not covered, and TLC says so. The invariant: at most one `Open` is under way; the
file is empty or `Fits` its version (it has the columns of the migrations up to
it, of none after it, and besides the schema only what a later one drops);
and each `Open` `Knows` what its place in the code relies on (an empty file is
stamped before its first statement, the version it migrates from is the file's).

## 12. The figures on a row

`figures_safe` is a sum of six parts, for each of which bounds are its own. Nothing has to
happen in them (no fairness), and they may stop (`CHECK_DEADLOCK FALSE`).

`EventMerge` is section 5.

`StreamParse`: a body is fed to `SSEParser.Feed` in any chunks (`Drained` is its loop),
each line and each byte of a line ending being one symbol; `ParseEvent` gives the
type, `UsageFromFrames` folds the usage. Loops over a sequence are recursive
functions of the position. Inputs of the run: subsets of six events (with
names or without, a `ping` or a `[DONE]`), cut after a line or inside one (a name
above data that is cut), under the three line endings, of which the last blank line
may be cut off; for a message with split cache writes and one without; the same
message as one JSON object; another content. `StreamAssumption` says what a stream
is: an event has at most one line of data and names that agree with it
(`IsEvent`), and a message starts once and reports its running totals in their
order (`InOrder`). `StreamIsReadRight` compares with what the message said as far
as it came; `StopArrived` is a stop's name or data in an event that has some data,
even cut, because the code asks no more of it (`sse.go:144-147`).

`CallIdentity`: `Arrives`, `Resolve` (`requestID`, `ExtractMeta`, `Resolver.Resolve`),
`TimePasses`, `Restarts`. Three calls in three minutes with a gap of one and one
restart, from six requests (two of one prompt, one cut, one with both headers,
two with an overlong override). `CallsKeepApart`: two calls never share a
made-up key, a session of its own is joined only by calls of one prefix in one
life of serve, and successive calls of a group share a session exactly when at
most the gap is between them.

`CallRules`, `SessionRules`: the twelve rules of a call and the six of a session
as predicates over call records; `WriteCall`, `WriteLine`, `ReadSession`,
`StoreFindings`, `BreakOffPass` are the consumer's batch and pass and the tailer's
rows between. Up to three rows with usage and one without, at times 0, 1 and 3
with lifetimes 1 and 2, one pass broken off. `FindingsHold`: the two kinds that no
later row can contradict stay true, and after a whole pass all findings of every
kind are there. A finding of the other kinds that a later row contradicts stays, as the
code's planning notes have it (`docs/planning/GI-13-session-pass-cost.md:198`, `440-443`).
`FindingsAgree`: findings do not contradict each other, and a failed call does
not change those of its neighbours. `history` has the session's rows by id, and
`Before` is the order the rules see them in (by start, then by id), so a late row
can come between two earlier ones.

`PriceFile`: `LoadOwn`, `LoadAll`, `Truncate`, `Rewrite`, `LeaveTorn` are an editor
(command or `POST /api/prices`), `EditByHand` the user, `Stat`, `ReadPrices`, `Install` the
`Loader`. A row has seven columns: a rate for each class of tokens, and the two fast
ones. `Compute` is `Table.Compute`: `ColumnOf` is the switch of a fast call to the fast
columns, which a fast input rate alone turns for both classes. A model with
write fees and a fast mode, one without either and with a peak, an unknown one; two
editors, two readers (each pair symmetric), two edits. Rates are multiples of 8 so
that derived rates are whole. `PricesFollowFile` is about the table.
`EditsAreLocal` is about what calls cost (usages, fast or not, batch, peak): an edit of one
rate that was alone changes only calls of its model that are charged at that rate
(or that it switched to the fast columns), and takes no price but that of an answer of a fast
call it switched to a fast output rate that is not there. That exception is what the code
does (`pricing.go:100-103`, `133-135`): `clens prices --set m:fast_input_rate=X` on a model without
fast rates leaves its fast answers without a price until `fast_output_rate` is set too,
where `cli/prices.go:85-87` says the edit leaves the rest as it was.

`RekeyPasses`: passes 1 and 2, a transaction per row, beside archiving, purging
and the tailer, dying anywhere, run twice. Three captures: two of one answer in
two sessions, and an unanswered replay of the first. `RekeyKeepsAll` is five
named parts: each capture is held once with its warnings, keys are unique,
lineage follows merges, totals add up, and a completed run leaves nothing to
repair. `OldAssumption` excludes a replay whose answer repeats an id (see below).
`remade` is auxiliary: a session that the tailer folded after its last row had been
moved by the command.

### Proofs (`FiguresProofs`, `StreamProofs`, and `RekeyPasses` in `EventMergeProofs`)

- `TheTableFollowsTheFile`, `EditsStayLocal` (`PriceSpec => []PricesFollowFile`,
  `=> []EditsAreLocal`), for any models, columns, rates, editors and readers.
  `PriceInv` says what each party holds of the file: an editor that is alone has
  read it (`AloneReads`), a reader that no write raced has its present text
  (`ReaderHolds`), a loader with the file's time has the table of its text
  (`LoaderHolds`), and the last edit alone is the file's text applied to the table it
  was shown (`LastHolds`). `EditsAreLocal` then is about two tables and `Compute`: the
  columns a call is charged at are the same in both unless the edit set the fast
  input rate (`RowsAfterEdit`, `ComputeIs`, `WholeIsPriced`).
- `FindingsAlwaysHold`, `FindingsAlwaysAgree` (`RulesSpec => []FindingsHold`,
  `=> []FindingsAgree`), for any session. `RulesInv`: what is stored, or about to be, of
  a lasting kind is a finding now (`LastingSo`); a pass that saw every row has all
  findings in hand (`PassHolds`), and when no row is unseen, all are stored
  (`AllFound`). That lasting kinds last is a lemma about each of their rules when a
  row comes in anywhere in the order: a race of two calls stays one, and a read that
  comes before the first read within the hour comes even sooner. The other kinds
  look at neighbours, or for something absent, and do not last. Agreement is
  no matter of order: it is proved of every sequence of rows.
- `CallsStayApart` (`IdentitySpec => []CallsKeepApart`), for any calls, gap and
  restarts. `IdentityInv`: a life of serve ends before the next one's calls
  (`LivesApart`); a made-up key names life, time and attempt (`KeysApart`), a
  made-up session its group (`SessionsApart`); the resolver's entry of a group is the
  call of it seen last (`ResolverHolds`); and `GapsHold`.
- `StreamsAreReadRight` (`StreamSpec => [](StreamTypeOK /\ StreamIsReadRight)`), from
  `StreamAssumption` alone: streams of any length and number of events, all
  chunkings. `StreamInv` says while a stream is read (`ReadsOn`): for some k, what is
  in the carry followed by what is yet to come is the text of the stream after its
  first k events (`Coming`), no event ends in the carry, and the frames are those of the
  first k. So each turn of the loop of `Feed` cuts exactly the next event, at whatever
  byte the chunk ends (`CutOne`, `DrainedIs`), and `Finish` reads the last one if the cut
  took its blank line (`NoneLeft`). Below it are lemmas about texts: where the lines
  and the endings of an event are (`ShortText`, `LongText`), that no terminator is found
  before its end (`ShortEnds`, `LongEnds`), that every ending, and what the cut leaves of
  it, is read as the same lines (`ShortParses`, `LongParses`). Above it are lemmas about
  cost: by induction over the events the usage is what the lines so far say (`CostsSoFar`,
  `EventCosts`, `StreamCosts`), because totals come in order the last is the greatest
  (`CostsAre`), and one object folds as its three frames do (`ObjectCosts`). What a loop
  computes is proved of each position by well-founded descent (`Climb`), since
  induction theorems that take an operator are out of reach.
- `RekeyAlwaysKeepsAll` (`RekeySpec => []RekeyKeepsAll`), from `OldAssumption` alone, for
  any captures, transcripts and number of runs. None of the five parts is
  inductive: the passes work from rows loaded before. `RekeyInv` has three groups.
  `RowsInv`: what a capture's row and a line's row look like (`RowsShaped`), that each
  kept capture is in one row (`CapturesHeld`) and each replay names the row of its
  original (`OriginalsNamed`, `ReplaysNamed`). `HandInv`: a loaded row is the row in
  the table but for what a merge may have repointed (`TodoHeld`), and each row a
  pass is to repair is repaired or still in its hands (`KeyedBehind`, `MovedBehind`).
  `SessionsInv`: every session with a row is known or about to be folded
  (`SessionsKnown`), and `TotalsAdd`. There is one lemma per action.

Remarks, each found while modelling and not stated by any text of the code:

- Rules that search a body look at it under its Content-Encoding, so every
  compressed answer with billed thinking is reported as `thinking_display_omitted`,
  and an error in a compressed body is not seen (`rules.go:130`, `146`, `231`).
- Session warnings are never withdrawn: `cache_write_never_read` stays after the
  read arrived. `cache_invalidated_by_tools` is hidden by a row without usage that
  has a body (`rules.go:336-355`).
- `Resolve` uses a call's start in the order of ends, so a long call moves its
  group's time back and can split a conversation (`session.go:35-36`, `63-66`).
  Requests cut at the cap share an empty prefix hash (`meta.go:53-57`).
- The loader notes the file's time after the read: a write in between is missed
  until the next one (`pricing.go:454`). A torn file reads as empty, a deleted one
  leaves the old table, one that does not parse drops all overrides; `clens prices --edit` rewrites such a file as empty (`cli/prices.go:206-211`);
  concurrent editors lose updates. Files with CRLF are not split on blank
  lines.
- Rekey merges the candidate as it was loaded, so that a `replay_of` changed in
  between is stale (`store.go:1922-1947`); this takes a replay whose answer repeats an
  id. A purge leaves session totals to the next fold, and pass 2 on a purged row
  makes an empty session.
- So does the tailer: between its insert and its fold (`jsonlogs.go:371-389`), rekey can
  move the row on and delete the session it emptied; the fold makes the session
  again with no row (`session.go:96-111`), and nothing deletes it later, against the
  intent at `store.go:867-871`. `TotalsAdd` allows these sessions (`remade`) and no other.

## 13. Runs

| run | module | part of | expected |
|---|---|---|---|
| `archive_safe` | `MCBodyArchive` | section 3 | pass |
| `archive_progress` | `MCBodyOverlap` | section 3 | pass |
| `archive_deletes` | `MCBodyArchive` | section 3 | violation |
| `capture_safe` | `MCCapturePipeline` | section 4 | pass |
| `capture_shutdown` | `MCCapturePipeline` | section 4 | violation |
| `tail_safe` | `MCTranscriptTail` | section 6 | pass |
| `collect_safe` | `MCCollectors` | section 7 | pass |
| `collect_cost` | `MCCollectors` | section 7 | violation |
| `serve_safe` | `MCServe` | sections 8 to 11 | pass |
| `figures_safe` | `MCFigures` | sections 5 and 12 | pass |
| `secrets_touch` | `Secrets` | section 10 | violation |
| `schema_upgrade` | `MCSchemaOpen` | section 11 | violation |

Every property of a passing run has a mutant in `PROJECT.json`: a change to a
mapped definition, as a plausible bug would make it, under which TLC finds the
property violated. Each module states a type invariant (`TypeOK`, `FeedTypeOK`, ...);
the runs list only properties about hazards. The types of `BodyArchive`,
`CapturePipeline`, `EventMerge`, `ServeLife`, `LiveSettings` and `StreamParse` are part of proved
invariants; the other proofs state the types they need themselves.

`CHECK_DEADLOCK FALSE` is given where a bound ends a behaviour: the parts of
`MCServe` and `MCFigures`, and the calls of `secrets_touch`, stop when their edits, calls or processes are used up.

## 14. What stays with TLC, and findings

Liveness under fairness, and anything with ENABLED, is out of the proof system's
reach: `EligibleIsArchived`, `JobEnds`, `ConsumerReturns`, `Settles`, `LineLands`,
`EveryCollectorRuns` and `StopEnds` are model-checked only. Every other
property of a passing run is a theorem, some under a hypothesis that its section
names and gives the reason for: `Serialised`, `OneFile`, `Days <= 2 * Lookback`,
`~EarlyAnswers`, `~Overlap`, one patient restart. The violations are found by TLC as traces at the bounds given.

| run | where | code against text |
|---|---|---|
| `archive_deletes` | `store/archiver.go:386` | collection can delete the only copy, against `archiver.go:314-318` |
| `capture_shutdown` | `consumer/consumer.go:194` | the last flush writes nothing, against `consumer.go:187-188` |
| `collect_cost` | `cli/refresh.go:161` | the days of a failed cost report are not asked for again, against `adminrep.go:243-244`, `ingest.go:5-6` |
| `secrets_touch` | `secret/secret.go:185` | a rewrite by a read that fails or dies loses both credentials, against `secret.go:178-180` |
| `schema_upgrade` | `store/store.go:245` | two Opens leave the version behind its columns, against `store.go:160-162` |

Two remarks on shutdown and purges that no run states: calls that the proxy
still accepts after `Run` returned stay in the queue (`serve.go:330`; `Accounted` counts them
as queued); a purge leaves the totals of the sessions it emptied until something
folds them.

## 15. Not modelled

- Quota estimate and reconciliation: sums and ratios in floating point, computed
  at each request and written nowhere. There is no state and no step.
- Model catalog: a fetch and an upsert. Read handlers and read-only commands:
  queries and printing. Dry runs only print (that of `purge --unpriced` counts other
  rows than the purge deletes).
- `reflag`: it repairs rows that only older binaries wrote; no row of the present
  code satisfies its condition (`CompleteMeansWhole`).
- Redaction, decompression, JSON of a line or an event, the fuzzy match of model
  names, prompts, file permissions, the keyring: data or I/O.
- Web assets, process detachment, and what SQLite itself guarantees: a statement or
  transaction is one step.
