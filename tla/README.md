# Token Bill: a TLA+ verification project

Token Bill (`src/tokenbill`) profiles what LLM agents cost. It records or
collects usage, normalises it into one SQLite *ledger*, prices it, rolls it up
by day and reports on it. Most of the code is pure: parsers, detectors,
simulators, statistics and reports over one snapshot. What keeps state and can
go wrong over several steps is at the edges of the ledger. This project models
those parts, checks them with TLC on small instances and proves the main
results with TLAPS.

## 1. The system

| Part | State | Operations | Interacts with |
|---|---|---|---|
| **trace@2 recorder** (`instrument.py`, `_V2Recorder`) | a counter of calls, a bounded queue, a drop counter, `closed`, a daemon thread with an open file | `wrap`, the patched `create`/`stream`, `_enqueue`, the worker loop, `close` | application threads call it; its file is ingested |
| **Claude Code collector** (`adapters/cc_collect.py`, `pipeline/ledger.py`) | a cursor and a parser context per transcript | incremental read, write a trace, save the cursors | reads files another program is appending to; its traces are ingested |
| **Copilot CLI collector** (`adapters/copilot_collect.py`, `adapters/copilot_cli.py`) | a cursor and held messages per session, one high-water mark over the session store | join the messages of a log with the rows of a database, each of which may come first | reads what Copilot CLI writes; skips what the VS Code collector covers |
| **Copilot VS Code collector** (`adapters/copilot_vscode_collect.py`) | a mark, a head and the ids of a late window per span database | extract the new spans into a file, advance the cursor | reads a database that VS Code fills, prunes and recreates |
| **adapters** (`adapters/`) | none | parse a source into requests, sessions, events and provider records | produce what `ingest` stores |
| **merge rules** (`store/merge.py`) | none | `merge_contributions` | the contract of the ledger |
| **ledger** (`store/db.py`) | requests, merge_members, message_index, request_index, sources, lanes, sessions, events, provider records, meta | `ingest`, `reprice`, reads, cursors, findings, receipts | several processes share the file |
| **rollups and retention** (`store/rollups.py`, `store/retention.py`) | daily_rollup, cluster_day, the set of stale dates and the identity cut in meta | `refresh_rollups`, `apply_retention`, `purge`, `rotate_key` | reads and rewrites the ledger |
| **keys and pseudonyms** (`core/keys.py`, `store/pseudonym.py`, `store/retention.py`) | key files, key ids in meta | create, claim, adopt, rotate | `ingest`, the Copilot record store |
| **Copilot live pull** (`copilot/pull_common.py`, `pull_billing.py`, `pull_metrics.py`) | a directory of files, its manifest, exports at GitHub | plan units, fetch with retry, scan, rename, list, resume | the GitHub API; reconciliation reads the directory |
| **vendor pulls** (`recon/pull.py`) | a partial file, a page cursor | fetch pages with retry | an HTTP service; reconciliation reads the file |
| **rates, detectors, simulators, plans, verification, reconciliation, outputs, CLI** | none beyond one run | pure functions of a ledger snapshot | read the ledger |

### What is hard

* *Threads.* The recorder tests `closed` without the lock it uses elsewhere and
  puts later; `close()` may be called by several threads, from `atexit` too.
* *Processes.* Several processes share one SQLite file. Writes are in `BEGIN
  IMMEDIATE` transactions, but some decisions are taken from reads before them:
  the sources table (`ingest`), the stale dates (`refresh_rollups`), a batch of
  inferences (`reprice`), the key to adopt.
* *Order.* Sources arrive in any order, overlap, and come in new versions.
  Merged requests must not depend on it, although they are maintained
  incrementally through index tables.
* *Failure.* A large source is committed in chunks and may stop between two. A
  file may fail to open, write, flush or close.
* *Sources that change under the reader.* Rows commit before or after the lines
  they belong to, spans are inserted long after later ones, databases are pruned,
  evicted from and recreated, directories disappear, exports expire.
* *Time.* Identities, requests and rollups have different lifetimes; what is
  deleted first feeds what is kept longer.

`PROJECT.json` lists each of these hazards at its line with the property that
watches it.

### What would make each part correct

* Recorder: the application is never blocked and never sees an error; every
  call ends on disk or is counted as dropped; a closed recorder has finished.
* Merge and ledger: the stored requests are the merge of the stored
  contributions, whatever the order, the chunking and the failures; no usage is
  counted twice; a source marked as ingested is complete.
* Rollups and retention: a date that is not marked stale has exact sums; the
  number of active users outlives the names; expired names do disappear.
* Collectors: reading a growing source piece by piece loses nothing and counts
  nothing twice; a crash only repeats; what the source itself lost is told.
* Keys: a person is one pseudonym in a ledger, under a key the ledger records; an
  adopted key stays.
* Pulls: what the manifest calls complete is whole and stays; a repeated pull
  gets there.

## 2. Modules

| Module | Models |
|---|---|
| `Recorder`, `MCRecorder`, `RecorderProofs` | the trace@2 recorder |
| `Merge` | the merge rules, as operators on sets of contributions |
| `AbstractLedger` | what a ledger promises: its requests are a function of what it holds |
| `LedgerStore`, `MCLedgerStore`, `LedgerProofs` | incremental ingest, index tables, chunked transactions, failures, purge |
| `Rollups`, `MCRollups`, `RollupsProofs` | stale dates, refresh, repricing, retention, purge |
| `Collector`, `MCCollector`, `CollectorProofs` | incremental collection of a Claude Code transcript |
| `CopilotCollector`, `MCCopilotCollector`, `CopilotCollectorProofs` | incremental collection of Copilot CLI sessions and their store |
| `VscodeCollector`, `MCVscodeCollector`, `VscodeCollectorProofs` | incremental extraction of VS Code's span database |
| `CopilotPull`, `MCCopilotPull`, `CopilotPullProofs` | the resumable pull of GitHub's Copilot sources |
| `Keys`, `MCKeys`, `KeysProofs` | key spaces of a ledger: claim, adoption, cleaning, rotation |

### Recorder

Each application thread (`Callers`) runs `Wrap` and `NoteInvisible` (a test and a set
without a lock), `Begin`, `Return` or `ReturnStream`/`RecordStream`/`LeaveStream`, and
the two halves of `_enqueue`: `CheckClosed` (the unlocked test) and `PutNowait`.
`BeginFails`, `ReturnFails` and `RecordStreamFails` are the error paths that count a
drop; `NeverEntered` (a manager or a coroutine the application does nothing with) and
`RaisesUnseen` (a call that raises where no handler is) are calls that end without a
record and without a count. The worker is `WorkerGet`,
`WorkerHandle`, `WorkerFlush`, `WorkerFinish`, with `WorkerHandleFails` for an
exception. `close()` is `CloseCheck`, `CloseSet`, `ClosePut`, `ClosePutTimeout`,
`CloseJoin`. A step is what happens between two points where another thread can
see or change the shared state. A call is its number; the time span of the
session record is the set of calls it covers; what a record says is left out.
`buffer` is what sits in the file's handles, `file` what is on disk. `lost`,
`torn`, `abandoned` and `raised` are history variables: calls dropped one by one, calls
buffered when closing the file failed, what the application began and let go of (raw
streams, managers, coroutines), and calls that raised unseen. Flags select the
environment: `Orderly` (nobody calls while somebody closes), `Failing` (building a
record, or the file, may fail), `Wedged` (the timeouts of `close()` may expire).

### Merge, AbstractLedger, LedgerStore

A contribution is reduced to what the rules read: its request id, the provider
ids of its attempts, the four parts of its rank, a principal and a start.
`Classes` states connected components as minimal closed sets, which is what both
union-find loops of the code compute. `MergeContributions` is the whole of
`merge_contributions`: colliding provider request ids are found first, then
components, then a winner, a surviving id and a principal for each.

`LedgerStore` has the tables `requests` (with their members), `message_index`,
`request_index` and `sources`. `merge_chunk` is `_Work.merge_chunk`: new
collisions, the groups they affect, the groups each key reaches through the
indexes, the components over incoming contributions and stored groups, and the
rewrite of those that changed. `IngestStart` is the test before the
transaction, `IngestChunk` one committed chunk, `IngestLast` the last
transaction, which also writes the row of the source, `IngestFail` a crash or a
rollback. `PurgePrincipal` and `PurgeBefore` delete requests and re-merge the
ones that keep some members. `forgotten` is a history variable. A transaction
is one step, because SQLite holds the write lock from `BEGIN IMMEDIATE` to
`COMMIT`.

`AbstractLedger` has a set of contributions, the set of known collisions and the
merge of the two; it may add contributions, which may reveal collisions, or forget some.
`LedgerStore` implements it under the mapping `contribs <- Stored`, `collided <-
StoredCollisions`, `ledger <- requests`.

Left out of the ledger: request parameters and diagnostics, lanes, sessions,
events and provider records, cleaning and pseudonyms, prices, and the
`ContractViolation` for attempt and inference ids that two requests share.

### Rollups

A request is the set of its members' documents and the merged row; a cell of
`daily_rollup` is keyed by day and lane kind, its sums are the set of requests
and prices that are added up. `Ingest`, `ShellArrives`, `RepriceRead` and
`RepriceWrite`, `RefreshRead` and `RefreshWrite`, `Retention`, `RetentionFails`,
`PurgePrincipal`, `PurgeBefore` are the writers, `Tick` the clock. Where the
code reads before its transaction, the action is split in two and the process
keeps what it read in `job`. `RetentionFails` is the rollback of
`apply_retention` when two rewritten documents of a request become the same
primary key. `cluster_day` follows the same refresh and is not kept apart.

### Collector

One transcript, since transcripts share no collector state. Offsets count half
lines, so that a stat can fall inside a line. Claude Code appends
(`AppendLine`, `EndLine`), deletes (`Delete`) and starts another file under the
name (`Create`). A run is `Stat` (load the state, stat, compare) or
`SkipUnchanged`, `Parse` (head hash, the two parser passes, the new cursor),
`WriteTrace` and `SaveState`; `SkipFile` is a file that disappeared, `Prune` the
end of a run that no longer finds it, `Crash` any of them. The parser is
translated as operators with the names of its methods (`assistant`,
`close_groups`, `finalize`, `remember_closed`, `line`): open groups, the bounded
window of closed ones, groups re-opened by late lines, and the
message-start-only mark of a call whose tool use is answered. A call is its
message id and largest output.

Everything after the stat is one step of the model, because what is read below
the size that stat saw does not depend on what is appended later. Two
assumptions are made about the surroundings: no file is replaced within a run
(`Create`), and a file with a half-written entry is neither quiescent nor final
(`MayBeQuiescent`). Both bite in the code: the head hash is saved after the reads
(`cc_collect.py:290`), and a run with `--final` takes half a line for the last one and
passes it (`cc_collect.py:246`). Left out: duplicate
uuids, the context of lanes, triggers, tool names and quota, quarantined groups.

### CopilotCollector

A call leaves a message in the `events.jsonl` of its session, a row in
`session-store.db`, or both, in either order; `Resume`, `Wake`, `Say`, `LogRow`,
`Shutdown`, `Quiesce`, `Delete` and `Age` are what the CLI, the user and the clock
do. A run is `Begin` (load the state), one `Prepare` for each file (parse what is
new), `ReadStore` (the rows above the high-water mark) or `StoreLocked`, one
`EmitSession` for each file (`Closed` legs are settled, the others held), `EmitRest`
(rows without a file, the new mark and the ids done above it) and `Save`. What a
run emits is stored at once; `Crash` and `LoseState` are the faults. The parser is
a recursive function of the line number with `handle` as its step, with the names of
the source. `raced` is a history
variable: sessions taken up between the stat of their file and the read of the store.
`Forgets = FALSE` excludes faults after a directory was deleted. Left out: what a
request says beyond its identity, tools, compactions, sub-agents and quota.

### VscodeCollector

Spans are numbered in the order of `(start_time_ms, span_id)`. VS Code inserts a
span when it ends (`Insert`, in any order), prunes the oldest (`Prune`), evicts a
conversation (`Evict`), and its database may be deleted (`Recreate`). A run is
`Read` (state, snapshot, `recreated`, `New`, `dedupe_rows`, the next cursor),
`WriteExtract` or `Abort` (the privacy scan) and `Save`; `Crash` also stands for an
output directory that cannot be written. The history variables say what the
properties must except: `overdue` (spans that ended more than the late window after
the start of another that was there), `excused` (lost spans that no cursor could
know of: inserted behind the mark, or pruned while there was none) and `mistaken` (a
restart in the database the cursor was read from). One assumption: retention is
longer than a span lasts, so nothing older than a pruned span is inserted. Left out:
the OTel outfile, the covered conversations, the note about retention risk.

### CopilotPull

One run goes through the planned units: `Skip` what is complete, `Begin`, the steps
of its runner (`ExportStatus`, `ExportBusy`, `ExportPost`, `ExportPoll`,
`ExportLinks`, `MetricsAnswer`, `Fetch`), `Fetched`, `Scan`, `Rename`, `Unlink`, `Save`
of the manifest. `Retry`, `PostLost`, `Unauthorized`, `Forbidden`, `BadAnswer`,
`NoToken`, `Interrupt` and `Crash` are the failures, `ExportEnds` and `ExportExpires`
GitHub. `FetchShort` is a download whose connection ends within the body: the code takes
the first empty read for the end (`pull_common.py:844`). A file is the export it came
from, how many of its pieces are there, and whether its body ended early. `made` says
that the directory has a visible entry, which the first partial file makes; `Refuse` is
the run that finds one and no manifest (`Stranded`). `tangled` is a history variable:
units whose commit was cut short. The answer to a `POST` that GitHub accepted may be lost
on every attempt, the last included; its export then runs without a name.

### Keys

A pseudonym is a person and the chain of keys applied to it. `Open` and `Claim` are
`_check_meta`, `IngestRead` the adoption test and the cleaning of principals with
the meta read before the transaction, `IngestChunk` a committed chunk, `Abort` an
error or a crash, `Rotate` the re-keying of the ledger, `Put` the record store that
shares the file. Name keys (`h_` values) follow the same scheme and are left out, and
so are the key files.

## 3. Runs

| Run | Bounds | Shows |
|---|---|---|
| `recorder_orderly` | 2 callers, 2 closers, queue of 2, 2 calls; failures and timeouts | every call has exactly one fate, drops are counted, a zero counter means that recorder, queue and file lost nothing, the session record spans the file |
| `recorder_live` | 2 callers, 1 closer, queue of 1, 2 calls, calls during close | every call has one fate here too, callers never block, `close()` finishes, queued calls reach the disk |
| `ledger` | 2 processes, 7 contributions in sources of one and two chunks (one in two versions), in every order, 1 failure, 1 purge | the ledger is the merge (refinement), indexes are exact, nothing is counted twice, a marked source is complete |
| `rollups_one` | 2 requests, 3 views, 4 days, 1 process, repricing, late lane shells | the sums of dates not marked stale are exact; users are counted first, and nulled requests stay counted |
| `rollups_race` | 2 processes | *violation*: a refresh wipes out marks set while it waited for the lock |
| `identity_expires` | one request ingested again | *violation*: retention fails for ever and the name stays |
| `collector_loss` | 2 calls, one with a late larger output, 4 lines and then a file of 1 line, window of 1, 1 crash or lost state | nothing before the saved offset is lost, everything is sent in the end |
| `copilot_collector` | 2 sessions, one of two turns with a chunked call, one with a row-only call that VS Code may cover; 1 fault | mark and cursors pass over nothing, no call is counted twice unless its session raced, a quiet run delivers all |
| `vscode_collector` | 4 spans in 2 conversations, window of 2, 2 removals beside pruning, 1 fault | only overdue spans are missed, none is extracted twice without a fault or a mistaken restart, dropped spans are covered, losses are told |
| `copilot_pull` | a page set, a metrics day, 2 exports (one of them in 1 file or 2 parts), 2 pieces, 1 retry, 4 exports, 2 faults | complete units have all files and are final, the manifest lists exactly what is there, no file mixes attempts, the pull settles |
| `keys` | 1 handle, 3 org keys, 2 export keys, 2 persons, 2 rotations | principals are under recorded keys, persons stay joined, own and adopted keys are told apart, adoption is final |
| `keys_rotation` | as `keys` | *violation*: after a rotation the record store still holds values of the old key |

### Why the bounds are enough to be interesting

A queue of one or two items is full with two callers and a close. The seven
contributions of `ledger` are a transcript, its split entry, a view without
a message id, a provider request id used by another message, a retried request,
and two bridges: groups are joined, taken apart again by a late collision, and
re-merged by purges that take a winner or a surviving id. Its files
overlap and one has two versions, so that every chunk can be
stored before, during and after another process stores part of it. Four days
with periods of one and two days let every date be touched, nulled, deleted and
dropped from the rollups. Four lines are enough for two calls that are closed
together, one of which leaves the window of one and is continued later; the head
hash covers a line and a half, so that a file may grow within it. Two turns give
`copilot_collector` a resume after an unclean end, a chunk that is separated from its
message and a mark held back by one session below the rows of the other. Four spans
let the last one start outside the window of the first and inside that of two
others, which share a start; three of the four can be gone when the fourth arrives, so
that gaps, restarts and evicted marks all occur. Two faults in `copilot_pull` cut a commit
and then its repetition. Three bounds of the code are above what the runs reach: no
session of `copilot_collector` holds more than `PendingMax` messages or settles more than
`DoneWindow` ids, and `vscode_collector` has no more spans than `MaxRecent`; the theorems
assume the same (section 5), and section 4 says what is lost beyond. Two rotations make
chains of three keys. All runs are exhaustive; `MaxCalls`, `MaxCrashes`, `MaxPurges`,
`MaxDay`, `MaxLines`, `MaxTurns`, `MaxRemovals`, `MaxExports`, `MaxRotations` and
`MaxFaults` are the bounds on counters.

Deadlock is checked everywhere but for the recorder, which really stops once its calls
are made and everybody has closed.

### Fairness

`recorder_live`: weak fairness of a caller inside `_enqueue`, of the worker and of
a `close()` that was entered, because the interpreter schedules every runnable
thread. Nothing obliges the application to make calls, the SDK to answer or
anybody to call `close()`. `QueuedReachDisk` and `CloseFinishes` are stated for a
disk that works and timeouts that do not expire. `QueuedReachDisk` also relies on calls
being finitely many (`MaxCalls`): the worker flushes when it finds the queue empty, which
a stream of calls without a pause may put off.

`collector_loss`: the collector is started periodically (weak fairness of `Stat`),
a run that was started goes on, and a live writer ends its line. A file that
nobody writes to is quiescent after ten minutes, so the only `Stat` that remains
possible for an unchanged file with a withheld tail is the quiescent one. That a
read ends is stated as `[]<>(job.stage # "stat")`, which says the same as weak
fairness of `Parse` and `SkipFile`.

`copilot_pull`: the admin repeats the pull, a run goes on, GitHub ends its exports
(weak fairness of each); nothing obliges a fault to happen and their number is
bounded, as no code can promise progress against a service that always fails.

`identity_expires`: a process finishes what it started (weak fairness of the
second halves), and retention is a scheduled job that gets its turn (strong
fairness of a retention that can succeed). The counterexample is a state in
which it can never succeed again.

## 4. Where the code and its documents disagree

The first three are runs that end in a violation, with a finding in `PROJECT.json`.

1. *Refresh race* (`rollups_race`). The stale set is read before the lock and
   written back under it.
2. *Identity retention* (`identity_expires`). Ingest, retention, ingest again: the
   next retention violates `PRIMARY KEY(request_id, member_key)` and rolls back,
   every time.
3. *Rotation* (`keys_rotation`). `rotate` says that "the old key no longer relates to
   stored values"; the Copilot record store keeps licences and activity days in the
   same file, and they stay under the old key.

The others were found with the same models and have no run of their own. A changed
constant or one more property reproduces them. Items 4, 5 and 8 were repeated with the
real code. The claims that the code breaks in items 4, 6, 7 and 8 are definitions of the
modules that no run checks, and TLC finds each of them violated.

4. *Recorder, unseen exceptions* (`ExceptionsAreRecorded` in `RecorderOrderly.cfg`).
   `stream_wrapper` numbers the call and then evaluates `stream(...)` without a `try`
   (`instrument.py:926-929`), so that a call that raises there, or whose manager is never
   entered, has no record; a raw stream that raises from `next()` is recorded by nobody.
   None is in the file or in `dropped`, although "exceptions become attempts".
   `ZeroDroppedMeansComplete` excepts them.
5. *Adoption race* (`AdoptedOnce` in `Keys.cfg` with two handles, no org keys and no
   symmetry). Whether a key is adopted is decided before the transaction that stores it
   (`db.py:1028`), so that two first bundles may both be adopted, without the `UsageError`
   that the second should raise. For the same reason a handle that was open during a
   rotation goes on writing under the old key (`KeysAccepted` with two handles).
6. *Pull, short download* (`StoredVerbatim` in `CopilotPull.cfg`). The end of a body is the
   first empty read (`pull_common.py:844`), and nothing compares it with `Content-Length`:
   a report that was cut gets its final name, its unit is complete, and `--resume` skips
   it from then on. `NoPartVisible` excepts it.
7. *Pull, stranded directory* (`PullContinues` in `CopilotPull.cfg`). From the first
   partial file to the first manifest, a crash leaves a directory that every later run
   refuses (`pull_common.py:1608`, `core/jsonl.py:339`). `Settles` excepts it.
8. *Late lane shells* (`UsersOutliveNames` in `RollupsOne.cfg`). `_Work.shells`
   (`db.py:1882`) changes the lane kind that rollups group by and marks no date. After
   identity retention, the next refresh of the date (a repricing is enough) writes its row
   under the new kind, finds no old row there and deletes the one that had the count:
   `active_users` is 0, which `rollups.py:13-15` rules out. `NulledStillCounted` is
   therefore stated for lanes without a shell. `RollupsFresh` compares the sums of a date
   over all lane kinds, which are exact; the rows of one kind are not.
9. *Recorder, calls during close* (`Orderly = FALSE` in `RecorderOrderly.cfg`,
   `ZeroDroppedMeansComplete`). A call that passed the test of `closed`
   (`instrument.py:825`) before `close()` is put behind the stop marker: neither
   written nor in `dropped`, which `SPEC-v0.2.md:2378` rules out.
10. *Ledger history.* A collision row of `request_index` is never deleted
    (`db.py:1976`), so the requests depend on contributions that were purged.
    `merge.py:3` and the reference `MemoryStore` make them a pure function of the
    stored set; `AbstractLedger` therefore keeps the known collisions beside it.
11. *Request and rollup periods.* With `RequestDays < RollupDays`, deleting old requests
    marks their dates stale and the next refresh recomputes the rollups to nothing,
    although rollups have a longer period of their own.
12. *Collector and one-shot import.* A closed call that gets a late line at the end
    of the file moves the point where the second pass stops (`cc_collect.py:285`) back
    to its first line. Another call may be open there; it is finalized without the
    user entry that closes it in a one-shot import, loses its message-start-only mark
    and is not sent again. The module comment (`cc_collect.py:14-22`) promises the
    requests of a one-shot import.
13. *Copilot CLI, stat and store* (`raced`). A quiescent session is taken up between the
    stat of its file and the read of the store: `settle_all` settles the new row
    without its message, and the message is emitted later as an output of its own
    (repeated with the real code). `copilot_collect.py:21-23` says that an output is never
    counted both ways.
14. *Copilot CLI, lost state after a deletion* (`Forgets = TRUE`). The rows of a deleted
    session are emitted again under other ids; `load` calls a fresh start idempotent.
    The same happens to the ids beyond `DONE_WINDOW` (65,536) while a leg stays open,
    and messages beyond `_PENDING_MAX` (256) of an open leg are dropped.
15. *VS Code, mistaken restart* (`mistaken`). The comment of `_recreated` says that an older
    head "is a different database". When the session cap evicts the conversation of the
    mark and a long span that started before the old head ends, the same database is
    taken for another one and extracted again (repeated with the real code:
    `databases_restarted` is 1 and a span is in two extracts).
16. *VS Code, overdue native span.* A native span that ends more than the late window
    behind the mark is never extracted, yet a synthesized span of its conversation is
    dropped because of it: the call is in no extract. A synthesized span that was
    extracted before its native one ended is in the extracts beside it; the reader of
    the extracts applies the rule again.
17. *Pull, forgotten export.* An entry written after a `PullError`, a 403 or an interrupt
    (`pull_common.py:1770`) drops the pending `export_id`, so that the next run asks for a
    new export instead of the old one (`pull_billing.py:8-9`); `Settles` holds, because
    the old one ends.
18. *Pull, repeated commit.* A commit that was cut short and is repeated in other parts
    leaves files that no entry lists (`tangled`).

Seen while reading, not the subject of a model: the `sources` table remembers only
the latest digest of a source, so versions A, B, A are ingested three times (the
result is the same: `LedgerIsMerge`); the docstring of `SqliteStore.purge` says
that every contribution of a request goes when one of them names the principal,
the code keeps the others; `reprice` marks the dates it read, not the dates the
requests have when it writes (`db.py:1664`; it needs two processes and repricing
together, which no run has).

## 5. Proofs

The theorems hold for every value of the constants that satisfies the named
assumptions, which TLC evaluates in the runs. Each inductive invariant was an invariant
of a TLC run before it was proved. Every property of a passing run is a theorem, but for
liveness; a theorem whose property needs a hypothesis on the constants states it, and the
runs meet it.

Two kinds of lemmas recur, stated in each module of proofs that needs them. Sets of
naturals have a least element (`LeastNat`), and finite sets with a total and transitive
relation a greatest one (`GreatestOf`): they are needed where the code takes a minimum, a
maximum or a winner, and follow from the well-founded order of the naturals without an
induction theorem that takes an operator as parameter. `RecursionOver` shows in the same
way that the equation of a recursive function on `0..n` has a solution, and that its values
stay in sets that each step leads from one to the next; the invariants of both parsers
rest on it.

### Recorder (`RecorderProofs`)

* `RecorderTypeOK`: every variable keeps its type and the queue its bound. The
  induction needs what a thread holds in each of its states (`HandOK`). Assumes a queue
  size above zero. No run checks it again.
* `CallsHaveOneFate`: `OneFate`. The invariant `FateInv` adds what the threads hold
  (`ThreadsOK`) and that a call is once in the queue and once in file and buffer.
* `DropsCount`: `DropsAreCounted`, from `FateInv` and the cardinality of the lost calls.
* `SessionsSpan` and `NothingDroppedIsComplete`: `SessionSpansFile` and
  `ZeroDroppedMeansComplete`, under the hypothesis `Orderly` (`close()` comes after the last
  call; without it both are false, section 4). The second excepts what the application
  abandoned and what raised unseen; that these are the only calls missing under a zero
  counter is what it says. `ClosedLast` says where calls may still
  be once a session record or a stop marker is in the queue.

### Ledger (`LedgerProofs`)

* `MergedGroupsApart`: two merged groups share no contribution,
  no id and no key. It rests on three lemmas about `Classes` for an arbitrary key
  function: classes cover the nodes, are disjoint, and share no key. The first is
  proved without induction: the intersection of all closed sets around a node is
  itself minimal, because the complement of a closed set is closed.
* `MarkedSourcesAreStored`: `Spec => []MarkedMeansStored`. The
  property alone is not inductive, since the row of a source is written when only
  the last chunk is in hand. The invariant `StoredInv` adds that a process in the
  middle of a file has stored all the chunks before its current one.
  `MergeChunkStores` shows that no merge loses a contribution, stored or incoming,
  even where a component is left alone; `PurgeForgets` that a purge only takes
  away what it counts.
* `LedgerImplementsMerge`: the refinement `LedgerIsMerge`. The incremental store, which
  looks up touched groups in its indexes and merges only those, implements
  `AbstractLedger`, which merges everything anew. The invariant `LedgerInv`: the requests
  are the merge of what is stored under the known collisions, every collision among
  stored contributions is known, and the indexes name the request of each of their
  keys. The heart is that the classes of a set with new contributions are the
  classes that the new ones do not touch and the classes of the rest, which is what
  the lookup finds.
* `NothingCountedTwice`, `IndexesSayWhere` and `LedgerTypeOK` follow from `LedgerInv`.

Assumptions: files have at least one chunk and a digest identifies a content
(`FilesAssumption`); contributions are finitely many and differ in their canonical text
(`ContributionsAssumption`); the markers of the index tables are no ids
(`RowsAssumption`).

### Rollups (`RollupsProofs`)

* `UsersAreCounted`: `CountedBeforeNulled`. Every step treats every cell in one of three
  ways: left alone, removed because its date is too old, or recomputed through
  `KeepUsers` (`NextCellStep`); counts are natural numbers (`CellsOK`, which needs
  finitely many requests); a cell with requests is never the absent row (`CellThere`).
* `NulledAreCounted`: `NulledStillCounted`, for any number of processes. `CountedInv` adds
  what `_keep_users` relies on without saying so: a row has the date of its winner and,
  if the winner names one, its principal (`Follows`), and a request whose winner lost its
  name is of a date before the retention mark. `NextFate` shows for each writer that the
  winner of a nulled request was its winner before, or is taken by this retention; a new
  document still has its name, and purges spare the winners of the requests they leave.
* `RollupsTypeOK`, for any number of processes. `RowInv` is what a purge relies on: a row is
  dated by one of its documents, and a principal that all documents name is the
  row's. Without it a purge could take all documents of a request that stays.
* `RollupsStayFresh`: `RollupsFresh` under the hypothesis `OneProcess`; with two processes
  it is false (`rollups_race`). `FreshInv` adds that what the process read before its
  transaction is still so (`Settled`); a touched date is either marked (ingest, repricing,
  deletion of old requests) or recomputed from the rows that the step leaves (refresh,
  purge, and retention, where the recomputed rows differ from the old ones only in names).

`ViewsAssumption` says that a priority ranks the documents of a request, ties of the sources'
priorities being broken by content.

### Keys (`KeysProofs`)

* `KeysTypeOK`, `PrincipalsKeyed`, `PersonsJoined`, `ModeHolds` and `AdoptedForGood`
  (`KeysProofs`): the five properties of `keys`, for a ledger that one process uses at a
  time (with two they are false, section 4). The inductive invariant `IInv` is `TypeOK`,
  `ModeIsRight` and three additions: no org key is used twice (`UsedOnce`); the chain of
  a row is the adopted key alone or the end of the list of org keys the ledger has had
  (`RowsChained`); and an ingest in progress goes by
  what meta still says (`JobFits`), which is what the test before the transaction relies
  on. `KeysAccepted` and `JoinsSurvive` follow from `RowsChained`.

### Pull (`CopilotPullProofs`)

* `PullTypeOK`, `PartsStayHidden`, `CompleteUnitsAreWhole`, `ManifestListsDirectory` and
  `CompleteStays`: all safety properties of `copilot_pull`. The invariant `PullInv` follows a
  unit through the loop: which unit and which export a step may be about (`Placed`,
  `CtxOwned`), what the recorder holds (`Fetching`: its parts are whole unless still to be
  fetched, and a commit moves them one by one), that the entries in memory differ from
  the manifest in the unit at hand only (`Working`), and what the directory holds between
  the renames (`Listing`). `CompleteStays` needs `Working`: a complete unit is never the one
  at hand.

### VS Code collector (`VscodeCollectorProofs`)

* `VscodeTypeOK`, `NoSpanMissed`, `DropsStayCovered`, `LossesAreTold`: from `VscodeInv`, which says
  the same of the saved cursor (`SavedInv`) and of the one a run is about to save
  (`JobInv`): it misses nothing in the database, passes over nothing that is not
  counted or excused, and tells what was pruned. The invariant uses that spans are
  pruned oldest first.
* `NoSpanTwice`: `ExtractedOnce` under the hypothesis that there are no more spans than
  `MaxRecent`, the bound of the state file; beyond it the oldest ids of the window are
  forgotten. `OnceInv`: an extracted span of the database is behind the mark, and inside
  the window it is among the recent ids.

### Claude Code collector (`CollectorProofs`)

* `Invariance`, with `TypeCorrectness` and `NeverSkips` (`TypeOK`, `NothingSkipped`): for transcripts
  of any length and content, any window of closed calls and any head.
* A pass of the parser is a recursive function of the line, and `close_groups` one of the
  groups it closes. `ParserInv` holds after each line: every call of a line that was read
  is an open group, a request of this pass, or delivered (`ReadTo`); a closed group is sent
  with its output (`Covers`), which is why a late line of it that adds nothing is not sent
  again; and an open group has the largest output that was sent of its id (`Grown`). A pass
  that starts at an offset where all this holds for the lines before therefore ends so.
* `Inv` carries that from run to run: it says of the saved cursor and of the one about to
  be saved that the calls before the offset and in the window are delivered, or in the hands
  of the run (`CursorSafe`), if the cursor is of the file that has the name now. A cursor
  of an earlier file is of no use, and `NotRotated` shows that the head hash tells the two
  apart unless there is nothing in the cursor to lose. `StatOK` says that what a stat saw
  is a beginning of what the later reads find.

### Copilot CLI collector (`CopilotCollectorProofs`)

* `Invariance`, with `TypeCorrectness` (`TypeOK`) and `NothingWaits` (`QuietMeansDelivered`): for
  any sessions, calls and windows. `Inv` has three parts. `CliOK` is what the CLI leaves: each
  line of a call is written once, all lines and the row of a call are of one leg, and
  what is in flight is of the leg that goes on (`FlightOK`). `WorkOK` is what a run has read:
  every group stands at the line that opened it, with the leg of that line, and no line
  between the cursor and the new offset is without a group. `ParseOK`, `EmitOK` and `SaveOK`
  say what each stage has yet to do; the last one is what `NothingWaits` needs: a row that is
  not delivered belongs to a session that is not quiescent.
* `NeverSkips` (`NothingSkipped`), under `Roomy`: no session has more messages and chunks than
  `PendingMax`. The code cuts what it holds to the last `_PENDING_MAX`, so that more would be
  lost. `HeldInv`: a line before the cursor is delivered, or among the held messages.
* `CountedOnlyOnce` (`CountedOnce`), under `Windows` and `~Forgets`. `Windows` is `Roomy` and no more
  calls than `DoneWindow`, so that no id that was settled is forgotten and settled again; `~Forgets`
  says that no run dies and no state is lost once directories have been deleted, because a
  repeated run would then settle rows alone whose messages it settled before. `OnceInv`:
  a line that was read and is not held has its row settled with it (`JoinedOK`), in
  the saved state and in the run's; a call counted by its row has no line and gets none, or its
  session was deleted before its message was read (`Alone`). `ClosedIsOver` is the heart of it:
  nothing more is written of a call whose leg is closed, so that the two halves that
  a run sees of a closed leg are all there will be. It needs that the session is
  not in `raced`.
* `Steady` sums up what the steps of the CLI do to what a run has in hand, and
  `CliKeeps` shows it once for all of them.

### Only model-checked

Liveness (`EverythingIsSent`, `Settles`, `CallersNeverBlock`, `CloseFinishes`,
`QueuedReachDisk`), which needs fairness.

## 6. Plan

More of the system: the OTel outfile of the VS Code collector; the vendor pulls of
`recon/pull.py` (one unit without a manifest); `ProviderRecords` (versions of re-reported
aggregates, order-independent like the merge); key files; the collectors composed with
`AbstractLedger` (emitting a record twice changes nothing); the trace@1 recorder.

### Not modelled

The adapters, detectors, simulators, pricing, planning, statistics, reconciliation and
reports, most of the source by lines: pure functions of a snapshot, decimal arithmetic
or formatting, without steps that another actor or a failure could come between. The
synthetic fleets and the oracle are test data. `PROJECT.json` names each part with its
reason.
