# vault-engine in TLA+

vault-engine keeps a directory of markdown files (a *vault*, edited by hand in
Obsidian) and an SQLite database that mirrors it, and offers tools that query and
change both over MCP.  This directory models the parts of it whose correctness
depends on the order in which things happen, checks the models with TLC, and proves
the main safety properties with TLAPS.

Paths below are relative to the repository; the code is under `src/`.

## 1. The system

### One thread, three writers of a file

The engine is a single Node.js thread and calls SQLite synchronously, so its
handlers do not interleave with each other except where one awaits.  Concurrency
comes from outside and from time:

- a **user's editor** writes, renames and deletes the same files at any moment, also
  between two system calls of one handler;
- **timers and events** (debounce, max-wait, parse retries, the write-lock TTL, the
  reconciler's interval, the normalizer's cron, the embedder's idle timer) run
  between handlers in an order nobody controls;
- the **embedder** is a child process answered asynchronously;
- the **process dies**: memory is lost, committed rows and renamed files stay.

### Inventory

| component | source | state it keeps | operations | what makes it hard | what makes it correct |
|---|---|---|---|---|---|
| Write pipeline | `src/pipeline/execute.ts`, `delete.ts`, `file-writer.ts` | `nodes` and dependent rows, the file | executeMutation, executeDeletion | file and transaction are two stores; the no-op rule; four kinds of callers | the row's hash tells what the file held when the row was made |
| Watcher | `src/sync/watcher.ts` | timers and retry counts per path | event, fire, processFileChange | lost and late events, truncated files, the file changes between two reads | every saved text reaches the database |
| Reconciler, startup index | `src/sync/reconciler.ts`, `src/indexer/indexer.ts` | the sweep in progress | sweep, fullIndex, indexFile | files are skipped by modification time | nothing is skipped that has not been read |
| Normalizer | `src/sync/normalizer.ts` | cron timer | runNormalizerSweep | overwrites files without reading them | only replaces what the database has |
| Write lock | `src/sync/write-lock.ts` | recent writes with a TTL | markRecentWrite, isLocked | suppresses events for five seconds | no change is suppressed for good |
| Index mutex | `src/sync/mutex.ts` | running flag, queue by path | run, enqueue, onIdle | dropped runs, a queue left after an error | queued events are processed |
| Batch mutation | `src/mcp/tools/batch-mutate.ts` | backups and created files of one call | create, update, delete operations | one transaction, many files, partial failure | all or nothing |
| Node versions | `nodes.version`, `src/mcp/tools/update-node.ts`, `rename-node.ts`, `stale-helpers.ts` | a counter per node | expected_version checks | composite operations, several writers | a stale call changes nothing |
| Rename, move | `src/mcp/tools/rename-node.ts` | list of file-system undo steps | executeRename, query-mode move | references in other files are rewritten too | files and rows move together |
| Undo | `src/undo/*.ts` | operations and snapshots | createOperation, restoreMany, cleanup | later operations on the same nodes, expiry | restoring what was before, or saying why not |
| Embedding indexer | `src/search/indexer.ts` | queue, retry counts, `embedding_meta`, `embedding_vec` | enqueue, processOne, removeNode, clearAll | results arrive after the node has changed or gone | vectors belong to the node's present text |
| Embedder host | `src/search/embedder-host.ts` | child, pending requests, idle timer | embed, killChild | the child dies or is killed with requests pending | every request is answered once |
| Resolver | `src/resolver/*.ts` | `resolved_target_id` of every link | refreshOnCreate, -Rename, -Delete, backfill | a new node may be a better match than the one stored | a link points where resolution would point |
| Schemas, global fields | `src/schema/*.ts`, `src/global-fields/*.ts` | schema rows, claims, field types, schema files | create, update, delete, propagate, render | one change touches many nodes and files | no half-propagated schema |
| Validation | `src/validation/*.ts` | none | merge, coerce, validate | conflicts between the claims of several types | merge does not depend on the order of types |
| OAuth provider | `src/auth/*.ts` | clients, codes, tokens | authorize, exchange, refresh, revoke | replays, expiry, rotation | a code buys one grant |
| Extraction | `src/extraction/*.ts` | cache rows by content hash | get, assemble | concurrent misses, nested embeds | limits hold, one row per content |
| Parser, renderer, query tools, database schema, HTTP transport, UI | `src/parser`, `src/renderer`, `src/mcp`, `src/db`, `src/transport` | none of their own | | text and SQL | |


The hazards each part is exposed to, with the line where they bite and the property
that would catch them, are listed in `PROJECT.json`.

## 2. Plan

The order is that of the damage a fault would do: first what may lose a user's text,
then what may tear rows and files apart, then what may show stale answers, then the
rest.

| # | modules | what they are about | state |
|---|---|---|---|
| 1 | `VaultSync` | every writer of a file and of its row: user, watcher, sweeps, tools, normalizer, crash | done |
| 2 | `AtomicBatch`, `BatchMutate` | a batch of operations in one transaction, with its rollback of files; refines its promise | done |
| 3 | `NodeTools` | the tools that change one node, their composite operations, the version counter | done |
| 4 | `EmbeddingIndexer` | the queue, overlapping calls, the child process with its idle kill, deletions meanwhile | done |
| 5 | `UndoLog` | operations, snapshots, conflicts, expiry and cleanup, with every tool that leaves a snapshot, users and the watcher | done |
| 6 | `Validation`, `Schemas` | the merge of claims and coercion as functions; changes of schemas and fields that propagate to nodes, preview, confirmation, schema files, and their undo | done |
| 7 | `Resolver` | links resolved in tiers and refreshed piecemeal, against resolution from nothing | done |
| 8 | `WatchTimers`, `IndexMutex` | debounce, max-wait, parse retries and their cancellation in discrete time; refines the `timer` of 1 | left |
| 9 | `OAuthTokens`, `ExtractionCache`, `Chunker` | codes and tokens under expiry; cache of extractions; chunk boundaries | left |

Abstract specifications: `AtomicBatch` (done); a *projection* specification, "rows
follow files", that `VaultSync` implements.  For 5, 6 and 7 the promise is stated inside the module:
`UndoLog` and `Schemas` keep in their log the states that an undo should return to (`was`), and
`Resolver` compares the stored node of a link with `Resolve`, resolution from nothing.

Theorems, in order: the inductive invariant of `VaultSync` and its two safety
consequences; of `BatchMutate`, the invariants of the call and of its rollback, what a preview
predicts and the refinement of `AtomicBatch`; of `NodeTools`, versions, paths, files and what a
stale or refused call may do; of the embedding index, that it has no rows of nodes that are gone,
vectors for every row, and that no node is forgotten; of `Resolver`, that every stored and every
missing answer is explained; of `UndoLog`, that snapshots are true and all five properties of its
runs; of `Schemas`, that claims are owned, and what refusals, accepted changes, calls, starts and undo do
to values and files, all eight properties of its passing run (all done).

Modules that are proved about take their data as CONSTANTS (functions such as `Render`
or `Absorb`, the start of the database), have one action per operation or handler step,
and use no RECURSIVE operator.

## 3. VaultSync: files and rows

### State and code

| variable | in the code |
|---|---|
| `disk` | the markdown files of the vault |
| `row` | `nodes` with its dependent tables, per path: the content hash and the state |
| `mtimeEq` | paths for which `nodes.file_mtime` is the modification time of the file |
| `age` | how long a file is unmodified, as far as the normalizer's quiescence check and the sweeps are concerned |
| `ev` | events of the operating system that chokidar has not delivered |
| `timer`, `retry` | `pending` timers and `retryCount` of `scheduleIndex` |
| `recent` | `WriteLockManager.recentWrites` |
| `phase`, `sweeping`, `todo` | startup, the loop of `fullIndex` or of a reconciler sweep |
| `op` | the handler in progress, with what it has read so far |
| `raced`, counters | history and bounds |

A handler runs without interruption by other handlers, as the process has one thread
and SQLite is called synchronously.  A user's editor and a crash do come in between, so
each handler is cut where it touches the file system, and nowhere else: `Fire` reads the
file, `Process` reads it again, `Commit` writes the row; `WriteFile` replaces the file,
`WriteDb` commits the row; `ToolDelete` commits the deletion, `Unlink` removes the file;
`SweepVisit` stats, `SweepRead` reads; `IndexRead` and `IndexStat` do it in the other
order, as `indexFile` does.  `op.touched` records that an editor came in between.

Texts are model values and a hash is its text.  What validation, coercion and rendering
do to a text is given by three constant functions: `Absorb` (the watcher's path,
which keeps the previous value of a field that is rejected), `IndexState` (`doIndex`,
which takes values as they stand and makes a body of text that does not parse) and
`Render`.

Abstractions, with the reason each is sound for the properties:

- times are not numbers: `mtimeEq` says of which files the time, in whole milliseconds, is the one
  in the row.  The code stores `Date.now()` at a commit (`src/pipeline/execute.ts`, lines 337 and 382)
  and compares it with floored file times (`src/sync/reconciler.ts`, lines 59 to 65), so the two may
  coincide for the file just read or written, for a save during the handler, and for any later
  save (in the same millisecond, or by a tool that sets the time).  `RowTime` leaves all of that
  open, whenever a row or a file is written; `raced` holds the paths where a coincidence may hide a
  save from the sweeps;
- the transactions of `fullIndex`, which hold up to `BATCH_SIZE` files, are one file long:
  a crash in a longer one loses a prefix of what is indexed again at the next start;
- the listing of a sweep and the deletions that follow it are one step;
- equal consecutive events of a file are one event;
- the quiescence window (60 minutes) contains a sweep (every 15 minutes) that reached the
  file and whose database writes succeeded: `age` goes `new`, `swept`, `quiet`;
- `indexFile` throwing in a timer is an unhandled rejection, on which Node.js exits;
- the bodies passed to `IndexMutex.run` are synchronous: when several unlinks are delivered in one turn
  of the event loop the later ones are queued and run in turn, which is `Deliver` after `Deliver`;
- the one-shot `--normalize` started as a second process is left out.

### Runs

- `VaultSyncLossy`: one file with texts that parse, are rejected or do not parse, three saves or
  deletions by the user, a tool call, one crash or failed write, and events that may be lost.
  `Convergence`: when the user, the tools and the faults stop, database and file agree for good,
  unless the text does not parse or the file is in `raced`.  `NormalizerSafe`: the normalizer, which
  never reads the file it replaces, replaces only text the database has taken in.  Three saves are
  enough for a handler to be overtaken twice, once at each of its two reads.
- `VaultSyncTwoFiles`: two files that share the sweep, the handler in progress and the timers.
  Checks the inductive invariant `Inv` and `MtimeSkipSound`: a file skipped because of its
  modification time holds what its row was made of, unless it is in `raced`.

A path is in `raced` from a save that the modification time does not show until the file or the row
is written again: a save in the millisecond of the row's time, or one between the read and the stat
of `indexFile` (`src/indexer/indexer.ts`, line 352), which reads a new file and *then* stats it.
When the event of such a save is lost, every later sweep skips the file.  That is what the code
does, and without the exception TLC refutes both properties; with it they say that nothing else hides
a text.

Three more facts are visible in the model and are no properties: the normalizer replaces
text that does not parse by the canonical text of the old state, which the implementation
notes rule out (`docs/superpowers/specs/2026-04-11-phase3-implementation-notes.md`, line
271); a tool that comes before the debounce timer replaces what the user saved a moment
ago (`WriteFile` has no guard on what the file holds); and the startup index replaces the
row of a known file that does not parse by a bare body, where the watcher leaves it alone
(`SweepRead`, `Process`).

### Fairness

`FairSpec` assumes weak fairness of the steps of a handler (it is one JavaScript
function running), of the restart (`StartUp`: a service manager restarts the engine),
and of the steps of a sweep; strong fairness of `SweepStart` (an interval timer), of
`Deliver`, `Fire` and `TtlExpire` per path (timers and events queued in an event loop,
enabled only between handlers and hence not continuously).  Nothing is assumed of the
user, the tools, faults, lost events or the normalizer.

### Proofs (`VaultSync_proofs`)

`InvInductive`: `Spec => []Inv` for all paths, texts, functions and bounds, from
`ConstantsAssumption` only.  `MtimeSkipSound` and `NormalizerSafe` are not inductive:

- a handler that is about to commit must still hold what the file holds unless an
  editor came in between (`HandlerInv`), or its commit would record a hash for a text that
  is gone;
- `NormalizerSafe` speaks of a handler already started; what lets it start is the age of
  the file, so the invariant needs that a file that is not `new` is in its row, does not
  parse, is in `raced`, or is about to be looked at (`AgeInv`, `Pending`).

`TypeCorrect`, `SkippingIsSound` and `NormalizerIsSafe` follow.  `Convergence` is
liveness under fairness and is only model-checked.

## 4. AtomicBatch and BatchMutate: all or nothing

`AtomicBatch` is the promise of the tool's description: files and rows change together
in one step, or not at all.  `BatchMutate` is the tool: one SQLite transaction around
operations that write and unlink files as they go (`pc`, `todo`), a list of `backups`
and a list of `created` files with which they are put back when an operation fails
(`Restore`, `RemoveCreated`, in that order and in the order they were taken).
`dry` is a dry run, which rolls the transaction back and touches no file; `saved` is what
a rollback returns to.  Nested transactions are savepoints of the outer one, so only the
outer rollback counts.  A user may save a file during the call; a write, an unlink, `COMMIT`, a
restore or the removal of a created file may fail, and so may the removal of the deleted nodes'
vectors after the commit (`deleted`, `RemoveNodeFails`); the process may die.

The refinement mapping shows the abstract files and rows of before the batch until the
call returns.

- `BatchOrderly`: batches with at most one operation on a path and every row's file
  present: `Atomic` (the refinement).
- `BatchFaults`: any two operations, and a creation with any two valid ones on its path, rows whose
  file is missing, a user, one fault: `FailureRestores` (a failed batch puts back every file it had
  one operation on), `AppliedInSync` (file and row of a reported operation agree) and
  `DryRunPredicts` (a preview that nobody disturbs succeeds just when the batch would).  Two
  operations and one fault reach every pair of (what was done, what failed); three on one path
  reach a preview that goes on from the second thing it did.

The batches of `BatchOrderly` have at most one operation on a path because `Atomic` does not hold
with more: the two backups of a file are restored first to last, so the text after the first
operation stays.  With the batches of two updates of one file, the second of them invalid, TLC shows
it in that configuration.

`DryRunPredicts` is about batches whose operations build on one another.  A dry run composes what
they do to the rows, in its transaction, and not what they do to the files, and `Misled` names the
two ways in which that shows.  A preview of a deletion followed by a creation at its path fails where
the batch would succeed, because the creation asks the disk (batch-mutate.ts:190); this is at odds
with the "composed effects" of the tool's description (batch-mutate.ts:104), and dropping that
disjunct of `Misled` makes `BatchFaults` report it.  And an update that writes again what an earlier
one wrote is a no-op of the batch and not of the preview, whose versions then run ahead, so that a
deletion that compares the version of a node it comes third on may be skipped in one and not in the
other; it takes a fourth operation to see that, more than the run has, and the proof is what shows
that nothing else is needed.

Also visible: when removing the vectors of a deleted node fails, the transaction has committed and
the backups are gone, but the same `catch` takes back the created files and reports a failure
(`outcome = "torn"`, batch-mutate.ts:406-461), of which no property speaks; an update of a file that is missing is in neither list of the
rollback; a crash in the middle leaves files without their rows, which is the startup
index's business (`VaultSync`).

### Proofs (`BatchMutate_proofs`)

All theorems are for batches of any length.  `BatchInvInductive` needs no assumption but those on
the constants.  Its invariant has three parts: `CallInv`, which ties the phase of the call to what it
has found out about its operation; `AppliedSoFar`, `AppliedInSync` with the row of a deletion, which
is gone before its file; and `RestoreInv`.  `FailureRestores` speaks of the end of a
rollback, so `RestoreInv` says of every moment before that what is in `backups` and `created` for a
file is enough to bring it back (`Recoverable`), and that a file whose operation is still to come is
untouched (`Waiting`).  `BatchTyped`, `AppliedIsInStep` and `FailureRestoresFiles` follow.

`PreviewsPredict` and `BatchIsAtomic` compare the call with `Result`, a fold over the batch.
`ResultInv` says that what the call has done is the fold of a prefix, that what is left is the rest
(`TodoIsRest`), and where inside an operation the call stands; `SequenceFacts` has the induction along
the prefixes.  A call that writes is exactly where `Result` is.  A preview is not, and `Previewed`
says path by path how near it is: the same row until the path has had two operations, then a row
where `Result` has one, unless a deletion has compared a version after two (`Doubtful`); and no file
without a row has come or gone unless a node there was deleted (`Freed`).  `PreviewsPredict` needs no
assumption on the batches; `Misled` in the property is the negation of what its steps need.
`BatchIsAtomic` assumes `Undisturbed`, as its run does: no batch names a path twice, no user and no
fault; with any of these the tool is not atomic.  `AtomicInv` adds that every row has its file.

## 5. NodeTools: composite operations and versions

A tool never awaits, so a call is one step; what makes it interesting is that it is a
sequence of commits and file moves, each of which can be refused after the previous one
took effect.  The steps are operators from worlds (`row`, `disk`, `out`) to worlds:
`Mutate` is `executeMutation` for a tool, `Rename` is `executeRename`,
`Moved` is `moveNodeFile`; an action composes them as the tool does.  A rename can throw half way:
`Thrown` are the worlds it may be in by then, with the file moved and any part of the referring nodes
written.  SQLite takes the rows back; the files are put back by the undo steps that
`executeMutation` and `executeRename` have pushed, in reverse order (`Unwound`), if the caller passed
a list for them: `rename-node` does, `update-node` does not.  `held` is what each
client remembers of each node, from `get-node` or from the answer to an earlier call; a
client sends that version as `expected_version`, and an anonymous caller sends none.
`trash` is the undo snapshot of a deletion.  `Ops` selects the operations of an instance.

A content is a text and one link, the value of a reference field (a rename that keeps the title
writes its referring nodes all the same, `src/mcp/tools/rename-node.ts`, line 197); links resolve by
title with the shortest path (`Resolves`), which is one of the resolver's five tiers.  A text in `Invalid` is one
that validation refuses from a tool and tolerates from the watcher; a referring node with
such a text makes a rename fail, as any other exception would.

- `NodeChecked`: update, rename and delete by a client and by anonymous callers, beside a
  user and the watcher.  A call that names a version and changes the node replaces
  exactly what its caller has seen (`OverwritesOnlyWhatWasRead`), a refused call leaves
  neither rows nor files changed although a rename may throw after it moved its file and wrote
  over an edit that no row has yet (`RefusedChangesNothing`, `RowHasFile`; their mutants drop one kind
  of undo step each), a stale call that succeeds has changed nothing
  (`StaleChangesNothing`), and a version names one state (`VersionNamesState`).  At the start the
  watcher has taken up a text of the referring node that a tool may not write.
- `NodePlaces`: two directories, title changes that fail half way, moves, deletions,
  their undo, restarts: `OneRowPerPath`.

A title change by `update-node` is left out of `NodeChecked`: with a new title and unchanged content
it renames despite a stale version, as the no-op rule comes before the check and the rename is not
checked.  `Ops = {"save", "watch", "title"}` refutes `StaleChangesNothing`.

`NodeChecked` leaves out, besides title changes by `update-node`, two operations that do
not keep these properties.  With a new directory `update-node` moves the file and then
answers `STALE_NODE`, against `RefusedChangesNothing`.  Undoing a deletion starts the
node at version 1 again, and old versions become current one after another, against
`VersionNamesState`.  Adding `"undo"` to `Ops`, or
`"move"` with the two directories of `MCTwoDirs`, shows it.

Two nodes and three titles suffice for a referring node, a rename onto a free title, and
a rename into an ambiguous one; that several referring nodes are put back when another
throws takes more nodes, and is proved for any number of them.  Version 3 allows a change by each of two writers after
the client's read; one save by the user is enough to make the row stale.

Also visible: the startup index takes up an edit without raising the version (it is not in
`NodeChecked` either), and a title change by `update-node` that fails at a referring node leaves the file at its new
path and the row at the old one (no list of undo steps is passed).

### Proofs (`NodeTools_proofs`)

Every property of the two runs is a theorem for every vault, set of callers and content.
`NodeToolsConstants` assumes of the database at the start what its schema says
(`src/db/schema.ts`, lines 13 and 20): paths are unique, versions begin at 1.

- `VersionsNameStates` assumes `Raising`: that the startup index, the directory move and the undo
  of a deletion are not in use, the three operations that do not raise the version.  The invariant
  `VersionInv` adds that no caller remembers a version above the present one (`Remembered`); without
  that a step that raises the version could reach one that somebody remembers with another content.
  The argument is compositional: each step of a tool leads to a world that is `Later` (every row
  still there has a higher version or looks the same), `Later` is transitive, and an answer from a
  later world preserves the invariant.  `update-node` with a new title is included although
  `NodeChecked` leaves it out.
- `NodesTyped`, `PathsAreUnique` and `RowsHaveFiles` follow from `PlacesInv`, for every set of
  operations.  A tool looks once whether its path is free, and then commits
  several times: the proof shows that every part keeps the paths apart (`One`), the files (`Full`)
  and the path free that a later part will take (`Free`).  A title change by `update-node` that fails
  at a referring node loses a file, hence the hypothesis of `RowsHaveFiles`.
- `RefusalsChangeNothing` and `StaleCallsChangeNothing` assume `Checked`, that neither of
  the two operations of `update-node` is in use that break them (`title` and `move`).  The step that takes
  work is the rename that throws.  `Recorded` says of two worlds that every file that differs is that of
  a row that differs and holds what the row says; the undo steps find exactly those.  It holds from the
  moved file to any `Thrown` world because the rows have paths of their own (`One`, from `PlacesInv`)
  and the new path was free; then `UnwoundRestores` follows, and with it that a rename that throws
  leaves the world of a refusal.
  `NoLostUpdate` assumes both `Checked` and `Raising`: a call that is accepted has the present version
  (`CheckedCall`), and by `VersionInv` that names what its caller has seen.

## 6. EmbeddingIndexer: the search index and its child process

| variable | in the code |
|---|---|
| `text` | `nodes`: what `assembleContent` makes of a node, which also decides what it embeds |
| `meta`, `vecs` | `embedding_meta` and `embedding_vec` by group (a node's own text, or a file it embeds) |
| `queue` | the queue of `createEmbeddingIndexer` |
| `job` | the activations of `processOne`: where each waits, its item, the text it sent |
| `loop` | whether the `processAll` of the startup runs |
| `child`, `idle` | `child`, `readyPromise` and `idleTimer` of the embedder host |
| `overtaken`, `unseen`, `dropped` | history |

`processOne` awaits the extraction and the child, so calls overlap: the one of the
startup's loop and one for every file the watcher takes in.  A call is cut at its awaits:
`Take` (up to the first), `Extracted`, `Answer` or one of the failures, then `Failed` (the
`catch`).  `Settled` says that a rejected call and the loop go on in microtasks, before
another event.  A file stands for the text extracted from it; references that do not
resolve and empty extractions write nothing and are left out.  The chunks of a group are
written in one transaction and are one vector here.  The child answers in any order, may
exit, report an error, or fail to start, after which Node.js may or may not report an exit
(`ForkFails`); the idle timer may kill it at work.  A node that comes back under its old id
by undo is left out.

- `EmbedIndex`: two nodes, one of whose texts embeds a file, three calls that can overlap,
  two changes, one fault.  `NothingForgotten`: unless a node changed while a call was at
  work on it or a tool or a sweep changed it, its vectors are up to date, or an item or a call will
  see to them, or three attempts failed.  `NoGhosts`: no rows of a node that is not there.
  `RowsHaveVectors`: a row, which later hash checks take at its word, has vectors.
  `LoopEnds`: the startup loop ends under `FairSpec`, whatever is queued and fails
  meanwhile.  Two changes suffice to overtake a call and to remove an embed that is
  queued; one fault is enough for three failures in a row, as a broken fork stays broken
  and an answer for a deleted node is refused every time.

Two things go wrong that no run states.  After the startup an item may stay in the queue
for ever, without any fault: the watcher takes one item for each file and `enqueue` adds one for
each embedded file too, so `[]<>(queue = <<>>)` fails under `FairSpec` with one call and one change
(the design, `docs/superpowers/specs/2026-04-12-phase4-semantic-search-design.md`, line 102, has "A
single background worker drains the queue sequentially").  And the rows of a file that a text no
longer embeds are deleted when the node is queued, and written again by the item that is still
queued or at work.

`FairSpec` assumes weak fairness of the startup, of the loop, of the child's coming up and
of each call's next step: microtasks and inter-process messages arrive, and the child
computes.  Nothing is assumed of users, tools, the idle timer and faults.

Also visible: the two exceptions of `NothingForgotten` are real.  Of two calls that
embed the same node the one for the older text may write last (`overtaken`), and a tool
that changes a node queues nothing (`unseen`), although the repository's `README.md`, line
9, lists "embedding enqueue" among what every write does; nor does a sweep of the reconciler that
takes in a user's change (`src/sync/reconciler.ts`, line 81, passes no indexer), and `Tool` stands for
both.  All of this lasts until the watcher takes in the next change or the next start.  When a node is deleted, the foreign key removes the rows
before `removeNode` looks for the vectors through them, so the vectors stay (`Delete`).

### Proofs (`EmbeddingIndexer_proofs`)

The safety properties are theorems for all nodes, texts, files, callers and bounds; the
constants are assumed to be finite sets where the code has tables, and texts to differ from the two
marks of a node without one.

- `GhostsKeptOut` and `RowsStandForVectors`: the invariant is their conjunction and that the
  tables are functions; each step either leaves the rows, drops some (`DropRowsKeeps`, `FewerRows`),
  or is `Delete` or `Answer`.
- `NoNodeForgotten`: `NothingForgotten` is not inductive, as a call that is about to answer must
  have the text of its node.  `ListInv` adds, for each call, where it stands and what it holds (`JobOK`):
  a call that waits for the child has the present text unless the node has changed or gone since, which
  the history `overtaken` records.  `Enqueued` and the queue of the startup are folds over the
  files of a text and over all nodes, in an order the code leaves to the database; `SequenceFacts`
  says what such a fold gathers.
- `LoopEnds` is liveness under fairness and stays with TLC.

## 7. UndoLog: taking operations back

| variable | in the code |
|---|---|
| `row`, `disk` | `nodes` (path and content) and the files |
| `log` | `undo_operations` with their `undo_snapshots`, oldest first; `was` is history: all rows before the operation |
| `unused` | ids that `nanoid` has not given yet |
| `answer` | what the last `undo-operations` reported |
| `saves` | counter of the bound |

A tool call is one operation: a sequence of steps (`Created`, `Updated`, `Moved`, `Relocated`,
`Deleted`) on a world of rows, files and snapshots.  The first snapshot of a node in an
operation stays (`Capture`, `INSERT OR IGNORE`); the hash of what the operation left is added when
something was written (`Hashed`), which the no-op rule skips.  `RestoreOperation` is one
operation in its transaction: conflicts (`Conflicted`: the path is taken, the content is not what the
operation left, a later operation has the node), then nodes that are gone, then the others, then
the creations are deleted, then the files (`FileEffects`).  `RestoreMany` takes the latest first and
ends at the first operation that fails.  `Cleanup` expires and deletes operations.  Beside it,
users save and erase files and the watcher follows (`Save`, `Notice`).

- `UndoOps`: three ids, two paths, two texts, every kind of call, a title change with an update and a
  batch that deletes and creates at the same path; three operations and saves together.  A node that
  is reported without a conflict is what it was before the first of the operations taken back
  (`RestoresWhatWasThere`), has a file that says so (`RestoredHaveFiles`), later changes are not
  overwritten unless the caller asks (`EditsSurvive`), and other nodes stay (`OthersStay`).  Three
  changes are two operations on a node with something in between, or an operation, a later
  one on another node at its path, and an edit; every subset of operations is taken back, in every
  order of calls.
- `UndoOthers` refutes `OthersStay` without its exception: undoing a creation unlinks whatever file
  is at the path of the creation, also when its node has moved away and another is there
  (`src/undo/restore.ts`, lines 208 and 322).

The properties name the cases in which the code does not keep them:

- `Displaced` and `Contested`: the no-op rule (`src/pipeline/execute.ts`, line 278) looks at
  the file at the *old* path and the hash of the row; when that file has the same content, the node
  counts as restored and stays at its new path.  Undoing two renames, there and back, in one
  call leaves the node at the middle path with files at both, though the design
  (`docs/superpowers/specs/2026-04-19-undo-system-design.md`, line 152) has "undoing B
  then A restores pre-A state".  The file need not be there when the undo begins: move `n` from
  `p` to `r` and `m` from `q` to `p`, erase the file of `m` and save its text at `q`; the undo of both
  moves takes `m` for restored, renders it at `p`, and then takes `n` for restored if the texts
  agree.  `Contested` therefore counts a row at the path, too.
- `LeftBirthplace`: the path at which an undone operation created a node that is elsewhere now.
- `CarriedAway`: the same for what an undo puts back at such a path, when the creation is taken back
  after it; the node may also be one that the undo itself puts elsewhere before its turn to go: `m` is
  created at `p` and moved to `q`, `n` moves from `r` to `p` and back, `m` moves back to `p`.
  Undoing the first and the last two brings `n` back to `p`, and then the creation unlinks the file.
- An operation that left no hash, one that only moved, has nothing to compare with an edit.

Also visible: an operation is marked undone when conflicts were left open, and only active ones are
accepted, so the conflicts cannot be answered later; and when a call takes back two operations on
a node, a conflict on the later one does not stop the earlier.

### Proofs (`UndoLog_proofs`)

All five properties of `UndoOps` are theorems, for any ids, paths, texts, calls and any set of
operations that is taken back with any answers; the only assumption is `UndoConstants`.  Both
`CarriedAway` and the row in `Contested` were found by proof attempts: three changes on two paths, the
instance of `UndoOps`, are too few to reach them, and TLC shows them with five changes on three.

- None of the properties is inductive, as what an undo does depends on snapshots taken long
  before.  `LogInv` says that the snapshots are true: the row of the node in a snapshot is that of
  `was` before the operation, or the operation created it there (`Recorded`, `Says`); a node is created
  by the first operation that has a snapshot of it (`Once`); ids that are unused are in no row and no
  snapshot; and no two nodes are at one path (`Apart`).  `SnapshotsRecord` states the two parts that
  no run checks by themselves.
- A call is a fold of steps over a world; each step keeps `Made`: the snapshots taken so far say what the
  call began with, and what has none is as it was (`CallFits`).
- An undo is a fold over the log, the latest first, of folds over the nodes.  `UndoSofar` says what
  holds between two operations, comparing the rows and files with those the undo began with: nodes
  out of reach are as they were (`Others`), and so are protected edits (`Edits`); a node has not moved,
  or is where a snapshot of an operation already taken back has it (`Whence`, `Places`); the nodes that
  were put back are what the earliest of these operations found (`Restored`) and have a file (`Filed`).
  `OneOperation` carries it over one operation, `UndoClimbs` over all.
- `RestoredHaveFiles` needs the order of the file effects within an operation: the files of nodes
  that go are unlinked before the nodes that were put back are rendered, so that only a creation of an
  *earlier* operation can hurt.

## 8. Validation and Schemas: fields, claims and values

`Validation` has the pure part: a value is a list of items of a JavaScript type, with a flag for
scalars; `Coerce` converts to a field's type as `coerce.ts` does (which texts read as a
type, and as what, are the tables `Readable` and `ReadAs`, since parsing numbers and dates is a matter of
characters); `EffectiveFields`, `EffectiveRequired` and `EffectiveDefault` merge the claims of a node's
types, where a conflict cancels an override, and `AllowedEnums` are the members that one type allows;
`Validate` is `validateProposedState`.

| variable of `Schemas` | in the code |
|---|---|
| `db.fields`, `db.claims` | `global_fields`, `schemas` with `schema_field_claims` |
| `db.rows`, `db.hash` | `node_fields` and `nodes.content_hash` |
| `db.marks` | `schema_file_hashes` |
| `vault.notes`, `vault.catalog` | the files of nodes; the YAML files of schemas and `_fields.yaml` |
| `log` | operations with their snapshots; `was` and `left` are the database before and after |
| `answer`, `edits` | the last answer; counter of the bound |

A tool call is one step that composes its parts on a world: a transaction that is rolled back
restores `db` and never `vault` (`RolledBack`), and what follows the commit may fail with the
operation already in the log (`Committed` with an answer that is not ok).  Every tool of schemas
and fields is an action, with `update-node` for one field, the undo of any operation, edits of catalog
files, the startup render and the watcher.

- `Schemas`: two nodes (one with type `s1`, one with `s1` and `s2`, which holds a value
  nobody claims), two fields, two schemas, an enum that may shrink, a definition that becomes required,
  a default; every pair of changes, and their undo in any order.  A refused call leaves nothing
  behind (`RejectedChangesNothing`); an accepted change of claims leaves nodes that fit it
  (`AcceptedFits`); values do not disappear (`ValuesKept`); files that said what the rows said do so
  after every call (`FilesFollowRows`, `CatalogFollows`); a user's edit of a catalog file stays
  (`EditedCatalogKept`); undo brings back what was (`UndoRestores`).  Putting back the rendered
  content of a file does not count as a change.  Two changes are enough for each hazard in
  the list, which are of the form "a change, then one that meets what it left", with undo,
  restarts and the watcher free; three were explored with fewer inputs and showed nothing new.  The
  proofs below have no bound.
- `SchemasPreview` refutes `PreviewHolds`: the difference that the commit propagates is computed from
  the caller's claims, that of the preview from the tables (`src/schema/preview.ts`, lines 66
  and 97); after an enum lost members, restating the claims passes the preview, fails in the commit,
  and leaves the file of a node changed.

Exceptions that the properties name: nodes that did not fit their fields before the call; calls that
fail after the commit (the answer is `INVALID_PARAMS`, the change is done and in the undo log);
rows that are not what validation makes of them (`Canonical`: the file that undo renders has
the validated values, the row the raw ones, and the watcher then drops from the row what the file does
not say); the undo of a rename, which removes a field that has got the old name since and the values
under it (`OldName`); the undo of `create-schema`, which removes an edited file; the undo of a
field's creation or rename, which deletes values that nobody claimed under the name (`Unowned`);
and a node whose file and hash already say what an accepted change would write is taken for unchanged, so
that its row does not get the default (`src/pipeline/execute.ts`, lines 277 to 303; in `AcceptedFits`).
It takes a field renamed, a value given under the old name, the rename undone and the field claimed
again: more than the two changes of the instance, and found by the proof.

Also visible, and no property: after a user follows the advice to restore a blocked file to its
canonical content, the file stays stale until the next change of that schema; `update-global-field`
without a change of type neither validates nor renders the nodes; after the undo of an operation on a
field a node looks changed until the watcher refreshes its hash, so the undo of an earlier
operation reports a conflict.

Left out: presentation attributes, `update-schema` without claims, the preview of a change of type,
date tokens in defaults, and changes of a node's types.  In particular their order is constant here,
while the pipeline reads `node_types` without an ORDER BY (`src/schema/propagate.ts`, line 100) and
writes the indices anew, so that a propagation or an undo may come to another order; it decides which of
two types that allow a value in different spellings gives the spelling, and nothing else in the model.

### Proofs (`Schemas_proofs`)

All eight properties of the run `Schemas` are theorems, for any nodes with any types, any schemas, fields,
texts, inputs and start, and for any number of changes.  The assumptions are `SchemaConstants` (ids are
listed once; names of nodes, schemas and fields differ, as do the marks of absence from what they stand
beside; the database at the start is typed and claims only fields it has) and `TextsAssumption`.

- The inductive invariant `SchemasInv` says that every claim is of a field that exists and, beyond the
  state of now, what the records of the log say.  `UndoRestores` is about records taken
  long before, so `Recorded` keeps for each what its operation did: snapshots that hold the
  rows before and after (`Snapped`); of an operation on one schema, that the others stayed
  (`SchemaRecord`); of one on a field, which has no snapshots of nodes, that other fields and the values
  under them stayed (`FieldRecord`); of one on a node, that the catalog stayed (`NodeRecord`).  `Marked`
  says that a hash in `schema_file_hashes` is that of the last rendering unless a user edited the file,
  and `Clean` that without edits every file has a current one.
- `GoodStep` joins the invariant and the bodies of the action properties, and is proved once for each
  action; the theorems are its conjuncts.
- A call is a composition of operations on worlds, and each of these has a lemma that says what it
  leaves: `MutateDoes`, `RenderFilesDoes`, `RerenderNodesDoes`, `RenderRestoredNodesDoes`.  To be
  reasoned about, the updates of several nodes are written in the model as one simultaneous update
  (`Over`), as the change of one node reads no other; that `rerenderNodesWithField` goes in the
  order of the ids, those it is passed in addition last, and stops at the first failure is in its set
  `reached`.
- About `Validation`: what `Coerce` returns, it accepts again (`CoerceItemFits`, `AcceptedAgain`), so that a
  validated state is valid (`StoredFits`); and a field of the result depends on that field alone, of the
  proposed state and of the catalog (`SameFieldSameState`), so that a change of one field says nothing
  about another.

## 9. Resolver: stored links

| variable | in the code |
|---|---|
| `rows` | `nodes`: directory, file name, title |
| `edge` | `relationships`: source, target text, and `resolved_target_id` |
| `version` | `resolved_targets_version`, 0 until the backfill of the first startup |
| `last` | the snapshots of the latest operation, for its undo (older ones are `UndoLog`'s) |
| `silent`, `bereft`, `late` | history: nodes renamed without a refresh, links whose node was deleted, nodes that got their name after the links of a source were resolved |

`Resolve` is `resolveTarget` with its five tiers (`Tier`) and the shortest path (`Before`); `IsKey` is
what the refreshes compare; `RefreshOnCreate`, `RefreshOnRename` and `Backfilled` are the functions
of `refresh.ts`; `ExecuteMutation`, `ExecuteDeletion` and `ExecuteRename` are the writers with the
refreshes they call, and the actions are the tools, the watcher, the startup index and undo.

- `ResolvedLinks`: three nodes; a name, the same name in capitals and with a decomposed accent, and a
  title with a separator beside its file name; two directories; links by title, path, file name and
  another spelling, in bodies and in a field; every operation, three changes, before or after the
  backfill.  A stored node answers to its link (`PointsAtMatch`), a link without a node resolves to
  nothing (`NullIsUnresolved`), and a node that is stored though another is the better match was
  the best one once (`StoredWasBest`), except for the gaps below.  Three changes are enough for a
  node to take a name, another to take it from the first, and the first to go or come back; four
  changes with subsets of the operations were explored and showed nothing new.

The gaps, each an exception by a history variable:

- `silent`: `rename-node` and a move by `update-node` change the row before `executeMutation`
  compares it (`src/mcp/tools/rename-node.ts`, line 157; `update-node.ts`, lines 697 and 897;
  `src/pipeline/execute.ts`, lines 352 to 355), so `isRename` is false and `refreshOnRename` does not
  run.  Links that are not rewritten keep a node that has left their name, and links that waited for
  the new name stay without one.  The design
  (`docs/superpowers/specs/2026-04-17-cross-node-query-design.md`, line 409) has "`rename-node`: edges
  to old name re-resolve correctly. Edges to new name become resolved".  Without the exception and
  with `Ops = {"rename", "update"}`, `NullIsUnresolved` fails.  The startup index is as silent:
  it resolves the links of the file it reads and no others, and the backfill that makes up for it
  runs once in the life of a database.
- `bereft`: a deletion clears links and promotes no runner-up; the next creation may take them by a
  weaker match.  `late`: a new node does not take links from a worse match.  Both are documented
  limits (lines 289 to 294 of the same design).
- A link by file name with `.md` to a file in a directory resolves, and is no key of a refresh.

Abstractions: the title decides the file name (a template of a schema may decide otherwise); of matches
with paths of one length, which `pickShortest` leaves in the order of their rows, the model takes
any, always the same (in the instance every path has a rival of its length); a rename to a title with the same
file name is left out; the nodes of an operation are restored in any order; title changes by
`update-node` are an `Update` and a `Rename`; failures inside a rename roll back (`NodeTools`).

### Proofs (`Resolver_proofs`)

The properties of `ResolvedLinks` hold for any finite set of nodes, any names, directories and links.
They speak of the one node a target resolves to, and are not inductive: when the best match
leaves, the one behind it must be accounted for as well.  The invariant `ResolverInv` therefore says of
*every* node that matches the target of a link that it is no better than the stored one, or came
late, and of every matching node of a link without one that a gap explains why it is not there
(`Good`: `Fits`, `Answers`, `Nulls`).  `ResolveBest` ties this to `Resolve`.

A writer is a sequence of refreshes on a world, and each has a lemma of its own of the form "a good
world is good afterwards" (`RelinkKeeps`, `RefreshKeeps`, `RenameRefreshKeeps`, `DeletionKeeps`); the
lemmas on the actions compose them.  `Undo` is a fold over the nodes of the latest operation in any
order; the invariant holds between two nodes (`Partly`), because a node that comes back or goes
is alone in its operation (`LastOK`).

The theorems need only `ResolverConstants`: names that differ in case are one after normalisation, a
file name is its own file name, and the paths of the database at the start are unique.  Paths may
have one length: `StoredWasBest` speaks of every node that is a strictly better match than the stored
one, by tier and then by length, not of the one that `Resolve` happens to choose among equals.

## 10. What the checks do not show

- Liveness under fairness (`Convergence`, `LoopEnds`) is model-checked on small instances and
  out of the prover's reach.  `PreviewHolds` and the other expected violation are refuted, not proved.
  Induction over data is out of reach as well, as the theorems that state it take an operator as a parameter; what the proofs need
  of folds, they get from `SequenceFacts`, which states induction with *sets* of lengths, of
  prefixes or of subsets in place of the operator (`Climb`, `FoldExists`, `FoldStays`, `FoldClimbs`,
  `FoldGathers`).
- Not modelled yet: the components of rows 8 and 9 of the plan; query mode of `update-node`, which
  runs the single-node steps of `NodeTools` and `Resolver` in a loop and goes on after a failure;
  path sanitising; a crash inside an undo or between the commit of a schema change and the render
  of its file.
- Not going to be modelled: parsing and rendering of markdown as text, SQL generation,
  extraction libraries, HTTP transport, the setup UI: they keep no state of their own.
- A data race cannot occur: one thread, synchronous database.
