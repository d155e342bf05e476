----------------------------- MODULE VaultSync -----------------------------
(***************************************************************************)
(* How the engine keeps the database and the markdown files of a vault     *)
(* together: the write pipeline (executeMutation, executeDeletion), the    *)
(* watcher, the reconciler, the normalizer and the index built at startup. *)
(*                                                                         *)
(* The engine is one Node.js thread and SQLite is called synchronously, so *)
(* its handlers never interleave with each other.  A user's editor writes  *)
(* the same files at any time, though, also between two system calls of a  *)
(* handler, and the process may die there.  A handler is therefore cut     *)
(* where it touches the file system; "op" is the handler in progress.      *)
(***************************************************************************)
EXTENDS Naturals, Sequences

CONSTANTS
  Paths,        \* relative paths of markdown files
  Contents,     \* texts a file can hold (a SHA-256 hash is its text)
  States,       \* what the database can hold of a node: types, fields, body
  Broken,       \* the contents whose frontmatter does not parse
  Absorb,       \* what the watcher path makes of a text over a prior state
  IndexState,   \* what doIndex makes of a text (body only when it is broken)
  Render,       \* renderNode: the canonical text of a state
  UserContents, \* the texts a user saves
  NoFile, NoRow, NoState, NoPath,
  MaxRetries,   \* parse retries before the watcher gives up (3)
  LossyEvents,  \* whether the operating system may drop a file event
  MaxUserOps, MaxToolOps, MaxFaults    \* bounds of the model

ASSUME ConstantsAssumption ==
  /\ Broken \subseteq Contents /\ UserContents \subseteq Contents
  /\ Absorb \in [Contents \ Broken -> [States \cup {NoState} -> States]]
  /\ IndexState \in [Contents -> States]
  /\ Render \in [States -> Contents \ Broken]
  /\ NoFile \notin Contents /\ NoState \notin States /\ NoPath \notin Paths
  /\ NoRow \notin [hash : Contents, state : States]
  /\ LossyEvents \in BOOLEAN
  /\ MaxRetries \in Nat /\ MaxUserOps \in Nat
  /\ MaxToolOps \in Nat /\ MaxFaults \in Nat

VARIABLES
  disk,       \* path -> the text of the file, or NoFile
  row,        \* path -> [hash, state] of the nodes row with this path, or NoRow
  mtimeEq,    \* paths whose row carries the modification time of the file
  age,        \* path -> "new" | "swept" | "quiet": how long the file is unmodified
  ev,         \* path -> file events the watcher has not been told of yet
  timer,      \* paths with a debounce or retry timer running
  retry,      \* path -> parse retries so far (retryCount)
  recent,     \* paths in WriteLockManager.recentWrites
  phase,      \* "down" | "starting" | "up"
  sweeping,   \* a reconciler sweep or the startup index is running
  todo,       \* the files of that sweep that are still to visit
  op,         \* the handler in progress, cut at its file accesses
  raced,      \* history: paths saved when the row could not tell: in the millisecond
              \* of its own time, or between indexFile's read and stat
  userOps, toolOps, faults   \* counters of the bounds (a fault is a crash or a failed write)

env   == <<userOps, toolOps, faults>>
watch == <<ev, timer, retry, recent>>
sweep == <<phase, sweeping, todo>>
store == <<disk, row, mtimeEq>>
vars  == <<disk, row, mtimeEq, age, ev, timer, retry, recent, phase, sweeping,
           todo, op, raced, userOps, toolOps, faults>>

Row    == [hash : Contents, state : States]
PCs    == {"idle", "process", "commit", "indexRead", "indexStat", "sweepRead",
           "writeFile", "writeDb", "unlink"}
Sources == {"none", "sync", "tool", "normalizer"}
Op     == [pc : PCs, src : Sources, path : Paths \cup {NoPath},
           content : Contents \cup {NoFile}, state : States \cup {NoState},
           touched : BOOLEAN]

Idle   == [pc |-> "idle", src |-> "none", path |-> NoPath, content |-> NoFile,
           state |-> NoState, touched |-> FALSE]

\* A handler on path p that has read or will write content c for state s.
Handler(pc, src, p, c, s) ==
  [pc |-> pc, src |-> src, path |-> p, content |-> c, state |-> s, touched |-> FALSE]

-----------------------------------------------------------------------------
(* Helpers *)

\* A file event reaches chokidar only while the watcher runs; a burst of the
\* same event on one path is one event.
Notify(p, e) ==
  ev' = IF phase # "up" \/ (ev[p] # <<>> /\ ev[p][Len(ev[p])] = e)
        THEN ev
        ELSE [ev EXCEPT ![p] = Append(@, e)]

\* Whether the row was made of what the file holds: the hash guard.
HashMatches(p) == row[p] # NoRow /\ row[p].hash = disk[p]

\* An editor changes the file of the handler in progress behind its back.
Touch(p) == op' = IF op.path = p THEN [op EXCEPT !.touched = TRUE] ELSE op

StateOf(p) == IF row[p] = NoRow THEN NoState ELSE row[p].state

SetRow(p, h, s) == row' = [row EXCEPT ![p] = [hash |-> h, state |-> s]]

\* Whether the modification time of the file is, in whole milliseconds, the one in the
\* row.  Where it is, "unseen" says whether a save may have come after the text of the row.
RowTime(p, same, unseen) ==
  /\ mtimeEq' = IF same THEN mtimeEq \cup {p} ELSE mtimeEq \ {p}
  /\ raced' = IF same /\ unseen THEN raced \cup {p} ELSE raced \ {p}

\* A file is replaced.  Its new time may be the one in the row: both fall in one
\* millisecond, or a tool set the time.
Rewritten(p, c) ==
  /\ disk' = [disk EXCEPT ![p] = c] /\ age' = [age EXCEPT ![p] = "new"]
  /\ \E same \in BOOLEAN : (same => row[p] # NoRow) /\ RowTime(p, same, TRUE)

Removed(p) ==
  /\ disk' = [disk EXCEPT ![p] = NoFile] /\ age' = [age EXCEPT ![p] = "new"]
  /\ RowTime(p, FALSE, FALSE)

RowGone(p) == row' = [row EXCEPT ![p] = NoRow] /\ RowTime(p, FALSE, FALSE)

\* The engine takes its next task only when no handler and no sweep runs.
Free == phase = "up" /\ op.pc = "idle" /\ ~sweeping

\* The process dies: timers, events and locks are memory, committed rows stay.
Die ==
  /\ phase' = "down" /\ sweeping' = FALSE /\ todo' = {} /\ op' = Idle
  /\ ev' = [p \in Paths |-> <<>>] /\ timer' = {} /\ recent' = {}
  /\ retry' = [p \in Paths |-> 0]

Init ==
  /\ disk \in [Paths -> UserContents \cup {NoFile}]
  /\ row = [p \in Paths |-> NoRow]
  /\ mtimeEq = {} /\ age = [p \in Paths |-> "new"]
  /\ ev = [p \in Paths |-> <<>>] /\ timer = {} /\ retry = [p \in Paths |-> 0]
  /\ recent = {} /\ phase = "down" /\ sweeping = FALSE /\ todo = {}
  /\ op = Idle /\ raced = {}
  /\ userOps = 0 /\ toolOps = 0 /\ faults = 0

-----------------------------------------------------------------------------
(* The user and the operating system *)

\* The user saves a file.
UserWrite(p, c) ==
  /\ userOps < MaxUserOps /\ userOps' = userOps + 1
  /\ Rewritten(p, c)
  /\ Touch(p)
  /\ Notify(p, "change")
  /\ UNCHANGED <<row, timer, retry, recent, sweep, toolOps, faults>>

UserDelete(p) ==
  /\ userOps < MaxUserOps /\ userOps' = userOps + 1
  /\ disk[p] # NoFile /\ Removed(p)
  /\ Touch(p)
  /\ Notify(p, "unlink")
  /\ UNCHANGED <<row, timer, retry, recent, sweep, toolOps, faults>>

LoseEvent(p) ==
  /\ LossyEvents /\ ev[p] # <<>>
  /\ ev' = [ev EXCEPT ![p] = Tail(@)]
  /\ UNCHANGED <<store, age, timer, retry, recent, sweep, op, raced, env>>

\* The file stays unmodified for the quiescence window (60 minutes).  That is
\* longer than the debounce, the retries, the write-lock TTL (5 s) and the
\* interval of the reconciler (15 minutes).
QuietPasses(p) ==
  /\ Free /\ age[p] = "swept"
  /\ ev[p] = <<>> /\ p \notin timer /\ p \notin recent
  /\ age' = [age EXCEPT ![p] = "quiet"]
  /\ UNCHANGED <<store, watch, sweep, op, raced, env>>

Crash ==
  /\ faults < MaxFaults /\ faults' = faults + 1
  /\ phase # "down" /\ Die
  /\ UNCHANGED <<store, age, raced, userOps, toolOps>>

-----------------------------------------------------------------------------
(* The startup index (fullIndex) and the sweeps of the reconciler *)

\* A file list is read first; the rows of missing files are deleted, one by
\* one, before any file is visited.  A user's step between the listing and the
\* deletions has the effect it would have right after both.
BeginSweep ==
  LET listed == {p \in Paths : disk[p] # NoFile} IN
  /\ sweeping' = TRUE /\ todo' = listed
  /\ row' = [p \in Paths |-> IF p \in listed THEN row[p] ELSE NoRow]
  /\ mtimeEq' = mtimeEq \cap listed /\ raced' = raced \cap listed
  /\ UNCHANGED <<disk, age, watch, op, env>>

StartUp    == phase = "down" /\ phase' = "starting" /\ BeginSweep
SweepStart == Free /\ UNCHANGED phase /\ BeginSweep

\* stat: a file whose modification time is the one in its row is skipped.
SweepVisit(p) ==
  /\ sweeping /\ op.pc = "idle" /\ p \in todo /\ todo' = todo \ {p}
  /\ IF disk[p] = NoFile
       THEN UNCHANGED <<age, op>>
       ELSE /\ age' = [age EXCEPT ![p] = IF @ = "new" THEN "swept" ELSE @]
            /\ op' = IF row[p] # NoRow /\ p \in mtimeEq
                       THEN op
                       ELSE Handler("sweepRead", "sync", p, NoFile, NoState)
  /\ UNCHANGED <<store, watch, phase, sweeping, raced, env>>

\* The row gets the modification time that was read before the content.
StatFirst == \E same \in BOOLEAN : (~op.touched => same) /\ RowTime(op.path, same, FALSE)

\* read and hash: equal content only refreshes the time; other content is
\* indexed as it stands at startup, and goes through the pipeline in a sweep.
SweepRead ==
  LET p == op.path IN
  /\ op.pc = "sweepRead"
  /\ \/ /\ disk[p] = NoFile
        /\ op' = Idle /\ UNCHANGED <<row, mtimeEq, raced>>
     \/ /\ HashMatches(p)
        /\ StatFirst /\ op' = Idle /\ UNCHANGED row
     \/ /\ disk[p] # NoFile /\ ~HashMatches(p)
        /\ IF phase = "starting"
             THEN /\ SetRow(p, disk[p], IndexState[disk[p]])
                  /\ StatFirst /\ op' = Idle
             ELSE /\ op' = [op EXCEPT !.pc = "process"]
                  /\ UNCHANGED <<row, mtimeEq, raced>>
  /\ UNCHANGED <<disk, age, watch, sweep, env>>

SweepEnd ==
  /\ sweeping /\ op.pc = "idle" /\ todo = {}
  /\ sweeping' = FALSE /\ phase' = "up"
  /\ UNCHANGED <<store, age, watch, todo, op, raced, env>>

-----------------------------------------------------------------------------
(* The watcher *)

\* scheduleIndex and handleUnlink.  An unlink is taken at its word: the file
\* is not looked at again.
Deliver(p) ==
  /\ Free /\ ev[p] # <<>>
  /\ ev' = [ev EXCEPT ![p] = Tail(@)]
  /\ \/ /\ Head(ev[p]) = "change"
        /\ timer' = timer \cup {p} /\ UNCHANGED <<row, mtimeEq, raced>>
     \/ /\ Head(ev[p]) = "unlink"
        /\ timer' = timer \ {p}
        /\ IF p \in recent THEN UNCHANGED <<row, mtimeEq, raced>> ELSE RowGone(p)
  /\ UNCHANGED <<disk, age, retry, recent, sweep, op, env>>

\* What the timer of a file lets through.
Changed(p) == disk[p] # NoFile /\ ~HashMatches(p)

\* Variant of MayRetry for testing TypeOK: one retry too many.
MayRetryOnceMore(p) == retry[p] <= MaxRetries

\* Text that does not parse may be a file Obsidian is still writing.
MayRetry(p) == retry[p] < MaxRetries

\* fire: a debounce, max-wait or retry timer of the path runs out.
Fire(p) ==
  /\ Free /\ p \in timer
  /\ \/ /\ p \in recent \/ ~Changed(p)
        /\ timer' = timer \ {p} /\ UNCHANGED <<retry, op>>
     \/ /\ p \notin recent /\ Changed(p)
        /\ disk[p] \in Broken /\ MayRetry(p)
        /\ retry' = [retry EXCEPT ![p] = @ + 1] /\ UNCHANGED <<timer, op>>
     \/ /\ p \notin recent /\ Changed(p)
        /\ disk[p] \notin Broken \/ ~MayRetry(p)
        /\ retry' = [retry EXCEPT ![p] = 0] /\ timer' = timer \ {p}
        /\ op' = Handler("process", "sync", p, NoFile, NoState)
  /\ UNCHANGED <<store, age, ev, recent, sweep, raced, env>>

\* processFileChange reads the file again.
Process ==
  LET p == op.path IN
  /\ op.pc = "process"
  /\ op' = IF disk[p] = NoFile \/ (disk[p] \in Broken /\ row[p] # NoRow)
             THEN Idle
             ELSE IF disk[p] \in Broken
                    THEN [op EXCEPT !.pc = "indexRead", !.touched = FALSE]
                    ELSE [op EXCEPT !.pc = "commit", !.content = disk[p], !.touched = FALSE]
  /\ UNCHANGED <<store, age, watch, sweep, raced, env>>

\* Variant of WatcherHash for testing Convergence: the hash of the rendered text.
RenderedHash == Render[Absorb[op.content][StateOf(op.path)]]

\* executeMutation with source "watcher": the file is not written, the row gets
\* the hash of the text that was read and the time of the commit.
WatcherHash == op.content

\* Variant of CommitTime for testing MtimeSkipSound: the time the file has by then.
FileTime == RowTime(op.path, TRUE, FALSE)

\* file_mtime is Date.now() at the commit: a time of the file only when it was saved in
\* that millisecond, be it what the handler has read or written, or something later.
CommitTime == \E same \in BOOLEAN : RowTime(op.path, same, op.touched)

Commit ==
  LET p == op.path
      s == Absorb[op.content][StateOf(p)]
      noop == row[p] # NoRow /\ disk[p] = Render[s] /\ row[p].hash = Render[s]
  IN /\ op.pc = "commit" /\ op' = Idle
     /\ IF noop THEN UNCHANGED <<row, mtimeEq, raced>>
                ELSE SetRow(p, WatcherHash, s) /\ CommitTime
     /\ UNCHANGED <<disk, age, watch, sweep, env>>

\* The transaction fails and processFileChange swallows the error.  A quiet
\* hour starts over: four sweeps fit in it and the database does not fail in all.
CommitFails ==
  /\ op.pc = "commit" /\ op' = Idle
  /\ faults < MaxFaults /\ faults' = faults + 1
  /\ age' = [age EXCEPT ![op.path] = "new"]
  /\ UNCHANGED <<store, watch, sweep, raced, userOps, toolOps>>

\* indexFile, for an unknown file that does not parse, reads and then stats.
\* When the file is gone it throws: a sweep catches that, but nothing handles
\* the rejection of a timer's mutex.run, and Node.js ends the process.
IndexRead ==
  LET p == op.path IN
  /\ op.pc = "indexRead"
  /\ \/ /\ disk[p] # NoFile
        /\ op' = [op EXCEPT !.pc = "indexStat", !.content = disk[p], !.touched = FALSE]
        /\ UNCHANGED <<watch, sweep>>
     \/ disk[p] = NoFile /\ sweeping /\ op' = Idle /\ UNCHANGED <<watch, sweep>>
     \/ disk[p] = NoFile /\ ~sweeping /\ Die
  /\ UNCHANGED <<store, age, raced, env>>

IndexStat ==
  LET p == op.path IN
  /\ op.pc = "indexStat"
  /\ \/ /\ disk[p] # NoFile
        /\ SetRow(p, op.content, IndexState[op.content]) /\ RowTime(p, TRUE, op.touched)
        /\ op' = Idle /\ UNCHANGED <<watch, sweep>>
     \/ disk[p] = NoFile /\ sweeping /\ op' = Idle /\ UNCHANGED <<row, mtimeEq, watch, sweep, raced>>
     \/ disk[p] = NoFile /\ ~sweeping /\ Die /\ UNCHANGED <<row, mtimeEq, raced>>
  /\ UNCHANGED <<disk, age, env>>

-----------------------------------------------------------------------------
(* The tools and the normalizer *)

\* update-node and the like: the new state is rendered; nothing happens when
\* both the file and the row already have that text.
ToolUpdate(p, s) ==
  /\ Free /\ toolOps < MaxToolOps /\ toolOps' = toolOps + 1
  /\ row[p] # NoRow
  /\ op' = IF disk[p] = Render[s] /\ row[p].hash = Render[s]
             THEN Idle ELSE Handler("writeFile", "tool", p, Render[s], s)
  /\ UNCHANGED <<store, age, watch, sweep, raced, userOps, faults>>

\* create-node refuses a path that is taken in the database or on the disk.
ToolCreate(p, s) ==
  /\ Free /\ toolOps < MaxToolOps /\ toolOps' = toolOps + 1
  /\ row[p] = NoRow /\ disk[p] = NoFile
  /\ op' = Handler("writeFile", "tool", p, Render[s], s)
  /\ UNCHANGED <<store, age, watch, sweep, raced, userOps, faults>>

\* delete-node: executeDeletion commits the deletion before it unlinks.
ToolDelete(p) ==
  /\ Free /\ toolOps < MaxToolOps /\ toolOps' = toolOps + 1
  /\ row[p] # NoRow
  /\ RowGone(p)
  /\ op' = Handler("unlink", "tool", p, NoFile, NoState)
  /\ UNCHANGED <<disk, age, watch, sweep, userOps, faults>>

Unlink ==
  LET p == op.path IN
  /\ op.pc = "unlink" /\ op' = Idle
  /\ IF disk[p] = NoFile
       THEN UNCHANGED <<disk, mtimeEq, raced, age, ev>>
       ELSE Removed(p) /\ Notify(p, "unlink")
  /\ UNCHANGED <<row, timer, retry, recent, sweep, env>>

\* The error is reported and the file stays.
UnlinkFails ==
  /\ op.pc = "unlink" /\ op' = Idle
  /\ faults < MaxFaults /\ faults' = faults + 1
  /\ UNCHANGED <<store, age, watch, sweep, raced, userOps, toolOps>>

\* Variant of Quiescent for testing NormalizerSafe: no quiescence window.
AnyAge(p) == age[p] \in {"new", "swept", "quiet"}

\* The nodes whose file is old enough for the normalizer.
Quiescent(p) == age[p] = "quiet"

\* runNormalizerSweep for one node: it compares what it would render with the
\* hash in the row and does not look at what the file holds.
NormalizeVisit(p) ==
  /\ Free /\ row[p] # NoRow /\ disk[p] # NoFile /\ Quiescent(p)
  /\ LET s == row[p].state IN
       /\ Render[s] # row[p].hash
       /\ op' = Handler("writeFile", "normalizer", p, Render[s], s)
  /\ UNCHANGED <<store, age, watch, sweep, raced, env>>

\* executeMutation, stage 6: the file is replaced first ...
WriteFile ==
  LET p == op.path IN
  /\ op.pc = "writeFile"
  /\ Rewritten(p, op.content)
  /\ op' = [op EXCEPT !.pc = "writeDb", !.touched = FALSE]
  /\ Notify(p, "change")
  /\ UNCHANGED <<row, timer, retry, recent, sweep, env>>

\* ... and then the row is committed.  The normalizer marks the path.
WriteDb ==
  LET p == op.path IN
  /\ op.pc = "writeDb" /\ op' = Idle
  /\ SetRow(p, op.content, op.state) /\ CommitTime
  /\ recent' = IF op.src = "normalizer" THEN recent \cup {p} ELSE recent
  /\ UNCHANGED <<disk, age, ev, timer, retry, sweep, env>>

\* The write or the transaction fails; a file already replaced is not restored.
WriteAbort ==
  /\ op.pc \in {"writeFile", "writeDb"} /\ op' = Idle
  /\ faults < MaxFaults /\ faults' = faults + 1
  /\ UNCHANGED <<store, age, watch, sweep, raced, userOps, toolOps>>

TtlExpire(p) ==
  /\ Free /\ p \in recent /\ recent' = recent \ {p}
  /\ UNCHANGED <<store, age, ev, timer, retry, sweep, op, raced, env>>

-----------------------------------------------------------------------------
(* The specification *)

User ==
  \/ \E p \in Paths, c \in UserContents : UserWrite(p, c)
  \/ \E p \in Paths : UserDelete(p)

\* The steps of a handler that has begun.
HandlerStep ==
  \/ SweepRead \/ Process \/ Commit \/ IndexRead \/ IndexStat
  \/ Unlink \/ WriteFile \/ WriteDb

Tool == \E p \in Paths :
  \/ \E s \in States : ToolUpdate(p, s) \/ ToolCreate(p, s)
  \/ ToolDelete(p)

Fault == Crash \/ CommitFails \/ UnlinkFails \/ WriteAbort

Next ==
  \/ User \/ Tool \/ Fault \/ HandlerStep
  \/ StartUp \/ SweepStart \/ SweepEnd
  \/ \E p \in Paths :
       \/ LoseEvent(p) \/ QuietPasses(p) \/ SweepVisit(p) \/ Deliver(p)
       \/ Fire(p) \/ TtlExpire(p) \/ NormalizeVisit(p)

\* A handler runs to its end, a stopped engine is started again (systemd), and
\* the event loop serves every timer and event in turn: a task that is due
\* again and again between handlers is run.
Fairness ==
  /\ WF_vars(HandlerStep) /\ WF_vars(StartUp) /\ WF_vars(SweepEnd)
  /\ WF_vars(\E p \in Paths : SweepVisit(p))
  /\ SF_vars(SweepStart)
  /\ \A p \in Paths : SF_vars(Deliver(p)) /\ SF_vars(Fire(p)) /\ SF_vars(TtlExpire(p))

Spec     == Init /\ [][Next]_vars
FairSpec == Spec /\ Fairness

-----------------------------------------------------------------------------
(* Properties *)

\* The variables keep their types.
TypeOK ==
  /\ disk \in [Paths -> Contents \cup {NoFile}]
  /\ row \in [Paths -> Row \cup {NoRow}]
  /\ mtimeEq \subseteq Paths
  /\ age \in [Paths -> {"new", "swept", "quiet"}]
  /\ ev \in [Paths -> Seq({"change", "unlink"})]
  /\ timer \subseteq Paths /\ recent \subseteq Paths /\ raced \subseteq Paths
  /\ retry \in [Paths -> 0..MaxRetries]
  /\ phase \in {"down", "starting", "up"} /\ sweeping \in BOOLEAN
  /\ todo \subseteq Paths /\ op \in Op
  /\ userOps \in 0..MaxUserOps /\ toolOps \in 0..MaxToolOps /\ faults \in 0..MaxFaults

InSync(p) == IF disk[p] = NoFile THEN row[p] = NoRow ELSE HashMatches(p)

\* A sweep and the startup index skip a file whose modification time is the one
\* in its row without reading it (reconciler.ts:64, indexer.ts:310).  A skipped file holds
\* what the row was made of, unless it was saved within the millisecond of the row's time
\* or between indexFile's read and stat, and nobody has looked since.
MtimeSkipSound == \A p \in mtimeEq \ raced : HashMatches(p)

\* The normalizer overwrites a file without reading it (normalizer.ts:139).
\* What it replaces has been taken into the database: only text that does not
\* parse, that has the time of the row, or that was saved after the quiescence check,
\* is lost.
NormalizerSafe ==
  (op.pc = "writeFile" /\ op.src = "normalizer" /\ ~op.touched) =>
    \/ op.path \in raced
    \/ disk[op.path] \in Broken
    \/ HashMatches(op.path)

\* Once the user, the tools and the faults leave the vault alone, the database
\* and the files agree for good, whatever events were lost: "if the watcher
\* misses a change, the reconciler catches it on its next sweep".  Text that
\* does not parse may stay out, and so may text whose time is the row's (raced).
Convergence == <>[](\A p \in Paths : InSync(p) \/ disk[p] \in Broken \/ p \in raced)

-----------------------------------------------------------------------------
(* The inductive invariant behind MtimeSkipSound and NormalizerSafe *)

\* What a handler in progress holds.  A text it has read or written is still in
\* the file unless an editor came in between, which makes the file new again.
HandlerInv ==
  /\ IF op.pc = "idle" THEN op = Idle ELSE op.path \in Paths /\ phase # "down"
  /\ op.src = "normalizer" => op.pc \in {"writeFile", "writeDb"}
  /\ op.pc = "commit" => op.content \in Contents \ Broken
  /\ op.pc \in {"indexStat", "writeFile", "writeDb"} => op.content \in Contents
  /\ op.pc \in {"writeFile", "writeDb"} => op.state \in States
  /\ (op.pc \in {"commit", "indexStat", "writeDb"} /\ ~op.touched) => disk[op.path] = op.content
  /\ (op.pc = "writeDb" \/ op.touched) => age[op.path] = "new"
  /\ sweeping => phase # "down"
  /\ phase = "starting" => sweeping

\* Paths whose file a handler or the startup index has yet to look at.
Pending(p) ==
  \/ phase = "down"
  \/ phase = "starting" /\ p \in todo
  \/ op.path = p /\ op.pc \in {"sweepRead", "process", "commit", "indexRead", "indexStat"}

\* A file that has not changed since a sweep came by is in its row.
AgeInv ==
  \A p \in Paths : age[p] # "new" =>
    /\ disk[p] # NoFile
    /\ HashMatches(p) \/ row[p] = NoRow \/ disk[p] \in Broken \/ p \in raced \/ Pending(p)

Inv == TypeOK /\ HandlerInv /\ MtimeSkipSound /\ AgeInv /\ NormalizerSafe
=============================================================================
