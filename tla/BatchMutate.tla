---------------------------- MODULE BatchMutate ----------------------------
(***************************************************************************)
(* The batch-mutate tool: one database transaction around a list of        *)
(* operations that write and unlink files as they go.  When an operation   *)
(* fails, the transaction rolls back and the files are put back by hand:   *)
(* first every backup, then every created file is removed.                 *)
(*                                                                         *)
(* One call runs to its end before the engine does anything else, but a    *)
(* user can save files meanwhile, writes can fail and the process can die. *)
(***************************************************************************)
EXTENDS AtomicBatch

CONSTANTS MaxBatches, MaxUserOps, MaxFaults,   \* bounds of the model
          OrphanRows   \* whether a row's file may be missing when a batch comes

VARIABLES
  pc,        \* "idle" | "next" | "mutate" | "write" | "unlink" | "restore"
  todo,      \* operations of the batch still to do
  dry,       \* dry_run
  saved,     \* the rows before the transaction
  backups,   \* [path, text] of files updated or deleted
  created,   \* paths of files the batch created
  deleted,   \* deletedNodeIds: paths of the nodes the batch deleted
  applied,   \* paths of the operations reported as applied
  outcome,   \* "none" | "applied" | "failed" | "torn" | "crashed": how the last batch
             \* ended; "torn" is a failure reported after the transaction committed
  batch, files0,       \* history: the last batch, and the files when it began
  touched,             \* history: paths a user or a fault got at during the batch
  batches, userOps, faults   \* counters of the bounds

call == <<pc, todo, dry, saved, backups, created, deleted, applied, outcome>>
hist == <<batch, files0, touched, batches, userOps, faults>>
vars == <<files, rows, pc, todo, dry, saved, backups, created, deleted, applied, outcome,
          batch, files0, touched, batches, userOps, faults>>

BatchInit ==
  /\ Init /\ (OrphanRows \/ \A p \in Paths : rows[p] # NoRow => files[p] # NoFile)
  /\ pc = "idle" /\ todo = <<>> /\ dry = FALSE /\ saved = rows
  /\ backups = <<>> /\ created = <<>> /\ deleted = {} /\ applied = {} /\ outcome = "none"
  /\ batch = <<>> /\ files0 = files /\ touched = {}
  /\ batches = 0 /\ userOps = 0 /\ faults = 0

-----------------------------------------------------------------------------
(* Helpers *)

op   == Head(todo)
path == op.path
view == [files |-> files, rows |-> rows, ok |-> TRUE]

Done(a) == pc' = "next" /\ todo' = Tail(todo) /\ applied' = applied \cup a

\* The error leaves the transaction, which rolls back.
Fail ==
  /\ rows' = saved /\ outcome' = "failed" /\ todo' = <<>>
  /\ pc' = IF dry THEN "idle" ELSE "restore"

\* Variant of SetRow for testing DryRunPredicts: a dry run leaves the rows alone too.
SetRowLive == rows' = IF dry THEN rows
  ELSE Put(view, op, IF rows[path] = NoRow THEN 1 ELSE rows[path].version + 1).rows

SetRow == rows' = Put(view, op, IF rows[path] = NoRow THEN 1 ELSE rows[path].version + 1).rows

Fault == faults < MaxFaults /\ faults' = faults + 1 /\ touched' = touched \cup {path}

-----------------------------------------------------------------------------
(* The call *)

Begin(b, d) ==
  /\ pc = "idle" /\ batches < MaxBatches /\ batches' = batches + 1
  /\ pc' = "next" /\ todo' = b /\ dry' = d /\ saved' = rows
  /\ backups' = <<>> /\ created' = <<>> /\ deleted' = {} /\ applied' = {} /\ outcome' = "none"
  /\ batch' = b /\ files0' = files /\ touched' = {}
  /\ UNCHANGED <<files, rows, userOps, faults>>

\* Variant of PathTaken for testing Atomic and DryRunPredicts: the disk is not looked at.
RowTaken == rows[path] # NoRow

\* A path is taken when a row or a file has it.
PathTaken == rows[path] # NoRow \/ files[path] # NoFile

Create ==
  /\ pc = "next" /\ todo # <<>> /\ op.kind = "create"
  /\ \/ /\ PathTaken \/ op.text = Invalid
        /\ Fail /\ UNCHANGED applied
     \/ /\ ~PathTaken /\ op.text # Invalid
        /\ IF dry THEN SetRow /\ Done({path})
                  ELSE pc' = "write" /\ UNCHANGED <<rows, todo, applied>>
        /\ UNCHANGED outcome
  /\ UNCHANGED <<files, dry, saved, backups, created, deleted, hist>>

\* Variant of BackUp for testing FailureRestores: only a file that is deleted.
BackUpDeleted == files[path] # NoFile /\ op.kind = "delete"

\* Variant of BackUp for testing BatchTypeOK: also a file that is missing.
BackUpMissing == rows[path] # NoRow

\* A file is copied before it is replaced or unlinked, when there is one.
BackUp == files[path] # NoFile

Resolve ==
  /\ pc = "next" /\ todo # <<>> /\ op.kind \in {"update", "delete"}
  /\ \/ /\ rows[path] = NoRow
        /\ Fail /\ UNCHANGED backups
     \/ /\ rows[path] # NoRow
        /\ pc' = "mutate"
        /\ backups' = IF ~dry /\ BackUp
                        THEN Append(backups, [path |-> path, text |-> files[path]])
                        ELSE backups
        /\ UNCHANGED <<rows, outcome, todo>>
  /\ UNCHANGED <<files, dry, saved, created, deleted, applied, hist>>

\* executeMutation up to its write: the no-op rule comes before the version.
Update ==
  /\ pc = "mutate" /\ op.kind = "update"
  /\ \/ /\ op.text = Invalid
        /\ Fail /\ UNCHANGED applied
     \/ /\ op.text # Invalid /\ NoOp(view, op)
        /\ Done({path}) /\ UNCHANGED <<rows, outcome>>
     \/ /\ op.text # Invalid /\ ~NoOp(view, op) /\ Stale(view, op)
        /\ Done({}) /\ UNCHANGED <<rows, outcome>>
     \/ /\ op.text # Invalid /\ ~NoOp(view, op) /\ ~Stale(view, op)
        /\ IF dry THEN SetRow /\ Done({path})
                  ELSE pc' = "write" /\ UNCHANGED <<rows, todo, applied>>
        /\ UNCHANGED outcome
  /\ UNCHANGED <<files, dry, saved, backups, created, deleted, hist>>

\* Only a create operation adds to createdFiles, also when an update had to
\* write a file that was not there.
Created == IF op.kind = "create" THEN Append(created, path) ELSE created

\* The file is replaced, and the row in the same transaction.
Write ==
  /\ pc = "write"
  /\ files' = [files EXCEPT ![path] = op.text]
  /\ SetRow /\ created' = Created /\ Done({path})
  /\ UNCHANGED <<dry, saved, backups, deleted, outcome, hist>>

\* The file or, once it is written, the row fails: createdFiles never gets the path.
WriteFails ==
  /\ pc = "write" /\ Fault
  /\ files' \in {files, [files EXCEPT ![path] = op.text]}
  /\ Fail
  /\ UNCHANGED <<dry, saved, backups, created, deleted, applied, batch, files0, batches, userOps>>

\* executeDeletion: the row goes first.
Delete ==
  /\ pc = "mutate" /\ op.kind = "delete"
  /\ \/ /\ Stale(view, op)
        /\ Done({}) /\ UNCHANGED <<rows, deleted>>
     \/ /\ ~Stale(view, op)
        /\ rows' = [rows EXCEPT ![path] = NoRow]
        /\ deleted' = IF dry THEN deleted ELSE deleted \cup {path}
        /\ IF dry THEN Done({path}) ELSE pc' = "unlink" /\ UNCHANGED <<todo, applied>>
  /\ UNCHANGED <<files, dry, saved, backups, created, outcome, hist>>

Unlink ==
  /\ pc = "unlink"
  /\ files' = [files EXCEPT ![path] = NoFile]
  /\ Done({path})
  /\ UNCHANGED <<rows, dry, saved, backups, created, deleted, outcome, hist>>

\* The operation counts as applied although its file is still there.
UnlinkFails ==
  /\ pc = "unlink" /\ Fault /\ Done({path})
  /\ UNCHANGED <<files, rows, dry, saved, backups, created, deleted, outcome,
                 batch, files0, batches, userOps>>

Commit ==
  /\ pc = "next" /\ todo = <<>>
  /\ pc' = "idle" /\ outcome' = "applied"
  /\ rows' = IF dry THEN saved ELSE rows
  /\ UNCHANGED <<files, todo, dry, saved, backups, created, deleted, applied, hist>>

\* COMMIT throws: nothing is kept, as when an operation fails.
CommitFails ==
  /\ pc = "next" /\ todo = <<>> /\ ~dry /\ Fail
  /\ faults < MaxFaults /\ faults' = faults + 1
  /\ UNCHANGED <<files, dry, saved, backups, created, deleted, applied,
                 batch, files0, touched, batches, userOps>>

\* After COMMIT the backups are removed, and then the vectors of the deleted nodes.
\* When that throws, the same catch takes back the files of a batch whose rows stay:
\* no backup is left to restore, and the created files go.
RemoveNodeFails ==
  /\ pc = "next" /\ todo = <<>> /\ ~dry /\ deleted # {}
  /\ faults < MaxFaults /\ faults' = faults + 1
  /\ pc' = "restore" /\ outcome' = "torn" /\ backups' = <<>>
  /\ UNCHANGED <<files, rows, todo, dry, saved, created, deleted, applied,
                 batch, files0, touched, batches, userOps>>

-----------------------------------------------------------------------------
(* Putting the files back *)

\* Backups are restored in the order in which they were taken.
Restore ==
  /\ pc = "restore" /\ backups # <<>>
  /\ files' = [files EXCEPT ![Head(backups).path] = Head(backups).text]
  /\ backups' = Tail(backups)
  /\ UNCHANGED <<rows, pc, todo, dry, saved, created, deleted, applied, outcome, hist>>

RestoreFails ==
  /\ pc = "restore" /\ backups # <<>>
  /\ faults < MaxFaults /\ faults' = faults + 1
  /\ touched' = touched \cup {Head(backups).path} /\ backups' = Tail(backups)
  /\ UNCHANGED <<files, rows, pc, todo, dry, saved, created, deleted, applied, outcome,
                 batch, files0, batches, userOps>>

RemoveCreated ==
  /\ pc = "restore" /\ backups = <<>> /\ created # <<>>
  /\ files' = [files EXCEPT ![Head(created)] = NoFile]
  /\ created' = Tail(created)
  /\ UNCHANGED <<rows, pc, todo, dry, saved, backups, deleted, applied, outcome, hist>>

RemoveCreatedFails ==
  /\ pc = "restore" /\ backups = <<>> /\ created # <<>>
  /\ faults < MaxFaults /\ faults' = faults + 1
  /\ touched' = touched \cup {Head(created)} /\ created' = Tail(created)
  /\ UNCHANGED <<files, rows, pc, todo, dry, saved, backups, deleted, applied, outcome,
                 batch, files0, batches, userOps>>

Reply ==
  /\ pc = "restore" /\ backups = <<>> /\ created = <<>>
  /\ pc' = "idle"
  /\ UNCHANGED <<files, rows, todo, dry, saved, backups, created, deleted, applied, outcome, hist>>

-----------------------------------------------------------------------------
(* The environment *)

UserWrite(p, t) ==
  /\ pc # "idle" /\ userOps < MaxUserOps /\ userOps' = userOps + 1
  /\ files' = [files EXCEPT ![p] = t] /\ touched' = touched \cup {p}
  /\ UNCHANGED <<rows, call, batch, files0, batches, faults>>

\* The process dies: a transaction that is open never commits, the files stay as they are.
Crash ==
  /\ pc # "idle" /\ faults < MaxFaults /\ faults' = faults + 1
  /\ pc' = "idle" /\ todo' = <<>> /\ outcome' = "crashed"
  /\ rows' = IF pc = "restore" THEN rows ELSE saved
  /\ UNCHANGED <<files, dry, saved, backups, created, deleted, applied, batch, files0,
                 touched, batches, userOps>>

BatchNext ==
  \/ \E b \in Batches, d \in BOOLEAN : Begin(b, d)
  \/ Create \/ Resolve \/ Update \/ Write \/ WriteFails \/ Delete \/ Unlink \/ UnlinkFails
  \/ Commit \/ CommitFails \/ RemoveNodeFails
  \/ Restore \/ RestoreFails \/ RemoveCreated \/ RemoveCreatedFails \/ Reply
  \/ \E p \in Paths, t \in Texts : UserWrite(p, t)
  \/ Crash

BatchSpec == BatchInit /\ [][BatchNext]_vars

-----------------------------------------------------------------------------
(* Properties *)

\* The variables keep their types; in particular a dry run keeps no list of files.
BatchTypeOK ==
  /\ files \in [Paths -> Texts \cup {NoFile}] /\ files0 \in [Paths -> Texts \cup {NoFile}]
  /\ rows \in [Paths -> Row \cup {NoRow}] /\ saved \in [Paths -> Row \cup {NoRow}]
  /\ pc \in {"idle", "next", "mutate", "write", "unlink", "restore"}
  /\ todo \in Seq(Op) /\ batch \in Seq(Op) /\ (pc \in {"mutate", "write", "unlink"} => todo # <<>>)
  /\ dry \in BOOLEAN /\ (dry => backups = <<>> /\ created = <<>>)
  /\ backups \in Seq([path : Paths, text : Texts]) /\ created \in Seq(Paths)
  /\ deleted \subseteq Paths /\ applied \subseteq Paths /\ touched \subseteq Paths
  /\ outcome \in {"none", "applied", "failed", "torn", "crashed"}

Finished(o) == pc = "idle" /\ outcome = o

\* The batch has one operation on p, and it does not write a file that a row
\* has lost: what the two lists of rollback can account for.
Orderly(p) ==
  /\ \A i, j \in DOMAIN batch : batch[i].path = p /\ batch[j].path = p => i = j
  /\ files0[p] # NoFile \/ saved[p] = NoRow

\* When a batch has failed, the rollback has put back every file on which the
\* batch had one operation (batch-mutate.ts:440-461), whatever happened to others.
FailureRestores ==
  Finished("failed") => \A p \in Paths : Orderly(p) /\ p \notin touched => files[p] = files0[p]

\* When a batch is reported as applied, the file and the row of every applied
\* operation agree, so that the watcher has nothing to correct.
AppliedInSync ==
  Finished("applied") /\ ~dry => \A p \in applied \ touched :
    IF rows[p] = NoRow THEN files[p] = NoFile ELSE files[p] = rows[p].text

\* The first k operations of b have two on p.
Twice(b, k, p) == \E g, h \in 1 .. k : g # h /\ b[g].path = p /\ b[h].path = p

\* What a preview, whose files stay as they are, does not compose: that a deletion
\* frees its path for a creation, and that an update writes what an earlier one
\* wrote, which lets the versions of the preview run ahead, up to a deletion that
\* compares them.
Misled(b) ==
  \E i, j \in DOMAIN b :
    /\ i < j /\ b[i].path = b[j].path /\ b[i].kind = "delete"
    /\ b[j].kind = "create" \/ (b[i].expected # Unchecked /\ Twice(b, i - 1, b[i].path))

\* "Use dry_run: true to preview the entire batch atomically (composed effects
\* ...)": apart from that, the preview succeeds just when the batch would, however
\* its operations build on one another.
DryRunPredicts ==
  (pc = "idle" /\ dry /\ touched = {} /\ outcome # "crashed" /\ ~Misled(batch)) =>
    (outcome = "applied" <=> Result(files0, saved, batch).ok)

\* "All operations succeed or all roll back": a caller sees the vault of before
\* the batch until the call returns, and then all of it or none of it.
Promise == INSTANCE AtomicBatch WITH
             files <- IF pc = "idle" THEN files ELSE files0,
             rows  <- IF pc = "idle" THEN rows ELSE saved
Atomic == Promise!Spec
=============================================================================
