------------------------- MODULE BatchMutate_proofs -------------------------
(***************************************************************************)
(* What holds of a batch for every list of operations, every number of     *)
(* saves and faults: what it reports as applied is in step, and what it    *)
(* puts back when it fails.                                                *)
(***************************************************************************)
EXTENDS BatchMutate, SequenceFacts

\* Where the call is, and what it has found out about its operation by then.
PhaseOK ==
  /\ pc \in {"next", "mutate", "write", "unlink"} <=> outcome = "none" /\ pc # "idle"
  /\ pc \in {"write", "unlink", "restore"} => ~dry
  /\ pc = "restore" => outcome \in {"failed", "torn"}
  /\ outcome = "torn" => ~dry
  /\ pc \in {"restore", "idle"} => todo = <<>>
  /\ pc = "idle" /\ outcome = "failed" => backups = <<>> /\ created = <<>>
  /\ pc = "mutate" => op.kind # "create" /\ rows[path] # NoRow
  /\ pc = "write"  => op.kind # "delete" /\ op.text # Invalid
                      /\ (op.kind = "update" => rows[path] # NoRow)
  /\ pc = "unlink" => op.kind = "delete" /\ rows[path] = NoRow

CallInv == BatchTypeOK /\ PhaseOK

\* A file and its row agree.
InStep(p) == IF rows[p] = NoRow THEN files[p] = NoFile ELSE files[p] = rows[p].text

\* AppliedInSync while the batch runs: a row that is deleted waits for its file.
AppliedSoFar ==
  ~dry /\ pc # "restore" /\ outcome \in {"none", "applied"} =>
    \A p \in applied \ touched : (pc = "unlink" /\ p = path) \/ InStep(p)

BackedUp(p) == \E b \in ToSet(backups) : b.path = p
ByBatch(p)  == p \in ToSet(created)
Alone(s, p) == \A i, j \in DOMAIN s : s[i].path = p /\ s[j].path = p => i = j
Pending(p)  == \E o \in ToSet(todo) : o.path = p

\* What rollback has for p is what it takes to bring back the file of before.
Recoverable(p) ==
  /\ \A b \in ToSet(backups) : b.path = p => b.text = files0[p]
  /\ ByBatch(p) => files0[p] = NoFile /\ ~BackedUp(p)
  /\ files[p] = files0[p] \/ BackedUp(p) \/ ByBatch(p)

\* The batch has not got to its operation on p, or is at it.
Waiting(p) ==
  /\ files[p] = files0[p] /\ ~ByBatch(p)
  /\ pc # "unlink" \/ p # path => rows[p] = saved[p]
  /\ pc = "next" \/ p # path \/ op.kind = "create" => ~BackedUp(p)
  /\ pc = "write" /\ p = path /\ op.kind = "create" => files[p] = NoFile
  /\ pc \in {"mutate", "write", "unlink"} /\ p = path /\ op.kind # "create"
       => BackedUp(p) \/ files[p] = NoFile

Kept(p) ==
  /\ Recoverable(p) /\ (dry => files[p] = files0[p])
  /\ Alone(todo, p)
  /\ ~dry /\ Pending(p) => Waiting(p)

\* FailureRestores while the batch runs and while it is rolled back.
RestoreInv ==
  outcome = "failed" \/ (pc # "idle" /\ outcome = "none") =>
    \A p \in Paths : Orderly(p) /\ p \notin touched => Kept(p)

BatchInv == CallInv /\ AppliedSoFar /\ RestoreInv

-----------------------------------------------------------------------------
(* The call: types and phases. *)

\* The operation at hand, and what is left after it.
LEMMA OpTyped ==
  ASSUME BatchTypeOK, todo # <<>>
  PROVE  /\ op \in Op /\ path \in Paths /\ Tail(todo) \in Seq(Op)
         /\ op.text # Invalid => op.text \in Texts
         /\ op.kind \in {"create", "update", "delete"}
<1>1. op \in Op /\ Tail(todo) \in Seq(Op)
  BY ElementsOfTail DEF BatchTypeOK, op
<1> QED
  BY <1>1 DEF Op, path

\* SetRow gives the row the operation's text and leaves the other rows alone.
LEMMA SetRowSets ==
  ASSUME BatchTypeOK, todo # <<>>, op.text # Invalid, SetRow
  PROVE  /\ rows' \in [Paths -> Row \cup {NoRow}]
         /\ rows'[path] # NoRow /\ rows'[path].text = op.text
         /\ \A p \in Paths \ {path} : rows'[p] = rows[p]
<1> DEFINE n == IF rows[path] = NoRow THEN 1 ELSE rows[path].version + 1
           r == [text |-> op.text, version |-> n]
<1>1. op \in Op /\ path \in Paths /\ op.text \in Texts
  BY OpTyped
<1>2. rows \in [Paths -> Row \cup {NoRow}] /\ NoRow \notin Row
  BY BatchConstants DEF BatchTypeOK
<1>3. n \in Nat
  BY <1>1, <1>2 DEF Row
<1>4. rows' = [rows EXCEPT ![path] = r]
  BY DEF SetRow, Put, view, path
<1>5. r \in Row /\ r.text = op.text
  BY <1>1, <1>3 DEF Row
<1> HIDE DEF r
<1> QED
  BY <1>1, <1>2, <1>4, <1>5

\* Nothing but the variables of the bounds and what users and faults touch changes.
LEMMA CallUnchanged ==
  ASSUME CallInv, UNCHANGED <<files, rows, call, batch, files0>>, touched' \subseteq Paths
  PROVE  CallInv'
BY DEF CallInv, BatchTypeOK, PhaseOK, call, op, path

\* The first call of a batch finds everything in order.
LEMMA BeginKeepsCall ==
  ASSUME CallInv, NEW b \in Batches, NEW d \in BOOLEAN, Begin(b, d)
  PROVE  CallInv'
<1>1. b \in Seq(Op)
  BY BatchConstants
<1>2. BatchTypeOK'
  BY <1>1, EmptySeq DEF CallInv, BatchTypeOK, Begin
<1> QED
  BY <1>2 DEF CallInv, PhaseOK, Begin

\* A failure leads out of the call, or into the rollback.
LEMMA FailKeepsCall ==
  ASSUME CallInv, Fail, files' \in [Paths -> Texts \cup {NoFile}], touched' \subseteq Paths,
         pc # "restore", UNCHANGED <<dry, saved, backups, created, deleted, applied, batch, files0>>
  PROVE  CallInv'
<1>1. BatchTypeOK'
  BY EmptySeq DEF CallInv, BatchTypeOK, Fail
<1>2. PhaseOK'
  BY DEF CallInv, BatchTypeOK, PhaseOK, Fail
<1> QED
  BY <1>1, <1>2 DEF CallInv

\* An operation is done.
LEMMA DoneKeepsCall ==
  ASSUME CallInv, NEW a \in SUBSET Paths, Done(a), todo # <<>>,
         pc \in {"next", "mutate", "write", "unlink"},
         files' \in [Paths -> Texts \cup {NoFile}], rows' \in [Paths -> Row \cup {NoRow}],
         created' \in Seq(Paths), dry => created' = created,
         deleted' \subseteq Paths, touched' \subseteq Paths,
         UNCHANGED <<dry, saved, backups, outcome, batch, files0>>
  PROVE  CallInv'
<1>1. Tail(todo) \in Seq(Op)
  BY OpTyped DEF CallInv
<1>2. BatchTypeOK'
  BY <1>1 DEF CallInv, BatchTypeOK, Done
<1>3. PhaseOK'
  BY DEF CallInv, PhaseOK, Done
<1> QED
  BY <1>2, <1>3 DEF CallInv

\* The call goes on to another phase of its operation.
LEMMA PhaseKeepsCall ==
  ASSUME CallInv, pc \in {"next", "mutate"}, todo # <<>>, pc' \in {"mutate", "write", "unlink"},
         rows' \in [Paths -> Row \cup {NoRow}],
         backups' \in Seq([path : Paths, text : Texts]), dry => backups' = backups,
         deleted' \subseteq Paths, UNCHANGED <<files, todo, dry, saved, created, applied, outcome, hist>>,
         pc' \in {"write", "unlink"} => ~dry,
         pc' = "mutate" => op.kind # "create" /\ rows'[path] # NoRow,
         pc' = "write"  => op.kind # "delete" /\ op.text # Invalid
                           /\ (op.kind = "update" => rows'[path] # NoRow),
         pc' = "unlink" => op.kind = "delete" /\ rows'[path] = NoRow
  PROVE  CallInv'
<1>1. BatchTypeOK'
  BY DEF CallInv, BatchTypeOK, hist
<1>2. PhaseOK'
  BY DEF CallInv, PhaseOK, op, path
<1> QED
  BY <1>1, <1>2 DEF CallInv

\* A creation leads to the write of its file, or fails.
LEMMA CreateKeepsCall ==
  ASSUME CallInv, Create
  PROVE  CallInv'
<1>1. /\ pc = "next" /\ todo # <<>> /\ op.kind = "create"
      /\ UNCHANGED <<files, dry, saved, backups, created, deleted, hist>>
  BY DEF Create
<1>2. path \in Paths /\ {path} \in SUBSET Paths
  BY <1>1, OpTyped DEF CallInv
<1>3. CASE Fail /\ UNCHANGED applied
  BY <1>1, <1>3, FailKeepsCall DEF CallInv, BatchTypeOK, hist
<1>4. CASE dry /\ op.text # Invalid /\ SetRow /\ Done({path}) /\ UNCHANGED outcome
  <2>1. rows' \in [Paths -> Row \cup {NoRow}]
    BY <1>1, <1>4, SetRowSets DEF CallInv
  <2> QED
    BY <1>1, <1>2, <1>4, <2>1, DoneKeepsCall DEF CallInv, BatchTypeOK, hist
<1>5. CASE ~dry /\ op.text # Invalid /\ pc' = "write" /\ UNCHANGED <<rows, todo, applied, outcome>>
  BY <1>1, <1>5, PhaseKeepsCall DEF CallInv, BatchTypeOK
<1> QED
  BY <1>3, <1>4, <1>5 DEF Create

\* A node is looked up, or is not there.
LEMMA ResolveKeepsCall ==
  ASSUME CallInv, Resolve
  PROVE  CallInv'
<1>1. /\ pc = "next" /\ todo # <<>> /\ op.kind # "create"
      /\ UNCHANGED <<files, dry, saved, created, deleted, applied, hist>>
  BY DEF Resolve
<1>2. CASE Fail /\ UNCHANGED backups
  BY <1>1, <1>2, FailKeepsCall DEF CallInv, BatchTypeOK, hist
<1>3. CASE ~(Fail /\ UNCHANGED backups)
  <2>1. /\ rows[path] # NoRow /\ pc' = "mutate" /\ UNCHANGED <<rows, outcome, todo>>
        /\ backups' = IF ~dry /\ BackUp THEN Append(backups, [path |-> path, text |-> files[path]])
                                        ELSE backups
    BY <1>3 DEF Resolve
  <2>2. backups' \in Seq([path : Paths, text : Texts])
    <3>1. path \in Paths
      BY <1>1, OpTyped DEF CallInv
    <3>2. BackUp => [path |-> path, text |-> files[path]] \in [path : Paths, text : Texts]
      BY <3>1 DEF CallInv, BatchTypeOK, BackUp
    <3> QED
      BY <2>1, <3>2, AppendProperties DEF CallInv, BatchTypeOK
  <2> QED
    BY <1>1, <2>1, <2>2, PhaseKeepsCall DEF CallInv, BatchTypeOK
<1> QED
  BY <1>2, <1>3

\* An update leads to the write of its file.
LEMMA UpdateKeepsCall ==
  ASSUME CallInv, Update
  PROVE  CallInv'
<1>1. /\ pc = "mutate" /\ todo # <<>> /\ op.kind = "update" /\ rows[path] # NoRow
      /\ UNCHANGED <<files, dry, saved, backups, created, deleted, hist>>
  BY DEF Update, CallInv, BatchTypeOK, PhaseOK
<1>2. path \in Paths /\ {path} \in SUBSET Paths /\ {} \in SUBSET Paths
  BY <1>1, OpTyped DEF CallInv
<1>3. CASE Fail /\ UNCHANGED applied
  BY <1>1, <1>3, FailKeepsCall DEF CallInv, BatchTypeOK, hist
<1>4. CASE (Done({path}) \/ Done({})) /\ UNCHANGED <<rows, outcome>>
  BY <1>1, <1>2, <1>4, DoneKeepsCall DEF CallInv, BatchTypeOK, hist
<1>5. CASE dry /\ op.text # Invalid /\ SetRow /\ Done({path}) /\ UNCHANGED outcome
  <2>1. rows' \in [Paths -> Row \cup {NoRow}]
    BY <1>1, <1>5, SetRowSets DEF CallInv
  <2> QED
    BY <1>1, <1>2, <1>5, <2>1, DoneKeepsCall DEF CallInv, BatchTypeOK, hist
<1>6. CASE ~dry /\ op.text # Invalid /\ pc' = "write" /\ UNCHANGED <<rows, todo, applied, outcome>>
  BY <1>1, <1>6, PhaseKeepsCall DEF CallInv, BatchTypeOK
<1> QED
  BY <1>3, <1>4, <1>5, <1>6 DEF Update

\* What the operation gives its file keeps the files typed.
LEMMA FileTyped ==
  ASSUME CallInv, todo # <<>>, NEW t \in Texts \cup {NoFile}
  PROVE  [files EXCEPT ![path] = t] \in [Paths -> Texts \cup {NoFile}]
BY OpTyped DEF CallInv, BatchTypeOK

\* A file that is written ends its operation.
LEMMA WriteKeepsCall ==
  ASSUME CallInv, Write
  PROVE  CallInv'
<1>1. /\ pc = "write" /\ todo # <<>> /\ op.text # Invalid /\ op.text \in Texts
      /\ path \in Paths /\ {path} \in SUBSET Paths /\ ~dry
  BY OpTyped DEF Write, CallInv, BatchTypeOK, PhaseOK
<1>2. files' \in [Paths -> Texts \cup {NoFile}] /\ rows' \in [Paths -> Row \cup {NoRow}]
  BY <1>1, FileTyped, SetRowSets DEF Write, CallInv
<1>3. created' \in Seq(Paths)
  BY <1>1, AppendProperties DEF Write, Created, CallInv, BatchTypeOK
<1> QED
  BY <1>1, <1>2, <1>3, DoneKeepsCall DEF Write, hist, CallInv, BatchTypeOK

\* A write that fails leads into the rollback.
LEMMA WriteFailsKeepsCall ==
  ASSUME CallInv, WriteFails
  PROVE  CallInv'
<1>1. pc = "write" /\ todo # <<>> /\ op.text \in Texts /\ path \in Paths
  BY OpTyped DEF WriteFails, CallInv, BatchTypeOK, PhaseOK
<1>2. files' \in [Paths -> Texts \cup {NoFile}] /\ touched' \subseteq Paths
  BY <1>1, FileTyped DEF WriteFails, Fault, CallInv, BatchTypeOK
<1> QED
  BY <1>1, <1>2, FailKeepsCall DEF WriteFails

\* A deletion leads to the unlink of its file.
LEMMA DeleteKeepsCall ==
  ASSUME CallInv, Delete
  PROVE  CallInv'
<1>1. /\ pc = "mutate" /\ todo # <<>> /\ op.kind = "delete"
      /\ UNCHANGED <<files, dry, saved, backups, created, outcome, hist>>
  BY DEF Delete, CallInv, BatchTypeOK
<1>2. path \in Paths /\ {path} \in SUBSET Paths /\ {} \in SUBSET Paths
  BY <1>1, OpTyped DEF CallInv
<1>5. deleted' \subseteq Paths
  BY <1>2 DEF Delete, CallInv, BatchTypeOK
<1>3. CASE Stale(view, op)
  BY <1>1, <1>2, <1>3, <1>5, DoneKeepsCall DEF Delete, CallInv, BatchTypeOK, hist
<1>4. CASE ~Stale(view, op)
  <2>1. rows' = [rows EXCEPT ![path] = NoRow]
    BY <1>4 DEF Delete
  <2>2. rows' \in [Paths -> Row \cup {NoRow}] /\ rows'[path] = NoRow
    BY <1>2, <2>1 DEF CallInv, BatchTypeOK
  <2>3. CASE dry /\ Done({path})
    BY <1>1, <1>2, <1>5, <2>2, <2>3, DoneKeepsCall DEF CallInv, BatchTypeOK, hist
  <2>4. CASE ~dry /\ pc' = "unlink" /\ UNCHANGED <<todo, applied>>
    BY <1>1, <1>5, <2>2, <2>4, PhaseKeepsCall DEF CallInv, BatchTypeOK
  <2> QED
    BY <1>4, <2>3, <2>4 DEF Delete
<1> QED
  BY <1>3, <1>4

\* An unlink, failing or not, ends its operation.
LEMMA UnlinkKeepsCall ==
  ASSUME CallInv, Unlink \/ UnlinkFails
  PROVE  CallInv'
<1>1. pc = "unlink" /\ todo # <<>> /\ path \in Paths /\ {path} \in SUBSET Paths /\ ~dry
  BY OpTyped DEF Unlink, UnlinkFails, CallInv, BatchTypeOK, PhaseOK
<1>2. /\ files' \in [Paths -> Texts \cup {NoFile}] /\ touched' \subseteq Paths
      /\ Done({path}) /\ UNCHANGED <<rows, dry, saved, backups, created, deleted, outcome, batch, files0>>
  BY <1>1, FileTyped DEF Unlink, UnlinkFails, Fault, hist, CallInv, BatchTypeOK
<1> QED
  BY <1>1, <1>2, DoneKeepsCall DEF CallInv, BatchTypeOK

\* Putting files back.
LEMMA RollbackKeepsCall ==
  ASSUME CallInv, Restore \/ RestoreFails \/ RemoveCreated \/ RemoveCreatedFails \/ Reply
  PROVE  CallInv'
<1>1. /\ pc = "restore" /\ outcome \in {"failed", "torn"} /\ ~dry
      /\ UNCHANGED <<rows, todo, dry, saved, deleted, applied, outcome, batch, files0>>
  BY DEF Restore, RestoreFails, RemoveCreated, RemoveCreatedFails, Reply, CallInv, PhaseOK, hist
<1>2. backups # <<>> => Head(backups) \in [path : Paths, text : Texts]
                        /\ Tail(backups) \in Seq([path : Paths, text : Texts])
  BY HeadTailProperties DEF CallInv, BatchTypeOK
<1>3. created # <<>> => Head(created) \in Paths /\ Tail(created) \in Seq(Paths)
  BY HeadTailProperties DEF CallInv, BatchTypeOK
<1>4. /\ backups' \in Seq([path : Paths, text : Texts]) /\ created' \in Seq(Paths)
      /\ files' \in [Paths -> Texts \cup {NoFile}] /\ touched' \subseteq Paths
  BY <1>2, <1>3 DEF Restore, RestoreFails, RemoveCreated, RemoveCreatedFails, Reply, CallInv, BatchTypeOK, hist
<1>5. \/ pc' = "restore"
      \/ pc' = "idle" /\ backups' = <<>> /\ created' = <<>>
  BY <1>1 DEF Restore, RestoreFails, RemoveCreated, RemoveCreatedFails, Reply
<1>6. BatchTypeOK'
  BY <1>1, <1>4, <1>5 DEF CallInv, BatchTypeOK
<1>7. PhaseOK'
  BY <1>1, <1>5 DEF CallInv, PhaseOK
<1> QED
  BY <1>6, <1>7 DEF CallInv

\* Commit, its failures and a crash end the list of operations.
LEMMA EndKeepsCall ==
  ASSUME CallInv, Commit \/ CommitFails \/ RemoveNodeFails \/ Crash
  PROVE  CallInv'
<1>1. CASE Commit
  <2>1. rows' \in [Paths -> Row \cup {NoRow}]
    BY <1>1 DEF CallInv, BatchTypeOK, Commit
  <2> QED
    BY <1>1, <2>1 DEF CallInv, BatchTypeOK, PhaseOK, Commit, hist
<1>2. CASE CommitFails
  BY <1>2, FailKeepsCall DEF CommitFails, CallInv, BatchTypeOK
<1>3. CASE RemoveNodeFails
  <2>1. <<>> \in Seq([path : Paths, text : Texts])
    BY EmptySeq
  <2> QED
    BY <1>3, <2>1 DEF CallInv, BatchTypeOK, PhaseOK, RemoveNodeFails
<1>4. CASE Crash
  <2>1. <<>> \in Seq(Op) /\ rows' \in [Paths -> Row \cup {NoRow}]
    BY <1>4, EmptySeq DEF CallInv, BatchTypeOK, Crash
  <2> QED
    BY <1>4, <2>1 DEF CallInv, BatchTypeOK, PhaseOK, Crash
<1> QED
  BY <1>1, <1>2, <1>3, <1>4

\* A save disturbs no phase.
LEMMA UserWriteKeepsCall ==
  ASSUME CallInv, NEW p \in Paths, NEW t \in Texts, UserWrite(p, t)
  PROVE  CallInv'
<1>1. /\ files' \in [Paths -> Texts \cup {NoFile}] /\ touched' \subseteq Paths
      /\ UNCHANGED <<rows, call, batch, files0>>
  BY DEF UserWrite, CallInv, BatchTypeOK
<1> QED
  BY <1>1 DEF CallInv, BatchTypeOK, PhaseOK, call, op, path

\* No step disturbs the phases.
LEMMA NextKeepsCall == CallInv /\ [BatchNext]_vars => CallInv'
<1> SUFFICES ASSUME CallInv, [BatchNext]_vars
             PROVE  CallInv'
  OBVIOUS
<1>1. CASE \E b \in Batches, d \in BOOLEAN : Begin(b, d)
  BY <1>1, BeginKeepsCall
<1>2. CASE Create \/ Resolve \/ Update
  BY <1>2, CreateKeepsCall, ResolveKeepsCall, UpdateKeepsCall
<1>3. CASE Write \/ WriteFails
  BY <1>3, WriteKeepsCall, WriteFailsKeepsCall
<1>4. CASE Delete \/ Unlink \/ UnlinkFails
  BY <1>4, DeleteKeepsCall, UnlinkKeepsCall
<1>5. CASE Restore \/ RestoreFails \/ RemoveCreated \/ RemoveCreatedFails \/ Reply
  BY <1>5, RollbackKeepsCall
<1>6. CASE Commit \/ CommitFails \/ RemoveNodeFails \/ Crash
  BY <1>6, EndKeepsCall
<1>7. CASE \E p \in Paths, t \in Texts : UserWrite(p, t)
  BY <1>7, UserWriteKeepsCall
<1>8. CASE UNCHANGED vars
  BY <1>8, CallUnchanged DEF vars, call, CallInv, BatchTypeOK
<1> QED
  BY <1>1, <1>2, <1>3, <1>4, <1>5, <1>6, <1>7, <1>8 DEF BatchNext

\* Before the first call the tool is idle.
LEMMA InitCall == BatchInit => CallInv
<1> SUFFICES ASSUME BatchInit PROVE CallInv
  OBVIOUS
<1>1. rows \in [Paths -> Row \cup {NoRow}] /\ saved = rows
  BY DEF BatchInit, Init, Row
<1>2. BatchTypeOK
  BY <1>1, EmptySeq DEF BatchInit, Init, BatchTypeOK
<1> QED
  BY <1>2 DEF BatchInit, PhaseOK, CallInv

-----------------------------------------------------------------------------
(* What is reported as applied is in step. *)

\* A step that fails, or that is part of a dry run, is not concerned.
LEMMA NotConcerned ==
  ASSUME dry' \/ outcome' \in {"failed", "torn", "crashed"}
  PROVE  AppliedSoFar'
BY DEF AppliedSoFar

\* An operation that is done leaves its path in step and the others alone.
LEMMA DoneInStep ==
  ASSUME CallInv, AppliedSoFar, todo # <<>>, pc \in {"next", "mutate", "write", "unlink"},
         UNCHANGED dry, NEW a \in SUBSET {path}, Done(a), touched \subseteq touched',
         \A p \in Paths \ {path} : files'[p] = files[p] /\ rows'[p] = rows[p],
         \A p \in {path} : p \in applied' \ touched' => InStep(p)'
  PROVE  AppliedSoFar'
<1> SUFFICES ASSUME ~dry', NEW p \in applied' \ touched' PROVE InStep(p)'
  BY DEF AppliedSoFar
<1>1. outcome = "none" /\ path \in Paths /\ applied \subseteq Paths
  BY OpTyped DEF CallInv, BatchTypeOK, PhaseOK
<1>2. CASE p = path
  BY <1>2
<1>3. CASE p # path
  <2>1. p \in Paths /\ p \in applied \ touched
    BY <1>1, <1>3 DEF Done
  <2>2. InStep(p)
    BY <1>1, <1>3, <2>1 DEF AppliedSoFar
  <2> QED
    BY <1>3, <2>1, <2>2 DEF InStep
<1> QED
  BY <1>2, <1>3

\* Each step of an operation keeps what is applied so far in step.
LEMMA WorkKeepsApplied ==
  ASSUME CallInv, AppliedSoFar, Create \/ Resolve \/ Update \/ Write \/ Delete \/ Unlink
  PROVE  AppliedSoFar'
<1>1. /\ todo # <<>> /\ pc \in {"next", "mutate", "write", "unlink"}
      /\ UNCHANGED <<dry, touched>>
  BY DEF CallInv, BatchTypeOK, Create, Resolve, Update, Write, Delete, Unlink, hist
<1>2. path \in Paths /\ rows \in [Paths -> Row \cup {NoRow}] /\ files \in [Paths -> Texts \cup {NoFile}]
  BY <1>1, OpTyped DEF CallInv, BatchTypeOK
<1>3. CASE dry \/ Fail
  BY <1>1, <1>3, NotConcerned DEF Fail
<1>4. CASE Write /\ ~dry
  <2>1. op.text # Invalid
    BY <1>4 DEF Write, CallInv, PhaseOK
  <2>2. /\ rows'[path] # NoRow /\ rows'[path].text = op.text
        /\ \A p \in Paths \ {path} : rows'[p] = rows[p]
    BY <1>1, <1>4, <2>1, SetRowSets DEF CallInv, Write
  <2>3. files' = [files EXCEPT ![path] = op.text] /\ Done({path})
    BY <1>4 DEF Write
  <2>4. \A p \in {path} : InStep(p)'
    BY <1>2, <2>2, <2>3 DEF InStep
  <2> QED
    BY <1>1, <1>2, <2>2, <2>3, <2>4, DoneInStep
<1>5. CASE Unlink
  <2>1. rows[path] = NoRow /\ rows' = rows /\ files' = [files EXCEPT ![path] = NoFile] /\ Done({path})
    BY <1>5 DEF Unlink, CallInv, PhaseOK
  <2>2. \A p \in {path} : InStep(p)'
    BY <1>2, <2>1 DEF InStep
  <2> QED
    BY <1>1, <1>2, <2>1, <2>2, DoneInStep
<1>6. CASE ~dry /\ ~Fail /\ (Create \/ Resolve \/ Update \/ Delete)
  <2>1. /\ pc \in {"next", "mutate"} /\ pc # "unlink" /\ outcome = "none" /\ files' = files
    BY <1>6 DEF Create, Resolve, Update, Delete, CallInv, PhaseOK
  <2>2. \A p \in applied \ touched : InStep(p)
    BY <1>6, <2>1 DEF AppliedSoFar
  <2>3. \/ pc' \in {"mutate", "write"} /\ UNCHANGED <<rows, applied>>
        \/ /\ pc' = "unlink" /\ UNCHANGED <<todo, applied>>
           /\ rows' = [rows EXCEPT ![path] = NoRow]
        \/ rows' = rows /\ (Done({}) \/ (NoOp(view, op) /\ Done({path}) /\ rows[path] # NoRow))
    BY <1>6, <2>1 DEF Create, Resolve, Update, Delete, CallInv, PhaseOK
  <2>4. CASE pc' \in {"mutate", "write"} /\ UNCHANGED <<rows, applied>>
    BY <1>1, <2>1, <2>2, <2>4 DEF AppliedSoFar, InStep
  <2>5. CASE /\ pc' = "unlink" /\ UNCHANGED <<todo, applied>>
             /\ rows' = [rows EXCEPT ![path] = NoRow]
    <3> SUFFICES ASSUME NEW p \in applied' \ touched', p # path' PROVE InStep(p)'
      BY <2>5 DEF AppliedSoFar
    <3>1. p # path /\ InStep(p) /\ p \in Paths
      BY <1>1, <2>2, <2>5 DEF path, op, CallInv, BatchTypeOK
    <3> QED
      BY <1>2, <2>1, <2>5, <3>1 DEF InStep
  <2>6. CASE rows' = rows /\ Done({})
    <3>1. \A p \in {path} : p \in applied' \ touched' => InStep(p)'
      BY <1>1, <2>1, <2>2, <2>6 DEF InStep, Done
    <3> QED
      BY <1>1, <2>1, <2>6, <3>1, DoneInStep
  <2>7. CASE rows' = rows /\ NoOp(view, op) /\ Done({path}) /\ rows[path] # NoRow
    <3>1. files[path] = op.text /\ rows[path].text = op.text
      BY <2>7 DEF NoOp, view, path
    <3>2. \A p \in {path} : InStep(p)'
      BY <2>1, <2>7, <3>1 DEF InStep
    <3> QED
      BY <1>1, <2>1, <2>7, <3>2, DoneInStep
  <2> QED
    BY <2>3, <2>4, <2>5, <2>6, <2>7
<1> QED
  BY <1>3, <1>4, <1>5, <1>6

\* So does every other step.
LEMMA NextKeepsApplied == CallInv /\ AppliedSoFar /\ [BatchNext]_vars => AppliedSoFar'
<1> SUFFICES ASSUME CallInv, AppliedSoFar, [BatchNext]_vars
             PROVE  AppliedSoFar'
  OBVIOUS
<1>1. CASE \E b \in Batches, d \in BOOLEAN : Begin(b, d)
  BY <1>1 DEF Begin, AppliedSoFar
<1>2. CASE Create \/ Resolve \/ Update \/ Write \/ Delete \/ Unlink
  BY <1>2, WorkKeepsApplied
<1>3. CASE WriteFails \/ CommitFails \/ RemoveNodeFails \/ Crash
  BY <1>3, NotConcerned DEF WriteFails, CommitFails, RemoveNodeFails, Fail, Crash
<1>4. CASE UnlinkFails
  <2>1. /\ todo # <<>> /\ pc = "unlink" /\ UNCHANGED <<dry, files, rows>>
        /\ touched' = touched \cup {path} /\ Done({path})
    BY <1>4 DEF UnlinkFails, Fault, CallInv, BatchTypeOK
  <2> QED
    BY <2>1, DoneInStep
<1>5. CASE Commit
  <2> SUFFICES ASSUME ~dry, NEW p \in applied \ touched PROVE InStep(p)'
    BY <1>5 DEF AppliedSoFar, Commit, hist
  <2>1. pc = "next" /\ outcome = "none"
    BY <1>5 DEF Commit, CallInv, PhaseOK
  <2>2. InStep(p)
    BY <2>1 DEF AppliedSoFar
  <2> QED
    BY <1>5, <2>2 DEF InStep, Commit
<1>6. CASE Restore \/ RestoreFails \/ RemoveCreated \/ RemoveCreatedFails \/ Reply
  BY <1>6, NotConcerned DEF Restore, RestoreFails, RemoveCreated, RemoveCreatedFails, Reply, CallInv, PhaseOK
<1>7. CASE \E p \in Paths, t \in Texts : UserWrite(p, t)
  <2>1. PICK q \in Paths, t \in Texts : UserWrite(q, t)
    BY <1>7
  <2> SUFFICES ASSUME ~dry', pc' # "restore", outcome' \in {"none", "applied"},
                      NEW p \in applied' \ touched', ~(pc' = "unlink" /\ p = path')
               PROVE  InStep(p)'
    BY DEF AppliedSoFar
  <2>2. p \in applied \ touched /\ p # q /\ ~(pc = "unlink" /\ p = path) /\ p \in Paths
    BY <2>1 DEF UserWrite, call, path, op, CallInv, BatchTypeOK
  <2>3. InStep(p)
    BY <2>1, <2>2 DEF AppliedSoFar, UserWrite, call
  <2> QED
    BY <2>1, <2>2, <2>3 DEF InStep, UserWrite, CallInv, BatchTypeOK
<1>8. CASE UNCHANGED vars
  BY <1>8 DEF vars, AppliedSoFar, InStep, path, op
<1> QED
  BY <1>1, <1>2, <1>3, <1>4, <1>5, <1>6, <1>7, <1>8 DEF BatchNext

-----------------------------------------------------------------------------
(* What rollback puts back. *)

\* It is enough to look at the paths the invariant is about, which it was about before.
LEMMA KeepEach ==
  ASSUME RestoreInv, outcome = "failed" \/ (pc # "idle" /\ outcome = "none"),
         touched \subseteq touched', UNCHANGED <<batch, files0, saved>>,
         \A p \in Paths : Orderly(p) /\ Kept(p) /\ p \notin touched' => Kept(p)'
  PROVE  RestoreInv'
BY DEF RestoreInv, Orderly

\* When the operation at hand is the only one on p, none is left after it.
LEMMA AloneDone ==
  ASSUME CallInv, todo # <<>>, NEW p \in Paths, Alone(todo, p)
  PROVE  /\ Alone(Tail(todo), p)
         /\ p # path => (Pending(p) <=> \E o \in ToSet(Tail(todo)) : o.path = p)
         /\ p = path => Pending(p) /\ ~ \E o \in ToSet(Tail(todo)) : o.path = p
<1>1. todo \in Seq(Op)
  BY DEF CallInv, BatchTypeOK
<1>2. /\ op = todo[1] /\ 1 \in DOMAIN todo
      /\ \A i \in DOMAIN Tail(todo) : i + 1 \in DOMAIN todo /\ i + 1 # 1 /\ Tail(todo)[i] = todo[i + 1]
  BY <1>1, HeadTail DEF op
<1>3. ToSet(todo) = {op} \cup ToSet(Tail(todo))
  BY <1>1, ElementsOfTail DEF op
<1>4. Alone(Tail(todo), p)
  <2> SUFFICES ASSUME NEW i \in DOMAIN Tail(todo), NEW j \in DOMAIN Tail(todo),
                      Tail(todo)[i].path = p, Tail(todo)[j].path = p
               PROVE  i = j
    BY DEF Alone
  <2>1. i + 1 = j + 1
    BY <1>2 DEF Alone
  <2>2. DOMAIN Tail(todo) = 1 .. Len(Tail(todo)) /\ Tail(todo) \in Seq(Op)
    BY <1>1, HeadTailProperties, LenProperties
  <2> QED
    BY <2>1, <2>2
<1>5. ASSUME p = path, NEW o \in ToSet(Tail(todo)) PROVE o.path # p
  BY <1>2, <1>5 DEF ToSet, Alone, path
<1> QED
  BY <1>3, <1>4, <1>5 DEF Pending, path

\* An operation that is done leaves to rollback what it takes to undo it.
LEMMA DoneKeeps ==
  ASSUME CallInv, RestoreInv, todo # <<>>, pc \in {"next", "mutate", "write", "unlink"},
         pc' = "next", todo' = Tail(todo), touched \subseteq touched',
         UNCHANGED <<dry, backups, batch, files0, saved>>,
         \A p \in Paths \ {path} : files'[p] = files[p] /\ rows'[p] = rows[p],
         \A q \in ToSet(created') : q \in ToSet(created) \/ q = path,
         ToSet(created) \subseteq ToSet(created'),
         \A p \in {path} : Orderly(p) /\ Kept(p) /\ p \notin touched' =>
           Recoverable(p)' /\ (dry => files'[p] = files0[p])
  PROVE  RestoreInv'
<1>1. path \in Paths /\ pc # "idle" /\ outcome = "none"
  BY OpTyped DEF CallInv, PhaseOK
<1>2. ASSUME NEW p \in Paths, Orderly(p), Kept(p), p \notin touched' PROVE Kept(p)'
  <2>1. Alone(todo, p)'
    BY <1>2, AloneDone DEF Kept
  <2>2. CASE p = path
    <3>1. ~Pending(p)'
      BY <1>2, <2>2, AloneDone DEF Kept, Pending
    <3> QED
      BY <1>2, <2>1, <2>2, <3>1 DEF Kept
  <2>3. CASE p # path
    <3>1. files'[p] = files[p] /\ rows'[p] = rows[p] /\ (ByBatch(p)' <=> ByBatch(p))
      BY <2>3 DEF ByBatch
    <3>2. (BackedUp(p)' <=> BackedUp(p)) /\ Recoverable(p)'
      BY <1>2, <3>1 DEF Kept, Recoverable, BackedUp
    <3>3. Pending(p)' => Pending(p)
      BY <1>2, <2>3, AloneDone DEF Kept, Pending
    <3>4. ~dry' /\ Pending(p)' => Waiting(p)'
      BY <1>2, <2>3, <3>1, <3>2, <3>3 DEF Kept, Waiting
    <3> QED
      BY <1>2, <2>1, <3>1, <3>2, <3>4 DEF Kept
  <2> QED
    BY <2>2, <2>3
<1> QED
  BY <1>1, <1>2, KeepEach

\* A failure: the rollback gets what the batch has collected.
LEMMA FailKeeps ==
  ASSUME CallInv, RestoreInv, pc \in {"next", "mutate", "write", "unlink"}, Fail, touched \subseteq touched',
         UNCHANGED <<dry, backups, created, batch, files0, saved>>,
         \A p \in Paths \ touched' : files'[p] = files[p]
  PROVE  RestoreInv'
<1>1. ASSUME NEW p \in Paths, Orderly(p), Kept(p), p \notin touched' PROVE Kept(p)'
  <2>1. Recoverable(p)' /\ (dry' => files'[p] = files0'[p])
    BY <1>1 DEF Kept, Recoverable, BackedUp, ByBatch
  <2>2. todo' = <<>>
    BY DEF Fail
  <2> QED
    BY <2>1, <2>2, NoElements DEF Kept, Alone, Pending
<1>2. pc # "idle" /\ outcome = "none"
  BY DEF CallInv, PhaseOK
<1> QED
  BY <1>1, <1>2, KeepEach

\* The call goes on: the backup it may have taken is the file of before.
LEMMA PhaseKeeps ==
  ASSUME CallInv, RestoreInv, todo # <<>>, pc \in {"next", "mutate"},
         pc' \in {"mutate", "write", "unlink"},
         UNCHANGED <<files, todo, dry, saved, created, batch, files0, touched>>,
         dry => backups' = backups,
         \/ backups' = backups
         \/ /\ pc = "next" /\ op.kind # "create"
            /\ ToSet(backups') = ToSet(backups) \cup {[path |-> path, text |-> files[path]]},
         \A p \in Paths \ {path} : rows'[p] = rows[p],
         pc' # "unlink" => rows' = rows,
         pc' = "write" /\ op.kind = "create" => pc = "next" /\ files[path] = NoFile,
         pc = "next" /\ op.kind # "create" /\ ~dry =>
           files[path] = NoFile \/ \E b \in ToSet(backups') : b.path = path
  PROVE  RestoreInv'
<1> DEFINE new == [path |-> path, text |-> files[path]]
<1>1. op' = op /\ path' = path
  BY DEF op, path
<1>2. ASSUME NEW p \in Paths, Orderly(p), Kept(p), p \notin touched' PROVE Kept(p)'
  <2>1. CASE p # path
    <3>1. BackedUp(p)' <=> BackedUp(p)
      BY <2>1 DEF BackedUp
    <3>2. Recoverable(p)'
      BY <1>2, <2>1, <3>1 DEF Kept, Recoverable, ByBatch
    <3>3. ~dry' /\ Pending(p)' => Waiting(p)'
      BY <1>1, <1>2, <2>1, <3>1 DEF Kept, Pending, Waiting, ByBatch
    <3> QED
      BY <1>2, <3>2, <3>3 DEF Kept, Alone
  <2>2. CASE p = path
    <3>1. Pending(p)
      BY <1>2, <2>2, AloneDone DEF Kept
    <3>2. CASE dry
      BY <1>2, <3>2 DEF Kept, Recoverable, BackedUp, ByBatch, Alone, Pending
    <3>3. CASE ~dry
      <4>1. Waiting(p)
        BY <1>2, <3>1, <3>3 DEF Kept
      <4>2. files[p] = files0[p] /\ ~ByBatch(p) /\ rows[p] = saved[p]
        BY <4>1 DEF Waiting
      <4>3. Recoverable(p)'
        BY <1>2, <2>2, <4>2 DEF Kept, Recoverable, ByBatch
      <4>4. Waiting(p)'
        <5>1. files'[p] = files0'[p] /\ ~ByBatch(p)'
          BY <4>2 DEF ByBatch
        <5>2. pc' # "unlink" \/ p # path' => rows'[p] = saved'[p]
          BY <1>1, <2>2, <4>2
        <5>3. op.kind = "create" => ~BackedUp(p)'
          BY <4>1 DEF Waiting, BackedUp
        <5>4. op.kind # "create" => BackedUp(p)' \/ files'[p] = NoFile
          <6>1. CASE pc = "next"
            BY <2>2, <3>3, <6>1 DEF BackedUp
          <6>2. CASE pc = "mutate"
            BY <2>2, <4>1, <6>2 DEF Waiting, BackedUp
          <6> QED
            BY <6>1, <6>2
        <5> QED
          BY <1>1, <2>2, <5>1, <5>2, <5>3, <5>4 DEF Waiting
      <4> QED
        BY <1>2, <3>3, <4>2, <4>3, <4>4 DEF Kept, Alone
    <3> QED
      BY <3>2, <3>3
  <2> QED
    BY <2>1, <2>2
<1>3. pc # "idle" /\ outcome = "none"
  BY DEF CallInv, PhaseOK
<1> QED
  BY <1>2, <1>3, KeepEach

\* An operation that is done without touching a file.
LEMMA QuietDoneKeeps ==
  ASSUME CallInv, RestoreInv, todo # <<>>, pc \in {"next", "mutate", "write", "unlink"},
         pc' = "next", todo' = Tail(todo), touched \subseteq touched',
         UNCHANGED <<dry, files, backups, created, batch, files0, saved>>,
         \A p \in Paths \ {path} : rows'[p] = rows[p]
  PROVE  RestoreInv'
<1>1. \A p \in {path} : Orderly(p) /\ Kept(p) /\ p \notin touched' =>
        Recoverable(p)' /\ (dry => files'[p] = files0[p])
  BY DEF Kept, Recoverable, BackedUp, ByBatch
<1> QED
  BY <1>1, DoneKeeps

\* A creation changes no file yet.
LEMMA CreateKeeps ==
  ASSUME CallInv, RestoreInv, Create
  PROVE  RestoreInv'
<1>1. /\ pc = "next" /\ todo # <<>> /\ op.kind = "create"
      /\ UNCHANGED <<files, dry, saved, backups, created, batch, files0, touched>>
  BY DEF Create, hist
<1>2. CASE Fail
  BY <1>1, <1>2, FailKeeps
<1>3. CASE SetRow /\ Done({path}) /\ op.text # Invalid
  <2>1. \A p \in Paths \ {path} : rows'[p] = rows[p]
    BY <1>1, <1>3, SetRowSets DEF CallInv
  <2> QED
    BY <1>1, <1>3, <2>1, QuietDoneKeeps DEF Done
<1>4. CASE pc' = "write" /\ UNCHANGED <<rows, todo, applied>> /\ ~PathTaken
  BY <1>1, <1>4, PhaseKeeps DEF PathTaken
<1> QED
  BY <1>2, <1>3, <1>4 DEF Create

\* A lookup may take the backup.
LEMMA ResolveKeeps ==
  ASSUME CallInv, RestoreInv, Resolve
  PROVE  RestoreInv'
<1> DEFINE new == [path |-> path, text |-> files[path]]
<1>1. /\ pc = "next" /\ todo # <<>> /\ op.kind # "create"
      /\ UNCHANGED <<files, dry, saved, created, batch, files0, touched>>
  BY DEF Resolve, hist
<1>2. path \in Paths
  BY <1>1, OpTyped DEF CallInv
<1>3. CASE Fail /\ UNCHANGED backups
  BY <1>1, <1>3, FailKeeps
<1>4. CASE ~(Fail /\ UNCHANGED backups)
  <2>1. /\ pc' = "mutate" /\ UNCHANGED <<rows, todo>>
        /\ backups' = IF ~dry /\ files[path] # NoFile THEN Append(backups, new) ELSE backups
    BY <1>4 DEF Resolve, BackUp
  <2>2. CASE ~dry /\ files[path] # NoFile
    <3> DEFINE Backups == [path : Paths, text : Texts]
    <3>1. new \in Backups /\ backups \in Seq(Backups)
      BY <1>2, <2>2 DEF CallInv, BatchTypeOK
    <3>2. backups' = Append(backups, new) /\ new.path = path
      BY <2>1, <2>2
    <3> HIDE DEF new, Backups
    <3>3. ToSet(backups') = ToSet(backups) \cup {new}
      BY <3>1, <3>2, ElementsOfAppend
    <3>4. \E b \in ToSet(backups') : b.path = path
      BY <3>2, <3>3
    <3> USE DEF new
    <3> QED
      BY <1>1, <2>1, <2>2, <3>3, <3>4, PhaseKeeps
  <2>3. CASE dry \/ files[path] = NoFile
    BY <1>1, <2>1, <2>3, PhaseKeeps
  <2> QED
    BY <2>2, <2>3
<1> QED
  BY <1>3, <1>4

\* An update changes no file yet.
LEMMA UpdateKeeps ==
  ASSUME CallInv, RestoreInv, Update
  PROVE  RestoreInv'
<1>1. /\ pc = "mutate" /\ todo # <<>> /\ op.kind = "update"
      /\ UNCHANGED <<files, dry, saved, backups, created, batch, files0, touched>>
  BY DEF Update, hist, CallInv, BatchTypeOK
<1>2. CASE Fail
  BY <1>1, <1>2, FailKeeps
<1>3. CASE (Done({path}) \/ Done({})) /\ UNCHANGED rows
  BY <1>1, <1>3, QuietDoneKeeps DEF Done
<1>4. CASE SetRow /\ Done({path}) /\ op.text # Invalid
  <2>1. \A p \in Paths \ {path} : rows'[p] = rows[p]
    BY <1>1, <1>4, SetRowSets DEF CallInv
  <2> QED
    BY <1>1, <1>4, <2>1, QuietDoneKeeps DEF Done
<1>5. CASE pc' = "write" /\ UNCHANGED <<rows, todo, applied>>
  BY <1>1, <1>5, PhaseKeeps
<1> QED
  BY <1>2, <1>3, <1>4, <1>5 DEF Update

\* A file that is written was free and is the batch's own, or has a backup, unless a
\* row had lost it.
LEMMA WriteKeeps ==
  ASSUME CallInv, RestoreInv, Write
  PROVE  RestoreInv'
<1>1. /\ pc = "write" /\ todo # <<>> /\ ~dry /\ op.text # Invalid
      /\ op.kind \in {"create", "update"} /\ (op.kind = "update" => rows[path] # NoRow)
      /\ files' = [files EXCEPT ![path] = op.text] /\ Done({path})
      /\ UNCHANGED <<dry, saved, backups, batch, files0, touched>>
  BY OpTyped DEF Write, hist, CallInv, BatchTypeOK, PhaseOK
<1>2. path \in Paths /\ created \in Seq(Paths) /\ files \in [Paths -> Texts \cup {NoFile}]
  BY <1>1, OpTyped DEF CallInv, BatchTypeOK
<1>3. \A p \in Paths \ {path} : files'[p] = files[p] /\ rows'[p] = rows[p]
  BY <1>1, <1>2, SetRowSets DEF CallInv, Write
<1>4. ToSet(created') = IF op.kind = "create" THEN ToSet(created) \cup {path} ELSE ToSet(created)
  <2>1. created' = IF op.kind = "create" THEN Append(created, path) ELSE created
    BY DEF Write, Created
  <2>2. ToSet(Append(created, path)) = ToSet(created) \cup {path}
    BY <1>2, ElementsOfAppend
  <2> QED
    BY <2>1, <2>2
<1>5. ASSUME NEW p \in {path}, Orderly(p), Kept(p), p \notin touched' PROVE Recoverable(p)'
  <2>1. Waiting(p)
    BY <1>1, <1>2, <1>5, AloneDone DEF Kept
  <2>2. BackedUp(p)' <=> BackedUp(p)
    BY <1>1 DEF BackedUp
  <2>3. CASE op.kind = "create"
    <3>1. files0[p] = NoFile /\ ~BackedUp(p) /\ ByBatch(p)'
      BY <1>1, <1>4, <1>5, <2>1, <2>3 DEF Waiting, ByBatch
    <3> QED
      BY <1>1, <2>2, <3>1 DEF Recoverable, BackedUp
  <2>4. CASE op.kind = "update"
    <3>1. rows[p] = saved[p] /\ rows[p] # NoRow
      BY <1>1, <1>5, <2>1, <2>4 DEF Waiting
    <3>2. BackedUp(p) /\ ~ByBatch(p)'
      BY <1>1, <1>4, <1>5, <2>1, <2>4, <3>1 DEF Waiting, ByBatch, Orderly
    <3> QED
      BY <1>1, <1>5, <2>2, <3>2 DEF Kept, Recoverable, BackedUp
  <2> QED
    BY <1>1, <2>3, <2>4
<1> QED
  BY <1>1, <1>3, <1>4, <1>5, DoneKeeps DEF Done

\* A deletion leaves the file for the unlink.
LEMMA DeleteKeeps ==
  ASSUME CallInv, RestoreInv, Delete
  PROVE  RestoreInv'
<1>1. /\ pc = "mutate" /\ todo # <<>> /\ op.kind = "delete"
      /\ UNCHANGED <<files, dry, saved, backups, created, batch, files0, touched>>
      /\ \A p \in Paths \ {path} : rows'[p] = rows[p]
  BY DEF Delete, hist, CallInv, BatchTypeOK
<1>2. CASE Done({path}) \/ Done({})
  BY <1>1, <1>2, QuietDoneKeeps DEF Done
<1>3. CASE pc' = "unlink" /\ UNCHANGED <<todo, applied>>
  BY <1>1, <1>3, PhaseKeeps
<1> QED
  BY <1>2, <1>3 DEF Delete

\* An unlinked file has its backup.
LEMMA UnlinkKeeps ==
  ASSUME CallInv, RestoreInv, Unlink
  PROVE  RestoreInv'
<1>1. /\ pc = "unlink" /\ todo # <<>> /\ ~dry /\ op.kind = "delete" /\ path \in Paths
      /\ files' = [files EXCEPT ![path] = NoFile] /\ Done({path})
      /\ UNCHANGED <<rows, dry, saved, backups, created, batch, files0, touched>>
      /\ files \in [Paths -> Texts \cup {NoFile}]
  BY OpTyped DEF Unlink, hist, CallInv, BatchTypeOK, PhaseOK
<1>2. ASSUME NEW p \in {path}, Orderly(p), Kept(p), p \notin touched' PROVE Recoverable(p)'
  <2>1. Waiting(p)
    BY <1>1, <1>2, AloneDone DEF Kept
  <2>2. files[p] = files0[p] /\ ~ByBatch(p) /\ (BackedUp(p) \/ files0[p] = NoFile)
    BY <1>1, <1>2, <2>1 DEF Waiting
  <2> QED
    BY <1>1, <1>2, <2>2 DEF Kept, Recoverable, BackedUp, ByBatch
<1> QED
  BY <1>1, <1>2, DoneKeeps DEF Done

\* Rollback puts back what it has, the backups first.
LEMMA RollbackKeeps ==
  ASSUME CallInv, RestoreInv, Restore \/ RestoreFails \/ RemoveCreated \/ RemoveCreatedFails \/ Reply
  PROVE  RestoreInv'
<1>0. CASE outcome # "failed"
  BY <1>0 DEF Restore, RestoreFails, RemoveCreated, RemoveCreatedFails, Reply, CallInv, PhaseOK,
              RestoreInv, hist
<1> SUFFICES ASSUME outcome = "failed"
             PROVE  RestoreInv'
  BY <1>0
<1> DEFINE Backups == [path : Paths, text : Texts]
<1>1. /\ pc = "restore" /\ ~dry /\ todo = <<>>
      /\ UNCHANGED <<rows, todo, dry, saved, applied, outcome, batch, files0>>
      /\ files \in [Paths -> Texts \cup {NoFile}]
  BY DEF Restore, RestoreFails, RemoveCreated, RemoveCreatedFails, Reply, CallInv, BatchTypeOK, PhaseOK, hist
<1>2. backups \in Seq(Backups) /\ created \in Seq(Paths)
  BY DEF CallInv, BatchTypeOK
<1>3. CASE Restore \/ RestoreFails
  <2>1. /\ backups # <<>> /\ backups' = Tail(backups) /\ UNCHANGED created
        /\ \/ files' = [files EXCEPT ![Head(backups).path] = Head(backups).text]
              /\ touched' = touched
           \/ files' = files /\ touched' = touched \cup {Head(backups).path}
    BY <1>3 DEF Restore, RestoreFails, hist
  <2> HIDE DEF Backups
  <2>2. ToSet(backups) = {Head(backups)} \cup ToSet(backups')
    BY <1>2, <2>1, ElementsOfTail
  <2>3. ASSUME NEW p \in Paths, Orderly(p), Kept(p), p \notin touched' PROVE Kept(p)'
    <3>1. /\ \A b \in ToSet(backups) : b.path = p => b.text = files0[p]
          /\ ByBatch(p) => files0[p] = NoFile /\ ~BackedUp(p)
          /\ files[p] = files0[p] \/ BackedUp(p) \/ ByBatch(p)
      BY <2>3 DEF Kept, Recoverable
    <3>2. CASE Head(backups).path = p
      <4>1. files'[p] = files0[p]
        BY <1>1, <2>1, <2>2, <2>3, <3>1, <3>2
      <4>2. Recoverable(p)'
        BY <1>1, <2>1, <2>2, <3>1, <4>1 DEF Recoverable, BackedUp, ByBatch
      <4> QED
        BY <1>1, <2>3, <4>2, NoElements DEF Kept, Alone, Pending
    <3>3. CASE Head(backups).path # p
      <4>1. files'[p] = files[p] /\ (BackedUp(p)' <=> BackedUp(p)) /\ (ByBatch(p)' <=> ByBatch(p))
        BY <1>1, <2>1, <2>2, <3>3 DEF BackedUp, ByBatch
      <4>2. Recoverable(p)'
        BY <1>1, <2>2, <3>1, <4>1 DEF Recoverable
      <4> QED
        BY <1>1, <2>3, <4>2, NoElements DEF Kept, Alone, Pending
    <3> QED
      BY <3>2, <3>3
  <2> QED
    BY <1>1, <2>1, <2>3, KeepEach
<1>4. CASE RemoveCreated \/ RemoveCreatedFails
  <2>1. /\ backups = <<>> /\ created # <<>> /\ created' = Tail(created) /\ UNCHANGED backups
        /\ \/ files' = [files EXCEPT ![Head(created)] = NoFile] /\ touched' = touched
           \/ files' = files /\ touched' = touched \cup {Head(created)}
    BY <1>4 DEF RemoveCreated, RemoveCreatedFails, hist
  <2>2. ToSet(created) = {Head(created)} \cup ToSet(created')
    BY <1>2, <2>1, ElementsOfTail
  <2>3. ASSUME NEW p \in Paths, Orderly(p), Kept(p), p \notin touched' PROVE Kept(p)'
    <3>1. ~BackedUp(p) /\ ~BackedUp(p)'
      BY <2>1, NoElements DEF BackedUp
    <3>2. Recoverable(p)'
      BY <1>1, <2>1, <2>2, <2>3, <3>1 DEF Kept, Recoverable, BackedUp, ByBatch
    <3> QED
      BY <1>1, <2>3, <3>2, NoElements DEF Kept, Alone, Pending
  <2> QED
    BY <1>1, <2>1, <2>3, KeepEach
<1>5. CASE Reply
  <2>1. UNCHANGED <<files, backups, created, touched>>
    BY <1>5 DEF Reply, hist
  <2>2. ASSUME NEW p \in Paths, Orderly(p), Kept(p), p \notin touched' PROVE Kept(p)'
    BY <1>1, <2>1, <2>2, NoElements DEF Kept, Recoverable, BackedUp, ByBatch, Alone, Pending
  <2> QED
    BY <1>1, <2>1, <2>2, KeepEach
<1> QED
  BY <1>3, <1>4, <1>5

\* A batch begins with the files of before, and nothing of its own.
LEMMA BeginKeeps ==
  ASSUME NEW b, NEW d, Begin(b, d)
  PROVE  RestoreInv'
<1>1. /\ pc' = "next" /\ todo' = batch' /\ backups' = <<>> /\ created' = <<>>
      /\ files' = files0' /\ rows' = saved'
  BY DEF Begin
<1>2. ASSUME NEW p \in Paths, Orderly(p)' PROVE Kept(p)'
  BY <1>1, <1>2, NoElements DEF Orderly, Kept, Recoverable, Waiting, BackedUp, ByBatch, Alone
<1> QED
  BY <1>2 DEF RestoreInv

\* No step takes from rollback what it needs.
LEMMA NextKeepsRestore == CallInv /\ RestoreInv /\ [BatchNext]_vars => RestoreInv'
<1> SUFFICES ASSUME CallInv, RestoreInv, [BatchNext]_vars
             PROVE  RestoreInv'
  OBVIOUS
<1>1. CASE \E b \in Batches, d \in BOOLEAN : Begin(b, d)
  BY <1>1, BeginKeeps
<1>2. CASE Create \/ Resolve \/ Update
  BY <1>2, CreateKeeps, ResolveKeeps, UpdateKeeps
<1>3. CASE Write \/ Delete \/ Unlink
  BY <1>3, WriteKeeps, DeleteKeeps, UnlinkKeeps
<1>4. CASE WriteFails
  <2>1. \A p \in Paths \ touched' : files'[p] = files[p]
    BY <1>4 DEF WriteFails, Fault, CallInv, BatchTypeOK
  <2> QED
    BY <1>4, <2>1, FailKeeps DEF WriteFails, Fault
<1>5. CASE UnlinkFails
  <2>1. /\ todo # <<>> /\ pc = "unlink" /\ touched' = touched \cup {path} /\ Done({path})
        /\ UNCHANGED <<files, rows, dry, saved, backups, created, batch, files0>>
    BY <1>5 DEF UnlinkFails, Fault, CallInv, BatchTypeOK
  <2> QED
    BY <2>1, QuietDoneKeeps DEF Done
<1>6. CASE Commit \/ RemoveNodeFails \/ Crash
  BY <1>6 DEF Commit, RemoveNodeFails, Crash, RestoreInv
<1>10. CASE CommitFails
  BY <1>10, FailKeeps DEF CommitFails
<1>7. CASE Restore \/ RestoreFails \/ RemoveCreated \/ RemoveCreatedFails \/ Reply
  BY <1>7, RollbackKeeps
<1>8. CASE \E p \in Paths, t \in Texts : UserWrite(p, t)
  <2>1. PICK q \in Paths, t \in Texts : UserWrite(q, t)
    BY <1>8
  <2>2. /\ pc # "idle" /\ touched' = touched \cup {q} /\ files' = [files EXCEPT ![q] = t]
        /\ UNCHANGED <<rows, pc, todo, dry, saved, backups, created, outcome, batch, files0>>
    BY <2>1 DEF UserWrite, call
  <2>3. ASSUME NEW p \in Paths, Orderly(p), Kept(p), p \notin touched' PROVE Kept(p)'
    <3>1. files'[p] = files[p]
      BY <2>2, <2>3 DEF CallInv, BatchTypeOK
    <3> QED
      BY <2>2, <2>3, <3>1
      DEF Kept, Recoverable, Waiting, BackedUp, ByBatch, Alone, Pending, op, path
  <2> QED
    BY <2>2, <2>3, KeepEach DEF RestoreInv, UserWrite, call
<1>9. CASE UNCHANGED vars
  BY <1>9 DEF vars, RestoreInv, Orderly, Kept, Recoverable, Waiting, BackedUp, ByBatch,
              Alone, Pending, op, path
<1> QED
  BY <1>1, <1>2, <1>3, <1>4, <1>5, <1>6, <1>7, <1>8, <1>9, <1>10 DEF BatchNext

-----------------------------------------------------------------------------

\* The invariant holds in every state of every batch.
THEOREM BatchInvInductive == BatchSpec => []BatchInv
<1>1. BatchInit => BatchInv
  BY InitCall DEF BatchInit, BatchInv, AppliedSoFar, RestoreInv
<1>2. BatchInv /\ [BatchNext]_vars => BatchInv'
  BY NextKeepsCall, NextKeepsApplied, NextKeepsRestore DEF BatchInv
<1> QED
  BY <1>1, <1>2, PTL DEF BatchSpec

\* The tool's variables keep their types, and a dry run keeps no list of files.
THEOREM BatchTyped == BatchSpec => []BatchTypeOK
<1>1. BatchInv => BatchTypeOK
  BY DEF BatchInv, CallInv
<1> QED
  BY <1>1, BatchInvInductive, PTL

\* What a batch reports as applied is in step on disk and in the database, whatever
\* the batch was, except where a user or a failing unlink got at the file.
THEOREM AppliedIsInStep == BatchSpec => []AppliedInSync
<1>1. BatchInv => AppliedInSync
  BY DEF BatchInv, CallInv, BatchTypeOK, PhaseOK, AppliedSoFar, AppliedInSync, Finished, InStep
<1> QED
  BY <1>1, BatchInvInductive, PTL

\* After a rollback the files are those of before.
LEMMA FilesAreBack == BatchInv => FailureRestores
<1> SUFFICES ASSUME BatchInv, pc = "idle", outcome = "failed",
                    NEW p \in Paths, Orderly(p), p \notin touched
             PROVE  files[p] = files0[p]
  BY DEF FailureRestores, Finished
<1>1. Recoverable(p) /\ backups = <<>> /\ created = <<>>
  BY DEF BatchInv, CallInv, PhaseOK, RestoreInv, Kept
<1> QED
  BY <1>1, NoElements DEF Recoverable, BackedUp, ByBatch

\* A batch that fails puts back every file on which it had one operation, wherever it
\* failed, whatever else it did, and whatever happened to other files.
THEOREM FailureRestoresFiles == BatchSpec => []FailureRestores
BY BatchInvInductive, FilesAreBack, PTL

-----------------------------------------------------------------------------
(* Previews: what a dry run keeps of the batch, operation by operation.       *)

\* What Outcome takes and returns.
Worlds == [files : [Paths -> Texts \cup {NoFile}], rows : [Paths -> Row \cup {NoRow}], ok : BOOLEAN]

\* Put writes one file and one row.
LEMMA PutTyped ==
  ASSUME NEW w \in Worlds, NEW o \in Op, o.text # Invalid, NEW n \in Nat
  PROVE  /\ Put(w, o, n) \in Worlds /\ Put(w, o, n).ok = w.ok
         /\ Put(w, o, n).files = [w.files EXCEPT ![o.path] = o.text]
         /\ Put(w, o, n).rows = [w.rows EXCEPT ![o.path] = [text |-> o.text, version |-> n]]
<1> DEFINE r == [text |-> o.text, version |-> n]
<1>1. o.path \in Paths /\ o.text \in Texts /\ r \in Row
  BY DEF Op, Row
<1> HIDE DEF r
<1>2. Put(w, o, n) = [w EXCEPT !.files[o.path] = o.text, !.rows[o.path] = r]
  BY DEF Put, r
<1>3. w = [files |-> w.files, rows |-> w.rows, ok |-> w.ok]
  BY DEF Worlds
<1>4. Put(w, o, n) = [files |-> [w.files EXCEPT ![o.path] = o.text],
                      rows  |-> [w.rows EXCEPT ![o.path] = r], ok |-> w.ok]
  BY <1>2, <1>3
<1>5. /\ [w.files EXCEPT ![o.path] = o.text] \in [Paths -> Texts \cup {NoFile}]
      /\ [w.rows EXCEPT ![o.path] = r] \in [Paths -> Row \cup {NoRow}] /\ w.ok \in BOOLEAN
  BY <1>1 DEF Worlds
<1>6. Put(w, o, n) \in Worlds
  BY <1>4, <1>5 DEF Worlds
<1>7. /\ Put(w, o, n).files = [w.files EXCEPT ![o.path] = o.text]
      /\ Put(w, o, n).rows = [w.rows EXCEPT ![o.path] = r] /\ Put(w, o, n).ok = w.ok
  BY <1>4
<1> QED
  BY <1>6, <1>7 DEF r

\* Put leaves other paths alone.
LEMMA PutElsewhere ==
  ASSUME NEW w \in Worlds, NEW o \in Op, o.text # Invalid, NEW n \in Nat, NEW p \in Paths \ {o.path}
  PROVE  Put(w, o, n).files[p] = w.files[p] /\ Put(w, o, n).rows[p] = w.rows[p]
<1>1. /\ Put(w, o, n).files = [w.files EXCEPT ![o.path] = o.text]
      /\ Put(w, o, n).rows = [w.rows EXCEPT ![o.path] = [text |-> o.text, version |-> n]]
  BY PutTyped
<1> QED
  BY <1>1 DEF Worlds

\* The two ways in which an operation leaves the vault as it is.
LEMMA FailedOrGone ==
  ASSUME NEW w \in Worlds, NEW o \in Op
  PROVE  /\ [w EXCEPT !.ok = FALSE] \in Worlds /\ ~[w EXCEPT !.ok = FALSE].ok
         /\ LET gone == [w EXCEPT !.files[o.path] = NoFile, !.rows[o.path] = NoRow] IN
            /\ gone \in Worlds /\ gone.ok = w.ok
            /\ gone.files = [w.files EXCEPT ![o.path] = NoFile]
            /\ gone.rows = [w.rows EXCEPT ![o.path] = NoRow]
            /\ \A p \in Paths \ {o.path} : gone.files[p] = w.files[p] /\ gone.rows[p] = w.rows[p]
BY DEF Worlds, Op

\* Outcome, case by case.
LEMMA OutcomeCases ==
  ASSUME NEW w \in Worlds, NEW o \in Op
  PROVE  LET out == Outcome(w, o)  old == w.rows[o.path] IN
    /\ out \in Worlds
    /\ ~w.ok => out = w
    /\ w.ok /\ o.kind = "create" =>
         IF o.text = Invalid \/ old # NoRow \/ w.files[o.path] # NoFile
           THEN ~out.ok ELSE out = Put(w, o, 1)
    /\ w.ok /\ o.kind # "create" /\ old = NoRow => ~out.ok
    /\ w.ok /\ o.kind = "update" /\ old # NoRow =>
         IF o.text = Invalid THEN ~out.ok
         ELSE IF NoOp(w, o) \/ Stale(w, o) THEN out = w
         ELSE out = Put(w, o, old.version + 1)
    /\ w.ok /\ o.kind = "delete" /\ old # NoRow =>
         IF Stale(w, o) THEN out = w
         ELSE out = [w EXCEPT !.files[o.path] = NoFile, !.rows[o.path] = NoRow]
<1> DEFINE old == w.rows[o.path]
<1>1. o.kind \in {"create", "update", "delete"} /\ o.path \in Paths /\ w.ok \in BOOLEAN
  BY DEF Op, Worlds
<1>2. old # NoRow => old.version + 1 \in Nat
  BY <1>1 DEF Worlds, Row
<1>3. /\ [w EXCEPT !.ok = FALSE] \in Worlds /\ ~[w EXCEPT !.ok = FALSE].ok
      /\ [w EXCEPT !.files[o.path] = NoFile, !.rows[o.path] = NoRow] \in Worlds
  BY FailedOrGone
<1>4. o.text # Invalid => Put(w, o, 1) \in Worlds /\ (old # NoRow => Put(w, o, old.version + 1) \in Worlds)
  BY <1>2, PutTyped
<1>5. CASE ~w.ok
  BY <1>5 DEF Outcome
<1>6. CASE w.ok /\ o.kind = "create"
  BY <1>3, <1>4, <1>6 DEF Outcome
<1>7. CASE w.ok /\ o.kind # "create" /\ old = NoRow
  BY <1>3, <1>7 DEF Outcome
<1>8. CASE w.ok /\ o.kind = "update" /\ old # NoRow
  BY <1>3, <1>4, <1>8 DEF Outcome
<1>9. CASE w.ok /\ o.kind = "delete" /\ old # NoRow
  BY <1>3, <1>9 DEF Outcome
<1> QED
  BY <1>1, <1>5, <1>6, <1>7, <1>8, <1>9

\* The worlds after the first operations of a batch: the function the fold chooses.
Fold(f, r, b) ==
  CHOOSE it : it = [t \in SUBSET DOMAIN b |->
    IF t = {} THEN [files |-> f, rows |-> r, ok |-> TRUE]
    ELSE Outcome(it[t \ {Max(t)}], b[Max(t)])]

Prefix(f, r, b, k) == Fold(f, r, b)[1 .. k]

\* AtomicBatch goes through a batch one operation at a time.
LEMMA PrefixSteps ==
  ASSUME NEW f \in [Paths -> Texts \cup {NoFile}], NEW r \in [Paths -> Row \cup {NoRow}], NEW b \in Seq(Op)
  PROVE  /\ Prefix(f, r, b, 0) = [files |-> f, rows |-> r, ok |-> TRUE]
         /\ \A k \in 1 .. Len(b) : Prefix(f, r, b, k) = Outcome(Prefix(f, r, b, k - 1), b[k])
         /\ \A k \in 0 .. Len(b) : Prefix(f, r, b, k) \in Worlds
         /\ Result(f, r, b) = Prefix(f, r, b, Len(b))
<1> DEFINE n == Len(b)
           base == [files |-> f, rows |-> r, ok |-> TRUE]
           Is(it) == it = [t \in SUBSET DOMAIN b |->
                             IF t = {} THEN base ELSE Outcome(it[t \ {Max(t)}], b[Max(t)])]
           g == [x \in Worlds \X Op |-> Outcome(x[1], x[2])]
           fold == Fold(f, r, b)
<1>1. n \in Nat /\ DOMAIN b = 1 .. n /\ b \in [1 .. n -> Op]
  BY LenProperties
<1>2. base \in Worlds
  BY DEF Worlds
<1>3. /\ g \in [Worlds \X Op -> Worlds]
      /\ \A w \in Worlds, o \in Op : g[<<w, o>>] = Outcome(w, o) /\ Outcome(w, o) \in Worlds
  BY OutcomeCases
<1> HIDE DEF g, base, n
<1>4. \E it : Is(it)
  <2>0. g \in [Worlds \X Op -> Worlds]
    BY <1>3
  <2>1. PICK it \in [SUBSET (1 .. n) -> Worlds] : IsFold(it, g, base, n, b)
    BY <1>1, <1>2, <2>0, FoldExists
  <2>2. ASSUME NEW t \in SUBSET (1 .. n)
        PROVE  it[t] = IF t = {} THEN base ELSE Outcome(it[t \ {Max(t)}], b[Max(t)])
    <3>1. CASE t # {}
      <4>1. Max(t) \in t
        BY <1>1, <3>1, MaxIsMember
      <4>2. it[t \ {Max(t)}] \in Worlds /\ b[Max(t)] \in Op
        BY <1>1, <2>1, <4>1
      <4> QED
        BY <1>3, <2>1, <3>1, <4>2 DEF IsFold
    <3> QED
      BY <2>1, <3>1 DEF IsFold
  <2>3. it = [t \in SUBSET DOMAIN b |->
                IF t = {} THEN base ELSE Outcome(it[t \ {Max(t)}], b[Max(t)])]
    BY <1>1, <2>1, <2>2
  <2> QED
    BY <2>3
<1>5. Is(fold)
  BY <1>4 DEF Fold, base
<1>6. Result(f, r, b) = fold[1 .. n]
  BY <1>1 DEF Result, FoldLeft, MapThenFoldSet, Fold
<1> HIDE DEF fold
<1>7. fold[{}] = base
  BY <1>5
<1>8. ASSUME NEW k \in 1 .. n PROVE fold[1 .. k] = Outcome(fold[1 .. k - 1], b[k])
  <2>1. /\ 1 .. k \in SUBSET (1 .. n) /\ 1 .. k # {} /\ Max(1 .. k) = k
        /\ (1 .. k) \ {k} = 1 .. k - 1
    BY <1>1, UpTo
  <2>2. fold[1 .. k] = IF 1 .. k = {} THEN base
                       ELSE Outcome(fold[(1 .. k) \ {Max(1 .. k)}], b[Max(1 .. k)])
    BY <1>1, <1>5, <2>1
  <2> QED
    BY <2>1, <2>2
<1>9. 1 .. 0 = {}
  OBVIOUS
<1>10. ASSUME NEW k \in 0 .. n PROVE fold[1 .. k] \in Worlds
  <2> DEFINE T == {j \in 0 .. n : fold[1 .. j] \in Worlds}
  <2>1. 0 \in T
    BY <1>1, <1>2, <1>7, <1>9
  <2>2. ASSUME NEW j \in 0 .. k, j # 0, j - 1 \in T PROVE j \in T
    <3>1. j \in 1 .. n /\ b[j] \in Op /\ fold[1 .. j - 1] \in Worlds
      BY <1>1, <2>2
    <3>2. fold[1 .. j] \in Worlds
      BY <1>3, <1>8, <3>1
    <3> QED
      BY <1>1, <2>2, <3>2
  <2> HIDE DEF T
  <2>3. k \in T
    BY <1>1, <2>1, <2>2, Climb
  <2> QED
    BY <2>3 DEF T
<1> QED
  BY <1>6, <1>7, <1>8, <1>9, <1>10 DEF Prefix, fold, n, base

\* The promise's operators are these, under other names.
LEMMA SameResult ==
  ASSUME NEW f, NEW r, NEW b
  PROVE  Promise!Result(f, r, b) = Result(f, r, b)
BY Zenon DEF Promise!Result, Result, FoldLeft, Promise!FoldLeft,
   MapThenFoldSet, Promise!MapThenFoldSet, Max, Promise!Max,
   Promise!Outcome, Outcome, Promise!Put, Put, Promise!Stale, Stale,
   Promise!NoOp, NoOp, Unchecked, Promise!Unchecked

-----------------------------------------------------------------------------

Running == pc # "idle" /\ outcome = "none"

\* How many operations are done, and where AtomicBatch is after them.
Here  == Len(batch) - Len(todo)
Sofar == Prefix(files0, saved, batch, Here)
Final == Result(files0, saved, batch)

\* What is left of the batch is its end.
TodoIsRest ==
  Here \in 0 .. Len(batch) /\ \A i \in DOMAIN todo : Here + i \in DOMAIN batch /\ todo[i] = batch[Here + i]

\* The first k operations of b name p, delete its node, or delete it after two others
\* on a condition on its version.
Named(b, k, p) == \E i \in 1 .. k : b[i].path = p
Freed(b, k, p) == \E i \in 1 .. k : b[i].path = p /\ b[i].kind = "delete"
Doubtful(b, k, p) ==
  \E i \in 1 .. k : b[i].path = p /\ b[i].kind = "delete" /\ b[i].expected # Unchecked /\ Twice(b, i - 1, p)

\* What the transaction of a dry run has of p: the same row until p has had two
\* operations, then a row where AtomicBatch has one; and no file comes or goes
\* without a row unless a node of p is deleted.
Previewed(p) ==
  /\ ~Named(batch, Here, p) => Sofar.files[p] = files0[p]
  /\ ~Twice(batch, Here, p) => rows[p] = Sofar.rows[p]
  /\ Doubtful(batch, Here, p) \/ (rows[p] = NoRow <=> Sofar.rows[p] = NoRow)
  /\ Freed(batch, Here, p) \/ (Sofar.rows[p] = NoRow => Sofar.files[p] = files0[p])

\* The vault is where AtomicBatch is, or the transaction of a dry run has of it what
\* the rest of the batch may depend on.
Matches ==
  /\ Sofar.ok
  /\ dry => files = files0 /\ \A p \in Paths : Previewed(p)
  /\ ~dry => /\ files = Sofar.files
             /\ rows = IF pc = "unlink" THEN [Sofar.rows EXCEPT ![path] = NoRow] ELSE Sofar.rows
  /\ pc = "write" => IF op.kind = "create" THEN rows[path] = NoRow /\ files[path] = NoFile
                                           ELSE ~NoOp(view, op) /\ ~Stale(view, op)
  /\ pc = "unlink" => Sofar.rows[path] # NoRow /\ ~Stale(Sofar, op)

\* The calls that follow AtomicBatch: nobody disturbs them, and a preview is not misled.
Follows == touched = {} /\ (dry => ~Misled(batch))

ResultInv ==
  /\ Running => TodoIsRest /\ batch \in Batches
  /\ outcome = "none" /\ dry => Running
  /\ Follows =>
       /\ Running => Matches
       /\ outcome = "applied" => Final.ok /\ IF dry THEN files = files0 /\ rows = saved
                                                   ELSE files = Final.files /\ rows = Final.rows
       /\ outcome = "failed" /\ dry => ~Final.ok

\* A fold that has failed stays failed.
LEMMA StaysFailed ==
  ASSUME NEW f \in [Paths -> Texts \cup {NoFile}], NEW r \in [Paths -> Row \cup {NoRow}], NEW b \in Seq(Op),
         NEW k \in 0 .. Len(b), ~Prefix(f, r, b, k).ok
  PROVE  ~Result(f, r, b).ok
<1> DEFINE T == {j \in 0 .. Len(b) : j >= k => ~Prefix(f, r, b, j).ok}
<1>1. Len(b) \in Nat /\ DOMAIN b = 1 .. Len(b) /\ b \in [1 .. Len(b) -> Op]
  BY LenProperties
<1>2. 0 \in T
  BY <1>1
<1>3. ASSUME NEW j \in 0 .. Len(b), j # 0, j - 1 \in T PROVE j \in T
  <2>1. CASE j > k
    <3>1. j \in 1 .. Len(b) /\ j - 1 \in 0 .. Len(b) /\ j - 1 >= k
      BY <1>1, <1>3, <2>1
    <3>2. /\ Prefix(f, r, b, j) = Outcome(Prefix(f, r, b, j - 1), b[j])
          /\ Prefix(f, r, b, j - 1) \in Worlds /\ b[j] \in Op
      BY <1>1, <3>1, PrefixSteps
    <3>3. ~Prefix(f, r, b, j - 1).ok
      BY <1>3, <3>1
    <3>4. Prefix(f, r, b, j) = Prefix(f, r, b, j - 1)
      BY <3>2, <3>3, OutcomeCases
    <3> QED
      BY <3>3, <3>4
  <2>2. CASE j <= k
    BY <1>1, <2>2
  <2> QED
    BY <1>1, <2>1, <2>2
<1> HIDE DEF T
<1>4. Len(b) \in T
  BY <1>1, <1>2, <1>3, Climb
<1>5. ~Prefix(f, r, b, Len(b)).ok
  BY <1>1, <1>4 DEF T
<1> QED
  BY <1>5, PrefixSteps

\* The operation at hand is the next one of the batch.
LEMMA NextOfBatch ==
  ASSUME CallInv, TodoIsRest, todo # <<>>
  PROVE  /\ Here \in Nat /\ Here + 1 \in 1 .. Len(batch) /\ op = batch[Here + 1] /\ op \in Op /\ path \in Paths
         /\ Len(batch) - Len(Tail(todo)) = Here + 1 /\ Here + 1 \in 0 .. Len(batch)
         /\ \A i \in DOMAIN Tail(todo) :
              Here + 1 + i \in DOMAIN batch /\ Tail(todo)[i] = batch[Here + 1 + i]
<1>1. todo \in Seq(Op) /\ batch \in Seq(Op) /\ Len(batch) \in Nat /\ DOMAIN batch = 1 .. Len(batch)
  BY LenProperties DEF CallInv, BatchTypeOK
<1>2. /\ op = todo[1] /\ 1 \in DOMAIN todo
      /\ \A i \in DOMAIN Tail(todo) : i + 1 \in DOMAIN todo /\ Tail(todo)[i] = todo[i + 1]
  BY <1>1, HeadTail DEF op
<1>3. Len(Tail(todo)) = Len(todo) - 1 /\ Len(todo) \in Nat /\ Len(todo) # 0 /\ Tail(todo) \in Seq(Op)
  BY <1>1, HeadTailProperties, EmptySeq, LenProperties
<1>4. Here \in 0 .. Len(batch) /\ Here + 1 \in DOMAIN batch /\ op = batch[Here + 1]
  BY <1>2 DEF TodoIsRest
<1>5. Here = Len(batch) - Len(todo)
  BY DEF Here
<1>6. ASSUME NEW i \in DOMAIN Tail(todo)
      PROVE  Here + 1 + i \in DOMAIN batch /\ Tail(todo)[i] = batch[Here + 1 + i]
  <2>1. DOMAIN Tail(todo) = 1 .. Len(Tail(todo)) /\ i \in Nat
    BY <1>3, LenProperties
  <2>2. i + 1 \in DOMAIN todo /\ Tail(todo)[i] = todo[i + 1] /\ Here + (i + 1) = Here + 1 + i
    BY <1>2, <1>4, <2>1
  <2>3. Here + (i + 1) \in DOMAIN batch /\ todo[i + 1] = batch[Here + (i + 1)]
    BY <2>2 DEF TodoIsRest
  <2> QED
    BY <2>2, <2>3
<1>7. op \in Op /\ path \in Paths
  BY OpTyped DEF CallInv
<1> QED
  BY <1>1, <1>3, <1>4, <1>5, <1>6, <1>7

\* Where AtomicBatch is, and where it is after the operation at hand.
LEMMA NextOutcome ==
  ASSUME CallInv, TodoIsRest, todo # <<>>
  PROVE  /\ Sofar \in Worlds
         /\ Prefix(files0, saved, batch, Here + 1) = Outcome(Sofar, op)
<1>1. /\ files0 \in [Paths -> Texts \cup {NoFile}] /\ saved \in [Paths -> Row \cup {NoRow}]
      /\ batch \in Seq(Op) /\ Len(batch) \in Nat
  BY LenProperties DEF CallInv, BatchTypeOK
<1>2. /\ Here \in 0 .. Len(batch) /\ Here + 1 \in 1 .. Len(batch) /\ op = batch[Here + 1]
      /\ (Here + 1) - 1 = Here
  <2>1. Here \in Nat /\ Here + 1 \in 1 .. Len(batch) /\ op = batch[Here + 1]
    BY NextOfBatch
  <2> QED
    BY <1>1, <2>1
<1>3. /\ Prefix(files0, saved, batch, Here) \in Worlds
      /\ Prefix(files0, saved, batch, Here + 1)
         = Outcome(Prefix(files0, saved, batch, (Here + 1) - 1), batch[Here + 1])
  BY <1>1, <1>2, PrefixSteps
<1> QED
  BY <1>2, <1>3 DEF Sofar

\* How the counts of operations go on with the operation at hand.
LEMMA CountsGoOn ==
  ASSUME CallInv, TodoIsRest, todo # <<>>
  PROVE  /\ \A p \in Paths \ {path} :
              /\ Named(batch, Here + 1, p) <=> Named(batch, Here, p)
              /\ Twice(batch, Here + 1, p) <=> Twice(batch, Here, p)
              /\ Freed(batch, Here + 1, p) <=> Freed(batch, Here, p)
              /\ Doubtful(batch, Here + 1, p) <=> Doubtful(batch, Here, p)
         /\ Named(batch, Here + 1, path)
         /\ Named(batch, Here, path) => Twice(batch, Here + 1, path)
         /\ op.kind = "delete" => Freed(batch, Here + 1, path)
         /\ op.kind = "delete" /\ op.expected # Unchecked /\ Twice(batch, Here, path)
              => Doubtful(batch, Here + 1, path)
<1>1. Here \in Nat /\ op = batch[Here + 1] /\ op.path = path
  BY NextOfBatch DEF path
<1>2. 1 .. Here + 1 = (1 .. Here) \cup {Here + 1} /\ (Here + 1) - 1 = Here /\ Here + 1 \notin 1 .. Here
  BY <1>1
<1>3. ASSUME NEW p \in Paths \ {path}
      PROVE  /\ Named(batch, Here + 1, p) <=> Named(batch, Here, p)
             /\ Twice(batch, Here + 1, p) <=> Twice(batch, Here, p)
             /\ Freed(batch, Here + 1, p) <=> Freed(batch, Here, p)
             /\ Doubtful(batch, Here + 1, p) <=> Doubtful(batch, Here, p)
  <2>1. \A i \in 1 .. Here + 1 : batch[i].path = p => i \in 1 .. Here
    BY <1>1, <1>2
  <2>2. 1 .. Here \subseteq 1 .. Here + 1
    BY <1>2
  <2>3. Named(batch, Here + 1, p) <=> Named(batch, Here, p)
    BY <2>1, <2>2 DEF Named
  <2>4. Twice(batch, Here + 1, p) <=> Twice(batch, Here, p)
    BY <2>1, <2>2 DEF Twice
  <2>5. Freed(batch, Here + 1, p) <=> Freed(batch, Here, p)
    BY <2>1, <2>2 DEF Freed
  <2>6. Doubtful(batch, Here + 1, p) <=> Doubtful(batch, Here, p)
    BY <2>1, <2>2 DEF Doubtful
  <2> QED
    BY <2>3, <2>4, <2>5, <2>6
<1>4. Named(batch, Here + 1, path)
  BY <1>1, <1>2 DEF Named
<1>5. Named(batch, Here, path) => Twice(batch, Here + 1, path)
  BY <1>1, <1>2 DEF Named, Twice
<1>6. op.kind = "delete" => Freed(batch, Here + 1, path)
  BY <1>1, <1>2 DEF Freed
<1>7. op.kind = "delete" /\ op.expected # Unchecked /\ Twice(batch, Here, path)
        => Doubtful(batch, Here + 1, path)
  BY <1>1, <1>2 DEF Doubtful
<1> QED
  BY <1>3, <1>4, <1>5, <1>6, <1>7

\* Whatever AtomicBatch says of the path at hand is also so in a call that writes.
LEMMA AtHand ==
  ASSUME CallInv, TodoIsRest, Matches, ~dry, pc \in {"next", "mutate", "write"}
  PROVE  /\ Sofar.rows = rows /\ Sofar.files[path] = files[path]
         /\ NoOp(Sofar, op) = NoOp(view, op) /\ Stale(Sofar, op) = Stale(view, op)
<1>1. Sofar.rows = rows /\ Sofar.files = files
  BY DEF Matches
<1>2. view.rows = rows /\ view.files = files
  BY DEF view
<1> QED
  BY <1>1, <1>2 DEF NoOp, Stale, path

\* A preview that is not misled finds a row just where AtomicBatch does, and for a
\* creation a file; before the second operation on a path it finds the same.
LEMMA DryAtHand ==
  ASSUME CallInv, TodoIsRest, Matches, dry, ~Misled(batch), todo # <<>>
  PROVE  /\ rows[path] = NoRow <=> Sofar.rows[path] = NoRow
         /\ op.kind = "create" => (PathTaken <=> Sofar.rows[path] # NoRow \/ Sofar.files[path] # NoFile)
         /\ ~Twice(batch, Here, path) =>
              rows[path] = Sofar.rows[path] /\ Stale(Sofar, op) = Stale(view, op)
         /\ ~Named(batch, Here, path) =>
              rows[path] = Sofar.rows[path] /\ NoOp(Sofar, op) = NoOp(view, op)
<1>1. /\ Here \in Nat /\ Here + 1 \in DOMAIN batch /\ op = batch[Here + 1] /\ path \in Paths
      /\ op.path = path /\ 1 .. Here \subseteq DOMAIN batch /\ \A i \in 1 .. Here : i < Here + 1
  <2>1. DOMAIN batch = 1 .. Len(batch) /\ Len(batch) \in Nat
    BY LenProperties DEF CallInv, BatchTypeOK
  <2>2. Here \in Nat /\ Here + 1 \in 1 .. Len(batch) /\ op = batch[Here + 1] /\ path \in Paths
    BY NextOfBatch
  <2> QED
    BY <2>1, <2>2 DEF path
<1>2. Previewed(path) /\ files = files0
  BY <1>1 DEF Matches
<1>3. ~Doubtful(batch, Here, path) /\ (op.kind = "create" => ~Freed(batch, Here, path))
  BY <1>1 DEF Doubtful, Freed, Misled
<1>4. ~Named(batch, Here, path) => ~Twice(batch, Here, path)
  BY DEF Named, Twice
<1>5. view.rows = rows /\ view.files = files
  BY DEF view
<1>6. rows[path] = NoRow <=> Sofar.rows[path] = NoRow
  BY <1>2, <1>3 DEF Previewed
<1>7. op.kind = "create" => (PathTaken <=> Sofar.rows[path] # NoRow \/ Sofar.files[path] # NoFile)
  BY <1>2, <1>3, <1>6 DEF Previewed, PathTaken
<1>8. ~Twice(batch, Here, path) =>
        rows[path] = Sofar.rows[path] /\ Stale(Sofar, op) = Stale(view, op)
  BY <1>1, <1>2, <1>5 DEF Previewed, Stale
<1>9. ~Named(batch, Here, path) =>
        rows[path] = Sofar.rows[path] /\ NoOp(Sofar, op) = NoOp(view, op)
  BY <1>1, <1>2, <1>4, <1>5 DEF Previewed, NoOp
<1> QED
  BY <1>6, <1>7, <1>8, <1>9

\* An operation changes nothing on other paths.
LEMMA OutcomeElsewhere ==
  ASSUME NEW w \in Worlds, NEW o \in Op, NEW p \in Paths, p # o.path
  PROVE  Outcome(w, o).ok => Outcome(w, o).files[p] = w.files[p] /\ Outcome(w, o).rows[p] = w.rows[p]
<1> DEFINE old == w.rows[o.path]
<1>1. o.kind \in {"create", "update", "delete"} /\ w.ok \in BOOLEAN /\ w.files \in [Paths -> Texts \cup {NoFile}]
      /\ o.path \in Paths
  BY DEF Op, Worlds
<1>2. ASSUME NEW n \in Nat, o.text # Invalid PROVE Put(w, o, n).files[p] = w.files[p] /\ Put(w, o, n).rows[p] = w.rows[p]
  BY <1>2, PutElsewhere
<1> DEFINE gone == [w EXCEPT !.files[o.path] = NoFile, !.rows[o.path] = NoRow]
<1>3. gone.files[p] = w.files[p] /\ gone.rows[p] = w.rows[p]
  <2>1. \A q \in Paths \ {o.path} : gone.files[q] = w.files[q] /\ gone.rows[q] = w.rows[q]
    BY FailedOrGone, Zenon
  <2> HIDE DEF gone
  <2> QED
    BY <2>1
<1>4. old # NoRow => old.version + 1 \in Nat
  BY <1>1 DEF Worlds, Row
<1>5. CASE ~w.ok
  BY <1>5, OutcomeCases
<1>6. CASE w.ok /\ o.kind = "create"
  <2>1. ~Outcome(w, o).ok \/ (o.text # Invalid /\ Outcome(w, o) = Put(w, o, 1))
    BY <1>6, OutcomeCases
  <2> QED
    BY <1>2, <2>1
<1>7. CASE w.ok /\ o.kind # "create" /\ old = NoRow
  BY <1>7, OutcomeCases
<1>8. CASE w.ok /\ o.kind = "update" /\ old # NoRow
  <2>1. \/ ~Outcome(w, o).ok \/ Outcome(w, o) = w
        \/ o.text # Invalid /\ Outcome(w, o) = Put(w, o, old.version + 1)
    BY <1>8, OutcomeCases
  <2> QED
    BY <1>2, <1>4, <1>8, <2>1
<1>9. CASE w.ok /\ o.kind = "delete" /\ old # NoRow
  <2>1. Outcome(w, o) = w \/ Outcome(w, o) = gone
    BY <1>9, OutcomeCases
  <2> QED
    BY <1>3, <2>1
<1> QED
  BY <1>1, <1>5, <1>6, <1>7, <1>8, <1>9

\* A step takes the vault to where the operation takes AtomicBatch, or leaves of it in
\* the transaction of a dry run what Previewed asks for.
KeepsUp(out) ==
  /\ out.ok
  /\ ~dry => rows' = out.rows /\ files' = out.files
  /\ dry => /\ files' = files /\ \A p \in Paths \ {path} : rows'[p] = rows[p]
            /\ Named(batch, Here, path) \/ rows'[path] = out.rows[path]
            /\ Doubtful(batch, Here + 1, path) \/ (rows'[path] = NoRow <=> out.rows[path] = NoRow)
            /\ op.kind = "delete" \/ out.rows[path] # NoRow

\* The operation at hand has been done as AtomicBatch does it.
LEMMA DoneKeepsResult ==
  ASSUME CallInv, ResultInv, Running, todo # <<>>, NEW a, Done(a),
         UNCHANGED <<dry, saved, batch, files0, outcome>>, touched \subseteq touched',
         Follows' => KeepsUp(Outcome(Sofar, op))
  PROVE  ResultInv'
<1> DEFINE out == Outcome(Sofar, op)
<1>1. pc' = "next" /\ todo' = Tail(todo) /\ outcome' = "none" /\ Running'
  BY DEF Done, Running
<1>2. TodoIsRest /\ batch \in Batches
  BY DEF ResultInv
<1>3. /\ Here \in Nat /\ Here + 1 \in 0 .. Len(batch) /\ op = batch[Here + 1] /\ op \in Op
      /\ Len(batch) - Len(Tail(todo)) = Here + 1 /\ op.path = path
      /\ \A i \in DOMAIN Tail(todo) :
           Here + 1 + i \in DOMAIN batch /\ Tail(todo)[i] = batch[Here + 1 + i]
  BY <1>2, NextOfBatch DEF path
<1>4. Here' = Here + 1
  BY <1>1, <1>3 DEF Here
<1>5. TodoIsRest'
  BY <1>1, <1>3, <1>4 DEF TodoIsRest
<1>6. Sofar' = out /\ Sofar \in Worlds
  BY <1>2, <1>4, NextOutcome DEF Sofar
<1>7. Follows' => Matches'
  <2> SUFFICES ASSUME Follows' PROVE Matches'
    OBVIOUS
  <2>1. KeepsUp(out)
    OBVIOUS
  <2>2. Matches
    BY DEF ResultInv, Follows
  <2> HIDE DEF out
  <2>3. CASE ~dry
    BY <1>1, <1>6, <2>1, <2>3 DEF Matches, KeepsUp
  <2>4. CASE dry
    <3> SUFFICES ASSUME NEW p \in Paths PROVE Previewed(p)'
      BY <1>1, <1>6, <2>1, <2>2, <2>4 DEF Matches, KeepsUp
    <3>1. /\ Named(batch', Here', p) <=> Named(batch, Here + 1, p)
          /\ Twice(batch', Here', p) <=> Twice(batch, Here + 1, p)
          /\ Freed(batch', Here', p) <=> Freed(batch, Here + 1, p)
          /\ Doubtful(batch', Here', p) <=> Doubtful(batch, Here + 1, p)
      BY <1>4
    <3>2. CASE p # path
      <4>1. Previewed(p)
        BY <2>2, <2>4 DEF Matches
      <4>2. out.files[p] = Sofar.files[p] /\ out.rows[p] = Sofar.rows[p] /\ rows'[p] = rows[p]
        BY <1>3, <1>6, <2>1, <2>4, <3>2, OutcomeElsewhere DEF KeepsUp, out
      <4>3. /\ Named(batch, Here + 1, p) <=> Named(batch, Here, p)
            /\ Twice(batch, Here + 1, p) <=> Twice(batch, Here, p)
            /\ Freed(batch, Here + 1, p) <=> Freed(batch, Here, p)
            /\ Doubtful(batch, Here + 1, p) <=> Doubtful(batch, Here, p)
        BY <1>2, <3>2, CountsGoOn
      <4> QED
        BY <1>6, <3>1, <4>1, <4>2, <4>3 DEF Previewed
    <3>3. CASE p = path
      <4>1. /\ Named(batch, Here + 1, p) /\ (Named(batch, Here, p) => Twice(batch, Here + 1, p))
            /\ op.kind = "delete" => Freed(batch, Here + 1, p)
        BY <1>2, <3>3, CountsGoOn
      <4> QED
        BY <1>6, <2>1, <2>4, <3>1, <3>3, <4>1 DEF KeepsUp, Previewed
    <3> QED
      BY <3>2, <3>3
  <2> QED
    BY <2>3, <2>4
<1> QED
  BY <1>1, <1>2, <1>5, <1>7 DEF ResultInv

\* The operation at hand fails, as it does in AtomicBatch.
LEMMA FailKeepsResult ==
  ASSUME CallInv, ResultInv, Running, todo # <<>>, Fail,
         UNCHANGED <<dry, saved, batch, files0>>, touched \subseteq touched',
         Follows' /\ dry => ~Outcome(Sofar, op).ok
  PROVE  ResultInv'
<1>1. outcome' = "failed" /\ ~Running'
  BY DEF Fail, Running
<1>2. TodoIsRest
  BY DEF ResultInv
<1>3. /\ files0 \in [Paths -> Texts \cup {NoFile}] /\ saved \in [Paths -> Row \cup {NoRow}]
      /\ batch \in Seq(Op) /\ Here + 1 \in 0 .. Len(batch)
  BY <1>2, NextOfBatch DEF CallInv, BatchTypeOK
<1>4. Follows' /\ dry => ~Final.ok
  <2> SUFFICES ASSUME Follows', dry PROVE ~Final.ok
    OBVIOUS
  <2>1. ~Prefix(files0, saved, batch, Here + 1).ok
    BY <1>2, NextOutcome
  <2> QED
    BY <1>3, <2>1, StaysFailed DEF Final
<1>5. Final' = Final
  BY DEF Final
<1> QED
  BY <1>1, <1>2, <1>4, <1>5 DEF ResultInv

\* The call goes on to another phase of its operation.
LEMMA PhaseKeepsResult ==
  ASSUME ResultInv, Running, pc' \in {"mutate", "write", "unlink"}, pc # "unlink",
         UNCHANGED <<files, todo, dry, saved, outcome, batch, files0, touched>>,
         pc' # "unlink" => rows' = rows,
         pc' = "write" => IF op.kind = "create" THEN rows[path] = NoRow /\ files[path] = NoFile
                                                ELSE ~NoOp(view, op) /\ ~Stale(view, op),
         pc' = "unlink" /\ Follows =>
           ~dry /\ rows' = [rows EXCEPT ![path] = NoRow] /\ rows[path] # NoRow /\ ~Stale(Sofar, op)
  PROVE  ResultInv'
<1>1. Here' = Here /\ Sofar' = Sofar /\ op' = op /\ Running'
  BY DEF Here, Sofar, op, Running
<1>2. TodoIsRest' /\ batch \in Batches
  BY <1>1 DEF ResultInv, TodoIsRest
<1>3. Follows' => Matches'
  <2> SUFFICES ASSUME Follows, Matches PROVE Matches'
    BY DEF ResultInv, Follows
  <2>4. \A p \in Paths : dry /\ rows' = rows => (Previewed(p)' <=> Previewed(p))
    BY <1>1 DEF Previewed
  <2>1. pc' = "write" => view' = view
    BY DEF view
  <2>2. CASE pc' # "unlink"
    BY <1>1, <2>1, <2>2, <2>4 DEF Matches, path, NoOp, Stale
  <2>3. CASE pc' = "unlink"
    BY <1>1, <2>3 DEF Matches, path, Stale
  <2> QED
    BY <2>2, <2>3
<1> QED
  BY <1>1, <1>2, <1>3 DEF ResultInv, Running

\* The next version of a row, and what SetRow makes of it.
NextVersion == IF rows[path] = NoRow THEN 1 ELSE rows[path].version + 1

\* SetRow does to the rows what Put does.
LEMMA SetRowIs ==
  ASSUME CallInv, todo # <<>>, op.text # Invalid, SetRow
  PROVE  /\ NextVersion \in Nat
         /\ rows' = [rows EXCEPT ![path] = [text |-> op.text, version |-> NextVersion]]
         /\ rows'[path] = [text |-> op.text, version |-> NextVersion]
<1>1. op \in Op /\ path \in Paths /\ op.path = path
  BY OpTyped DEF CallInv, path
<1>2. rows \in [Paths -> Row \cup {NoRow}]
  BY DEF CallInv, BatchTypeOK
<1>3. NextVersion \in Nat
  BY <1>1, <1>2 DEF NextVersion, Row
<1> DEFINE r == [text |-> op.text, version |-> NextVersion]
<1>4. rows' = [rows EXCEPT ![path] = r]
  BY <1>1 DEF SetRow, Put, view, NextVersion
<1> HIDE DEF r
<1>5. rows'[path] = r
  BY <1>1, <1>2, <1>4
<1> QED
  BY <1>3, <1>4, <1>5 DEF r

LEMMA SetRowPuts ==
  ASSUME CallInv, todo # <<>>, op.text # Invalid, SetRow, NEW w \in Worlds, w.rows = rows
  PROVE  /\ NextVersion \in Nat /\ rows' = Put(w, op, NextVersion).rows
         /\ Put(w, op, NextVersion).files = [w.files EXCEPT ![path] = op.text]
         /\ Put(w, op, NextVersion).ok = w.ok
<1>1. op \in Op /\ op.path = path
  BY OpTyped DEF CallInv, path
<1> QED
  BY <1>1, SetRowIs, PutTyped

\* What an operation has found out when AtomicBatch would carry it out, and when not ...
LEMMA OutcomeHere ==
  ASSUME CallInv, TodoIsRest, Matches, ~dry, todo # <<>>, pc \in {"next", "mutate", "write"}
  PROVE  LET out == Outcome(Sofar, op) IN
         /\ Sofar \in Worlds /\ Sofar.ok /\ out \in Worlds
         /\ op.kind = "create" =>
              IF PathTaken \/ op.text = Invalid THEN ~out.ok ELSE out = Put(Sofar, op, NextVersion)
         /\ op.kind # "create" /\ rows[path] = NoRow => ~out.ok
         /\ op.kind = "update" /\ rows[path] # NoRow =>
              IF op.text = Invalid THEN ~out.ok
              ELSE IF NoOp(view, op) \/ Stale(view, op) THEN out = Sofar
              ELSE out = Put(Sofar, op, NextVersion)
         /\ op.kind = "delete" /\ rows[path] # NoRow =>
              IF Stale(view, op) THEN out = Sofar
              ELSE out = [Sofar EXCEPT !.files[path] = NoFile, !.rows[path] = NoRow]
<1>1. /\ op \in Op /\ op.path = path /\ Sofar \in Worlds /\ Sofar.ok
  BY NextOfBatch, NextOutcome DEF Matches, path
<1>2. /\ Sofar.rows = rows /\ Sofar.files[path] = files[path]
      /\ NoOp(Sofar, op) = NoOp(view, op) /\ Stale(Sofar, op) = Stale(view, op)
  BY AtHand
<1>3. Outcome(Sofar, op) \in Worlds
  BY <1>1, OutcomeCases
<1>4. CASE op.kind = "create"
  BY <1>1, <1>2, <1>3, <1>4, OutcomeCases DEF PathTaken, NextVersion
<1>5. CASE op.kind # "create" /\ rows[path] = NoRow
  BY <1>1, <1>2, <1>3, <1>5, OutcomeCases
<1>6. CASE op.kind = "update" /\ rows[path] # NoRow
  BY <1>1, <1>2, <1>3, <1>6, OutcomeCases DEF NextVersion
<1>7. CASE op.kind = "delete" /\ rows[path] # NoRow
  BY <1>1, <1>2, <1>3, <1>7, OutcomeCases
<1>8. op.kind \in {"create", "update", "delete"}
  BY <1>1 DEF Op
<1> QED
  BY <1>1, <1>3, <1>4, <1>5, <1>6, <1>7, <1>8

\* ... and what it has in a preview that is not misled.
LEMMA DryOutcome ==
  ASSUME CallInv, TodoIsRest, Matches, dry, ~Misled(batch), todo # <<>>
  PROVE  LET out == Outcome(Sofar, op)
             new == [text |-> op.text, version |-> NextVersion] IN
         /\ op.kind = "create" =>
              IF PathTaken \/ op.text = Invalid THEN ~out.ok ELSE out.ok /\ out.rows[path] = new
         /\ op.kind # "create" /\ rows[path] = NoRow => ~out.ok
         /\ op.kind = "update" /\ rows[path] # NoRow =>
              IF op.text = Invalid THEN ~out.ok
              ELSE /\ out.ok /\ out.rows[path] # NoRow
                   /\ Named(batch, Here, path) \/
                        out.rows[path] = IF NoOp(view, op) \/ Stale(view, op) THEN rows[path] ELSE new
         /\ op.kind = "delete" /\ rows[path] # NoRow =>
              /\ out.ok
              /\ Named(batch, Here, path) \/
                   out.rows[path] = IF Stale(view, op) THEN rows[path] ELSE NoRow
              /\ Doubtful(batch, Here + 1, path) \/ (out.rows[path] = NoRow <=> ~Stale(view, op))
<1> DEFINE out == Outcome(Sofar, op)
           old == Sofar.rows[path]
           Put1(n) == [text |-> op.text, version |-> n]
<1>1. /\ op \in Op /\ op.path = path /\ path \in Paths /\ Sofar \in Worlds /\ Sofar.ok
  BY NextOfBatch, NextOutcome DEF Matches, path
<1>2. /\ old = NoRow <=> rows[path] = NoRow
      /\ op.kind = "create" => (PathTaken <=> old # NoRow \/ Sofar.files[path] # NoFile)
      /\ Twice(batch, Here, path) \/ Stale(Sofar, op) = Stale(view, op)
      /\ Named(batch, Here, path) \/ (old = rows[path] /\ NoOp(Sofar, op) = NoOp(view, op))
  BY DryAtHand
<1>3. Twice(batch, Here, path) => Named(batch, Here, path)
  BY DEF Twice, Named
<1>4. old # NoRow => old.version + 1 \in Nat /\ old \in Row
  BY <1>1 DEF Worlds, Row
<1>5. ASSUME NEW n \in Nat, op.text # Invalid, out = Put(Sofar, op, n)
      PROVE  out.ok /\ out.rows[path] = Put1(n) /\ out.rows[path] # NoRow
  <2>1. out.rows = [Sofar.rows EXCEPT ![path] = Put1(n)] /\ out.ok
    <3>1. PICK w \in Worlds, o \in Op : w = Sofar /\ o = op
      BY <1>1
    <3>2. o.text # Invalid
      BY <1>5, <3>1
    <3>3. /\ Put(w, o, n) \in Worlds /\ Put(w, o, n).ok = w.ok
          /\ Put(w, o, n).files = [w.files EXCEPT ![o.path] = o.text]
          /\ Put(w, o, n).rows = [w.rows EXCEPT ![o.path] = [text |-> o.text, version |-> n]]
      BY <3>2, PutTyped
    <3> QED
      BY <1>1, <1>5, <3>1, <3>3
  <2>2. Put1(n) \in Row /\ NoRow \notin Row
    BY <1>1, <1>5, BatchConstants DEF Op, Row
  <2> HIDE DEF Put1, out
  <2> QED
    BY <1>1, <2>1, <2>2 DEF Worlds
<1>6. CASE op.kind = "create"
  <2>1. PathTaken \/ op.text = Invalid => ~out.ok
    BY <1>1, <1>2, <1>6, OutcomeCases
  <2>2. ~PathTaken /\ op.text # Invalid => out = Put(Sofar, op, 1)
    BY <1>1, <1>2, <1>6, OutcomeCases
  <2>3. ~PathTaken => NextVersion = 1
    BY DEF PathTaken, NextVersion
  <2>4. ~PathTaken /\ op.text # Invalid => out.ok /\ out.rows[path] = Put1(1)
    BY <1>5, <2>2
  <2> QED
    BY <1>6, <2>1, <2>3, <2>4
<1>7. CASE op.kind # "create" /\ rows[path] = NoRow
  BY <1>1, <1>2, <1>7, OutcomeCases
<1>8. CASE op.kind = "update" /\ rows[path] # NoRow
  <2>1. op.text = Invalid => ~out.ok
    BY <1>1, <1>2, <1>8, OutcomeCases
  <2>2. ASSUME op.text # Invalid
        PROVE  IF NoOp(Sofar, op) \/ Stale(Sofar, op) THEN out = Sofar
               ELSE out = Put(Sofar, op, old.version + 1)
    BY <1>1, <1>2, <1>8, <2>2, OutcomeCases
  <2>3. ASSUME op.text # Invalid
        PROVE  out.ok /\ out.rows[path] # NoRow
               /\ out.rows[path] = IF NoOp(Sofar, op) \/ Stale(Sofar, op) THEN old ELSE Put1(old.version + 1)
    <3>1. CASE NoOp(Sofar, op) \/ Stale(Sofar, op)
      BY <1>1, <1>2, <1>8, <2>2, <2>3, <3>1
    <3>2. CASE ~(NoOp(Sofar, op) \/ Stale(Sofar, op))
      BY <1>2, <1>4, <1>5, <1>8, <2>2, <2>3, <3>2
    <3> QED
      BY <3>1, <3>2
  <2>4. NextVersion = rows[path].version + 1
    BY <1>8 DEF NextVersion
  <2>5. ASSUME op.text # Invalid, ~Named(batch, Here, path)
        PROVE  out.rows[path] = IF NoOp(view, op) \/ Stale(view, op) THEN rows[path] ELSE Put1(NextVersion)
    <3>1. /\ old = rows[path] /\ NoOp(Sofar, op) = NoOp(view, op) /\ Stale(Sofar, op) = Stale(view, op)
      BY <1>2, <1>3, <2>5
    <3> HIDE DEF out, old, Put1
    <3> QED
      BY <2>3, <2>4, <2>5, <3>1
  <2> QED
    BY <1>8, <2>1, <2>3, <2>5
<1>9. CASE op.kind = "delete" /\ rows[path] # NoRow
  <2> DEFINE w == Sofar
             gone == [w EXCEPT !.files[path] = NoFile, !.rows[path] = NoRow]
  <2>1. IF Stale(Sofar, op) THEN out = Sofar ELSE out = gone
    BY <1>1, <1>2, <1>9, OutcomeCases
  <2>2. gone.ok = Sofar.ok /\ gone.rows = [Sofar.rows EXCEPT ![path] = NoRow]
    <3>1. w \in Worlds
      BY <1>1
    <3> HIDE DEF w
    <3>2. gone.ok = w.ok /\ gone.rows = [w.rows EXCEPT ![path] = NoRow]
      BY <1>1, <3>1 DEF Worlds
    <3> QED
      BY <3>2 DEF w
  <2>3. out.ok /\ out.rows[path] = IF Stale(Sofar, op) THEN old ELSE NoRow
    BY <1>1, <2>1, <2>2 DEF Worlds
  <2>4. Named(batch, Here, path) \/ out.rows[path] = IF Stale(view, op) THEN rows[path] ELSE NoRow
    BY <1>2, <1>3, <2>3
  <2>5. Doubtful(batch, Here + 1, path) \/ (out.rows[path] = NoRow <=> ~Stale(view, op))
    <3>1. CASE Stale(Sofar, op) = Stale(view, op)
      BY <1>2, <1>9, <2>3, <3>1
    <3>2. CASE Stale(Sofar, op) # Stale(view, op)
      <4>1. op.expected # Unchecked
        BY <3>2 DEF Stale
      <4>2. TodoIsRest /\ Twice(batch, Here, path)
        BY <1>2, <3>2
      <4> QED
        BY <1>9, <4>1, <4>2, CountsGoOn
    <3> QED
      BY <3>1, <3>2
  <2> QED
    BY <1>9, <2>3, <2>4, <2>5
<1>10. op.kind \in {"create", "update", "delete"}
  BY <1>1 DEF Op
<1> QED
  BY <1>6, <1>7, <1>8, <1>9, <1>10

\* A dry run gives a row in its transaction what the batch would give it.
LEMMA DryPutKeeps ==
  ASSUME CallInv, ResultInv, Running, dry, todo # <<>>, op.text # Invalid, SetRow, NEW a, Done(a),
         Follows => LET out == Outcome(Sofar, op) IN
           /\ out.ok /\ out.rows[path] # NoRow
           /\ Named(batch, Here, path) \/ out.rows[path] = [text |-> op.text, version |-> NextVersion],
         UNCHANGED <<files, dry, saved, batch, files0, outcome, touched>>
  PROVE  ResultInv'
<1>1. /\ rows'[path] = [text |-> op.text, version |-> NextVersion] /\ rows'[path] # NoRow
      /\ \A p \in Paths \ {path} : rows'[p] = rows[p]
  BY SetRowIs, SetRowSets DEF CallInv
<1>2. Follows' => KeepsUp(Outcome(Sofar, op))
  BY <1>1 DEF Follows, KeepsUp
<1> QED
  BY <1>2, DoneKeepsResult

\* Operations that change nothing leave AtomicBatch where it was.
LEMMA NothingKeeps ==
  ASSUME CallInv, ResultInv, Running, ~dry, todo # <<>>, pc \in {"next", "mutate"}, NEW a, Done(a),
         Follows => Outcome(Sofar, op) = Sofar,
         UNCHANGED <<files, rows, dry, saved, batch, files0, outcome, touched>>
  PROVE  ResultInv'
<1>1. ASSUME Follows'
      PROVE  KeepsUp(Outcome(Sofar, op))
  <2>1. Matches /\ Outcome(Sofar, op) = Sofar
    BY <1>1 DEF ResultInv, Follows
  <2> QED
    BY <2>1 DEF Matches, KeepsUp
<1> QED
  BY <1>1, DoneKeepsResult

\* A creation does what AtomicBatch does for it, and fails where that fails.
LEMMA CreateKeepsResult ==
  ASSUME CallInv, ResultInv, Create
  PROVE  ResultInv'
<1>1. /\ pc = "next" /\ todo # <<>> /\ op.kind = "create" /\ Running
      /\ UNCHANGED <<files, dry, saved, backups, created, batch, files0, touched>>
  BY DEF Create, hist, CallInv, PhaseOK, Running
<1>2. ASSUME Follows, dry
      PROVE  LET out == Outcome(Sofar, op) IN
             IF PathTaken \/ op.text = Invalid THEN ~out.ok
             ELSE out.ok /\ out.rows[path] = [text |-> op.text, version |-> NextVersion]
  <2>1. Matches /\ TodoIsRest /\ ~Misled(batch)
    BY <1>1, <1>2 DEF ResultInv, Follows
  <2> QED
    BY <1>1, <1>2, <2>1, DryOutcome
<1>3. CASE Fail /\ (PathTaken \/ op.text = Invalid)
  BY <1>1, <1>2, <1>3, FailKeepsResult DEF Follows
<1>4. CASE dry /\ ~PathTaken /\ op.text # Invalid /\ SetRow /\ Done({path}) /\ UNCHANGED outcome
  <2>1. rows'[path] = [text |-> op.text, version |-> NextVersion] /\ rows'[path] # NoRow
    BY <1>1, <1>4, SetRowIs, SetRowSets DEF CallInv
  <2>2. [text |-> op.text, version |-> NextVersion] # NoRow
    BY <2>1
  <2> QED
    BY <1>1, <1>2, <1>4, <2>2, DryPutKeeps
<1>5. CASE ~dry /\ ~PathTaken /\ pc' = "write" /\ UNCHANGED <<rows, todo, outcome>>
  BY <1>1, <1>5, PhaseKeepsResult DEF PathTaken
<1> QED
  BY <1>3, <1>4, <1>5 DEF Create

\* A node that is looked up is the one AtomicBatch finds.
LEMMA ResolveKeepsResult ==
  ASSUME CallInv, ResultInv, Resolve
  PROVE  ResultInv'
<1>1. /\ pc = "next" /\ todo # <<>> /\ op.kind # "create" /\ Running
      /\ UNCHANGED <<files, dry, saved, batch, files0, touched>>
  BY DEF Resolve, hist, CallInv, PhaseOK, Running
<1>2. CASE Fail /\ rows[path] = NoRow
  <2>1. ASSUME Follows', dry PROVE ~Outcome(Sofar, op).ok
    <3>1. Matches /\ TodoIsRest /\ ~Misled(batch)
      BY <1>1, <2>1 DEF ResultInv, Follows
    <3> QED
      BY <1>1, <1>2, <2>1, <3>1, DryOutcome
  <2> QED
    BY <1>1, <1>2, <2>1, FailKeepsResult
<1>3. CASE pc' = "mutate" /\ UNCHANGED <<rows, outcome, todo>>
  BY <1>1, <1>3, PhaseKeepsResult
<1> QED
  BY <1>2, <1>3 DEF Resolve

\* An update does to its row what AtomicBatch does ...
LEMMA UpdateKeepsResult ==
  ASSUME CallInv, ResultInv, Update, ~dry
  PROVE  ResultInv'
<1>1. /\ pc = "mutate" /\ todo # <<>> /\ op.kind = "update" /\ Running /\ rows[path] # NoRow
      /\ UNCHANGED <<files, dry, saved, backups, created, batch, files0, touched>>
  BY DEF Update, hist, CallInv, BatchTypeOK, PhaseOK, Running
<1>2. CASE Fail /\ op.text = Invalid
  BY <1>1, <1>2, FailKeepsResult
<1>3. CASE /\ op.text # Invalid /\ (NoOp(view, op) \/ Stale(view, op))
           /\ (Done({path}) \/ Done({})) /\ UNCHANGED <<rows, outcome>>
  <2>1. ASSUME Follows PROVE Outcome(Sofar, op) = Sofar
    <3>1. Matches /\ TodoIsRest
      BY <1>1, <2>1 DEF ResultInv
    <3> QED
      BY <1>1, <1>3, <3>1, OutcomeHere
  <2>2. CASE Done({path})
    BY <1>1, <1>3, <2>1, <2>2, NothingKeeps
  <2>3. CASE Done({})
    BY <1>1, <1>3, <2>1, <2>3, NothingKeeps
  <2> QED
    BY <1>3, <2>2, <2>3
<1>4. CASE ~NoOp(view, op) /\ ~Stale(view, op) /\ pc' = "write" /\ UNCHANGED <<rows, todo, outcome>>
  BY <1>1, <1>4, PhaseKeepsResult
<1> QED
  BY <1>2, <1>3, <1>4 DEF Update

\* ... and in a preview as far as the rest of the batch may depend on it.
LEMMA DryUpdateKeepsResult ==
  ASSUME CallInv, ResultInv, Update, dry
  PROVE  ResultInv'
<1> DEFINE out == Outcome(Sofar, op)
           new == [text |-> op.text, version |-> NextVersion]
<1>1. /\ pc = "mutate" /\ todo # <<>> /\ op.kind = "update" /\ Running /\ rows[path] # NoRow
      /\ UNCHANGED <<files, dry, saved, backups, created, batch, files0, touched>>
  BY DEF Update, hist, CallInv, BatchTypeOK, PhaseOK, Running
<1>2. ASSUME Follows
      PROVE  IF op.text = Invalid THEN ~out.ok
             ELSE /\ out.ok /\ out.rows[path] # NoRow
                  /\ Named(batch, Here, path) \/
                       out.rows[path] = IF NoOp(view, op) \/ Stale(view, op) THEN rows[path] ELSE new
  <2>1. Matches /\ TodoIsRest /\ ~Misled(batch)
    BY <1>1, <1>2 DEF ResultInv, Follows
  <2> QED
    BY <1>1, <2>1, DryOutcome
<1> HIDE DEF out
<1>3. CASE Fail /\ op.text = Invalid
  BY <1>1, <1>2, <1>3, FailKeepsResult DEF Follows, out
<1>4. CASE /\ op.text # Invalid /\ (NoOp(view, op) \/ Stale(view, op))
           /\ (Done({path}) \/ Done({})) /\ UNCHANGED <<rows, outcome>>
  <2>1. Follows' => KeepsUp(out)
    BY <1>1, <1>2, <1>4 DEF Follows, KeepsUp
  <2>2. CASE Done({path})
    BY <1>1, <1>4, <2>1, <2>2, DoneKeepsResult DEF out
  <2>3. CASE Done({})
    BY <1>1, <1>4, <2>1, <2>3, DoneKeepsResult DEF out
  <2> QED
    BY <1>4, <2>2, <2>3
<1>5. CASE /\ op.text # Invalid /\ ~NoOp(view, op) /\ ~Stale(view, op)
           /\ SetRow /\ Done({path}) /\ UNCHANGED outcome
  BY <1>1, <1>2, <1>5, DryPutKeeps DEF out
<1> QED
  BY <1>3, <1>4, <1>5 DEF Update

\* A file that is written completes what its row began.
LEMMA WriteKeepsResult ==
  ASSUME CallInv, ResultInv, Write
  PROVE  ResultInv'
<1>1. /\ pc = "write" /\ todo # <<>> /\ op.kind \in {"create", "update"} /\ op.text # Invalid
      /\ Running /\ ~dry /\ (op.kind = "update" => rows[path] # NoRow)
      /\ files' = [files EXCEPT ![path] = op.text] /\ SetRow /\ Done({path})
      /\ UNCHANGED <<dry, saved, outcome, batch, files0, touched>>
  BY OpTyped DEF Write, hist, CallInv, BatchTypeOK, PhaseOK, Running
<1>2. ASSUME Follows'
      PROVE  KeepsUp(Outcome(Sofar, op))
  <2>1. Matches /\ TodoIsRest
    BY <1>1, <1>2 DEF ResultInv, Follows
  <2>2. Sofar \in Worlds /\ Sofar.rows = rows /\ Sofar.ok /\ files = Sofar.files
    BY <1>1, <2>1, NextOutcome DEF Matches
  <2>3. Outcome(Sofar, op) = Put(Sofar, op, NextVersion)
    <3>1. CASE op.kind = "create"
      <4>1. ~PathTaken
        BY <1>1, <2>1, <3>1 DEF Matches, PathTaken
      <4> QED
        BY <1>1, <2>1, <3>1, <4>1, OutcomeHere
    <3>2. CASE op.kind = "update"
      <4>1. ~NoOp(view, op) /\ ~Stale(view, op)
        BY <1>1, <2>1, <3>2 DEF Matches
      <4> QED
        BY <1>1, <2>1, <3>2, <4>1, OutcomeHere
    <3> QED
      BY <1>1, <3>1, <3>2
  <2>4. /\ rows' = Put(Sofar, op, NextVersion).rows /\ Put(Sofar, op, NextVersion).ok = Sofar.ok
        /\ Put(Sofar, op, NextVersion).files = [Sofar.files EXCEPT ![path] = op.text]
    BY <1>1, <2>2, SetRowPuts
  <2> QED
    BY <1>1, <2>2, <2>3, <2>4 DEF KeepsUp
<1> QED
  BY <1>1, <1>2, DoneKeepsResult

\* A deletion does to its row what AtomicBatch does ...
LEMMA DeleteKeepsResult ==
  ASSUME CallInv, ResultInv, Delete, ~dry
  PROVE  ResultInv'
<1>1. /\ pc = "mutate" /\ todo # <<>> /\ op.kind = "delete" /\ Running /\ rows[path] # NoRow
      /\ UNCHANGED <<files, dry, saved, batch, files0, touched, outcome>>
  BY DEF Delete, hist, CallInv, BatchTypeOK, PhaseOK, Running
<1>2. ASSUME Follows
      PROVE  /\ Stale(Sofar, op) = Stale(view, op)
             /\ Stale(view, op) => Outcome(Sofar, op) = Sofar
  <2>1. Matches /\ TodoIsRest
    BY <1>1, <1>2 DEF ResultInv
  <2>2. Stale(view, op) => Outcome(Sofar, op) = Sofar
    BY <1>1, <2>1, OutcomeHere
  <2>3. Stale(Sofar, op) = Stale(view, op)
    BY <1>1, <2>1, AtHand
  <2> QED
    BY <2>2, <2>3
<1>3. CASE Stale(view, op) /\ Done({}) /\ UNCHANGED rows
  BY <1>1, <1>2, <1>3, NothingKeeps
<1>4. CASE ~Stale(view, op) /\ rows' = [rows EXCEPT ![path] = NoRow] /\ pc' = "unlink" /\ UNCHANGED todo
  BY <1>1, <1>2, <1>4, PhaseKeepsResult
<1> QED
  BY <1>3, <1>4 DEF Delete

\* ... and in a preview as far as the rest of the batch may depend on it.
LEMMA DryDeleteKeepsResult ==
  ASSUME CallInv, ResultInv, Delete, dry
  PROVE  ResultInv'
<1> DEFINE out == Outcome(Sofar, op)
<1>1. /\ pc = "mutate" /\ todo # <<>> /\ op.kind = "delete" /\ Running /\ rows[path] # NoRow
      /\ UNCHANGED <<files, dry, saved, batch, files0, touched, outcome>>
      /\ path \in Paths /\ rows \in [Paths -> Row \cup {NoRow}]
  BY OpTyped DEF Delete, hist, CallInv, BatchTypeOK, PhaseOK, Running
<1>2. ASSUME Follows
      PROVE  /\ out.ok
             /\ Named(batch, Here, path) \/ out.rows[path] = IF Stale(view, op) THEN rows[path] ELSE NoRow
             /\ Doubtful(batch, Here + 1, path) \/ (out.rows[path] = NoRow <=> ~Stale(view, op))
  <2>1. Matches /\ TodoIsRest /\ ~Misled(batch)
    BY <1>1, <1>2 DEF ResultInv, Follows
  <2> QED
    BY <1>1, <2>1, DryOutcome
<1> HIDE DEF out
<1>3. /\ (Done({path}) \/ Done({})) /\ \A p \in Paths \ {path} : rows'[p] = rows[p]
      /\ rows'[path] = IF Stale(view, op) THEN rows[path] ELSE NoRow
  BY <1>1 DEF Delete
<1>4. Follows' => KeepsUp(out)
  BY <1>1, <1>2, <1>3 DEF Follows, KeepsUp
<1> QED
  BY <1>1, <1>3, <1>4, DoneKeepsResult DEF out

\* A file that is unlinked completes it.
LEMMA UnlinkKeepsResult ==
  ASSUME CallInv, ResultInv, Unlink
  PROVE  ResultInv'
<1>1. /\ pc = "unlink" /\ todo # <<>> /\ op.kind = "delete" /\ Running /\ ~dry
      /\ files' = [files EXCEPT ![path] = NoFile] /\ Done({path})
      /\ UNCHANGED <<rows, dry, saved, outcome, batch, files0, touched>>
  BY DEF Unlink, hist, CallInv, BatchTypeOK, PhaseOK, Running
<1>2. ASSUME Follows'
      PROVE  KeepsUp(Outcome(Sofar, op))
  <2> DEFINE gone == [Sofar EXCEPT !.files[path] = NoFile, !.rows[path] = NoRow]
  <2>1. Matches /\ TodoIsRest
    BY <1>1, <1>2 DEF ResultInv, Follows
  <2>2. /\ Sofar \in Worlds /\ Sofar.ok /\ files = Sofar.files
        /\ rows = [Sofar.rows EXCEPT ![path] = NoRow] /\ Sofar.rows[path] # NoRow /\ ~Stale(Sofar, op)
    BY <1>1, <2>1, NextOutcome DEF Matches
  <2>3. op \in Op /\ op.path = path
    BY <1>1, OpTyped DEF CallInv, path
  <2>4. Outcome(Sofar, op) = gone
    BY <1>1, <2>2, <2>3, OutcomeCases
  <2>5. gone.ok = Sofar.ok /\ gone.rows = [Sofar.rows EXCEPT ![path] = NoRow]
        /\ gone.files = [Sofar.files EXCEPT ![path] = NoFile]
    <3> DEFINE w == Sofar
    <3>1. w \in Worlds /\ path \in Paths
      BY <2>2, <2>3 DEF Op
    <3> HIDE DEF w
    <3>2. LET to == [w EXCEPT !.files[path] = NoFile, !.rows[path] = NoRow] IN
          /\ to.ok = w.ok /\ to.rows = [w.rows EXCEPT ![path] = NoRow]
          /\ to.files = [w.files EXCEPT ![path] = NoFile]
      BY <3>1 DEF Worlds
    <3> QED
      BY <3>2 DEF w
  <2> QED
    BY <1>1, <2>2, <2>4, <2>5 DEF KeepsUp
<1> QED
  BY <1>1, <1>2, DoneKeepsResult

\* Steps after which the call no longer runs, and nothing that the last one came to changes.
LEMMA OverKeepsResult ==
  ASSUME ResultInv, ~Running, ~Running', UNCHANGED <<saved, dry, batch, files0, outcome>>,
         outcome = "applied" => UNCHANGED <<files, rows>>, touched \subseteq touched'
  PROVE  ResultInv'
BY DEF ResultInv, Final, Follows

\* A batch begins where AtomicBatch does.
LEMMA BeginKeepsResult ==
  ASSUME CallInv, NEW b \in Batches, NEW d \in BOOLEAN, Begin(b, d)
  PROVE  ResultInv'
<1>1. /\ pc' = "next" /\ todo' = b /\ dry' = d /\ saved' = rows /\ outcome' = "none"
      /\ batch' = b /\ files0' = files /\ touched' = {} /\ UNCHANGED <<files, rows>>
  BY DEF Begin
<1>2. /\ b \in Seq(Op) /\ Len(b) \in Nat /\ DOMAIN b = 1 .. Len(b)
      /\ files \in [Paths -> Texts \cup {NoFile}] /\ rows \in [Paths -> Row \cup {NoRow}]
  BY BatchConstants, LenProperties DEF CallInv, BatchTypeOK
<1>3. Here' = 0
  BY <1>1, <1>2 DEF Here
<1>4. TodoIsRest'
  BY <1>1, <1>2, <1>3 DEF TodoIsRest
<1>5. Sofar' = [files |-> files, rows |-> rows, ok |-> TRUE]
  BY <1>1, <1>2, <1>3, PrefixSteps DEF Sofar
<1>6. Matches'
  <2>1. \A p \in Paths : Previewed(p)'
    BY <1>1, <1>5 DEF Previewed
  <2> QED
    BY <1>1, <1>5, <2>1 DEF Matches
<1> QED
  BY <1>1, <1>4, <1>6 DEF ResultInv, Running

\* A batch that ends is where AtomicBatch ends.
LEMMA CommitKeepsResult ==
  ASSUME CallInv, ResultInv, Commit
  PROVE  ResultInv'
<1>1. /\ pc = "next" /\ todo = <<>> /\ Running /\ ~Running' /\ outcome' = "applied"
      /\ rows' = IF dry THEN saved ELSE rows
      /\ UNCHANGED <<files, dry, saved, batch, files0, touched>>
  BY DEF Commit, hist, CallInv, PhaseOK, Running
<1>2. ASSUME Follows
      PROVE  Final.ok /\ (dry => files = files0) /\ (~dry => files = Final.files /\ rows = Final.rows)
  <2>1. /\ files0 \in [Paths -> Texts \cup {NoFile}] /\ saved \in [Paths -> Row \cup {NoRow}]
        /\ batch \in Seq(Op) /\ Len(batch) \in Nat
    BY LenProperties DEF CallInv, BatchTypeOK
  <2>2. Here = Len(batch)
    BY <1>1, <2>1, EmptySeq DEF Here
  <2>3. Final = Sofar
    BY <2>1, <2>2, PrefixSteps DEF Final, Sofar
  <2> QED
    BY <1>1, <1>2, <2>3 DEF ResultInv, Matches
<1>3. Final' = Final
  BY <1>1 DEF Final
<1>4. Follows' <=> Follows
  BY <1>1 DEF Follows
<1> QED
  BY <1>1, <1>2, <1>3, <1>4 DEF ResultInv

\* Saves and faults end what the invariant says of the vault, not where the batch is.
LEMMA TouchedKeepsResult ==
  ASSUME ResultInv, touched' # {}, UNCHANGED <<pc, todo, dry, outcome, batch>>
  PROVE  ResultInv'
BY DEF ResultInv, Running, TodoIsRest, Here, Follows

\* No step leaves the path of AtomicBatch.
LEMMA NextKeepsResult ==
  ASSUME CallInv, CallInv', ResultInv, [BatchNext]_vars
  PROVE  ResultInv'
<1>1. CASE \E b \in Batches, d \in BOOLEAN : Begin(b, d)
  BY <1>1, BeginKeepsResult
<1>2. CASE Create \/ Resolve \/ Update \/ Write \/ Delete \/ Unlink \/ Commit
  BY <1>2, CreateKeepsResult, ResolveKeepsResult, UpdateKeepsResult, DryUpdateKeepsResult,
     WriteKeepsResult, DeleteKeepsResult, DryDeleteKeepsResult, UnlinkKeepsResult, CommitKeepsResult
<1>3. CASE WriteFails
  <2>1. pc = "write" /\ todo # <<>> /\ Running
    BY <1>3 DEF WriteFails, CallInv, BatchTypeOK, PhaseOK, Running
  <2>2. /\ Fail /\ touched' # {} /\ touched \subseteq touched'
        /\ UNCHANGED <<dry, saved, batch, files0>>
    BY <1>3 DEF WriteFails, Fault
  <2> QED
    BY <2>1, <2>2, FailKeepsResult DEF Follows
<1>4. CASE UnlinkFails
  <2>1. pc = "unlink" /\ todo # <<>> /\ Running
    BY <1>4 DEF UnlinkFails, CallInv, BatchTypeOK, PhaseOK, Running
  <2>2. /\ Done({path}) /\ touched' # {} /\ touched \subseteq touched'
        /\ UNCHANGED <<dry, saved, batch, files0, outcome>>
    BY <1>4 DEF UnlinkFails, Fault
  <2> QED
    BY <2>1, <2>2, DoneKeepsResult DEF Follows
<1>5. CASE Restore \/ RestoreFails \/ RemoveCreated \/ RemoveCreatedFails \/ Reply
  <2>1. /\ pc = "restore" /\ outcome \in {"failed", "torn"} /\ touched \subseteq touched'
        /\ UNCHANGED <<saved, dry, batch, files0, outcome>>
    BY <1>5 DEF Restore, RestoreFails, RemoveCreated, RemoveCreatedFails, Reply, hist, CallInv, PhaseOK
  <2> QED
    BY <2>1, OverKeepsResult DEF Running
<1>6. CASE \E p \in Paths, t \in Texts : UserWrite(p, t)
  <2>1. touched' # {} /\ UNCHANGED <<pc, todo, dry, outcome, batch>>
    BY <1>6 DEF UserWrite, call
  <2> QED
    BY <2>1, TouchedKeepsResult
<1>7. CASE Crash \/ RemoveNodeFails \/ CommitFails
  <2>1. outcome' \in {"crashed", "torn"} \/ (outcome' = "failed" /\ ~dry')
    BY <1>7 DEF Crash, RemoveNodeFails, CommitFails, Fail
  <2> QED
    BY <2>1 DEF ResultInv, Running
<1>8. CASE UNCHANGED vars
  <2>1. /\ UNCHANGED <<files, rows, pc, todo, dry, saved, outcome, batch, files0, touched>>
    BY <1>8 DEF vars
  <2>2. /\ Running' = Running /\ TodoIsRest' = TodoIsRest /\ Matches' = Matches /\ Final' = Final
        /\ Follows' = Follows
    BY <2>1 DEF Running, TodoIsRest, Here, Matches, Previewed, Sofar, Final, Follows, path, op, view,
                NoOp, Stale
  <2> QED
    BY <2>1, <2>2 DEF ResultInv
<1> QED
  BY <1>1, <1>2, <1>3, <1>4, <1>5, <1>6, <1>7, <1>8 DEF BatchNext

\* Before the first batch nothing is claimed.
LEMMA InitResult == BatchInit => ResultInv
<1> SUFFICES ASSUME BatchInit PROVE ResultInv
  OBVIOUS
<1>1. batch = <<>> /\ pc = "idle" /\ dry = FALSE /\ outcome = "none"
  BY DEF BatchInit
<1> QED
  BY <1>1 DEF ResultInv, Running

\* The batch follows AtomicBatch in every state.
LEMMA ResultInvHolds == BatchSpec => [](BatchInv /\ ResultInv)
<1>1. BatchInit => BatchInv /\ ResultInv
  BY InitResult, InitCall DEF BatchInit, BatchInv, AppliedSoFar, RestoreInv
<1>2. BatchInv /\ ResultInv /\ [BatchNext]_vars => BatchInv' /\ ResultInv'
  BY NextKeepsCall, NextKeepsApplied, NextKeepsRestore, NextKeepsResult DEF BatchInv
<1> QED
  BY <1>1, <1>2, PTL DEF BatchSpec

\* A preview that nothing disturbs succeeds just when the batch would, whatever the
\* vault, the operations, their versions and how they build on one another, unless
\* the batch is one of those that mislead it.
THEOREM PreviewsPredict == BatchSpec => []DryRunPredicts
<1>1. BatchInv /\ ResultInv => DryRunPredicts
  BY DEF BatchInv, CallInv, BatchTypeOK, PhaseOK, ResultInv, Follows, Running, Final, DryRunPredicts
<1> QED
  BY <1>1, ResultInvHolds, PTL

-----------------------------------------------------------------------------
(* The batch implements AtomicBatch when nobody disturbs it: no operation     *)
(* names a path twice, no user saves meanwhile, nothing fails but operations, *)
(* and every row has its file.                                                *)

Distinct(b) == \A i, j \in DOMAIN b : b[i].path = b[j].path => i = j

RowsHaveFiles(f, r) == \A p \in Paths : r[p] # NoRow => f[p] # NoFile

Undisturbed ==
  /\ \A b \in Batches : Distinct(b)
  /\ MaxUserOps = 0 /\ MaxFaults = 0 /\ OrphanRows = FALSE

AtomicInv ==
  /\ touched = {} /\ userOps = 0 /\ faults = 0 /\ outcome \notin {"torn", "crashed"}
  /\ Distinct(batch)
  /\ RowsHaveFiles(files0, saved)
  /\ pc = "idle" => RowsHaveFiles(files, rows)
  /\ outcome = "failed" => rows = saved

\* An operation that does not fail leaves every row with its file ...
LEMMA OutcomeHasFiles ==
  ASSUME NEW w \in Worlds, NEW o \in Op, RowsHaveFiles(w.files, w.rows), Outcome(w, o).ok
  PROVE  RowsHaveFiles(Outcome(w, o).files, Outcome(w, o).rows)
<1> DEFINE old  == w.rows[o.path]
           gone == [w EXCEPT !.files[o.path] = NoFile, !.rows[o.path] = NoRow]
           Moved(f, r, t, n) ==
             \/ f = w.files /\ r = w.rows
             \/ /\ f = [w.files EXCEPT ![o.path] = t] /\ r = [w.rows EXCEPT ![o.path] = n]
                /\ t # NoFile \/ n = NoRow
<1>1. /\ o.kind \in {"create", "update", "delete"} /\ o.path \in Paths /\ w.ok \in BOOLEAN
      /\ w.files \in [Paths -> Texts \cup {NoFile}] /\ w.rows \in [Paths -> Row \cup {NoRow}]
      /\ o.text # Invalid => o.text # NoFile
  BY BatchConstants DEF Op, Worlds
<1>2. ASSUME NEW t, NEW n, Moved(Outcome(w, o).files, Outcome(w, o).rows, t, n)
      PROVE  RowsHaveFiles(Outcome(w, o).files, Outcome(w, o).rows)
  BY <1>1, <1>2 DEF RowsHaveFiles
<1>3. ASSUME NEW n \in Nat, o.text # Invalid, Outcome(w, o) = Put(w, o, n)
      PROVE  RowsHaveFiles(Outcome(w, o).files, Outcome(w, o).rows)
  <2> DEFINE r == [text |-> o.text, version |-> n]
  <2>1. Put(w, o, n) = [w EXCEPT !.files[o.path] = o.text, !.rows[o.path] = r]
    BY DEF Put
  <2> HIDE DEF r
  <2>2. /\ Put(w, o, n).files = [w.files EXCEPT ![o.path] = o.text]
        /\ Put(w, o, n).rows = [w.rows EXCEPT ![o.path] = r]
    BY <1>1, <2>1 DEF Worlds
  <2>3. Moved(Outcome(w, o).files, Outcome(w, o).rows, o.text, r)
    BY <1>1, <1>3, <2>2
  <2> QED
    BY <1>2, <2>3
<1>4. ASSUME Outcome(w, o) = gone
      PROVE  RowsHaveFiles(Outcome(w, o).files, Outcome(w, o).rows)
  <2>1. gone.files = [w.files EXCEPT ![o.path] = NoFile] /\ gone.rows = [w.rows EXCEPT ![o.path] = NoRow]
    BY <1>1 DEF Worlds
  <2>2. Moved(Outcome(w, o).files, Outcome(w, o).rows, NoFile, NoRow)
    BY <1>4, <2>1
  <2> QED
    BY <1>2, <2>2
<1>5. old # NoRow => old.version + 1 \in Nat
  BY <1>1 DEF Row
<1>6. \/ Outcome(w, o) = w \/ Outcome(w, o) = gone
      \/ \E n \in Nat : o.text # Invalid /\ Outcome(w, o) = Put(w, o, n)
  <2>1. 1 \in Nat
    OBVIOUS
  <2> HIDE DEF old
  <2>2. CASE ~w.ok
    BY <2>2, OutcomeCases
  <2>3. CASE w.ok /\ o.kind = "create"
    <3>1. o.text # Invalid /\ Outcome(w, o) = Put(w, o, 1)
      BY <2>3, OutcomeCases
    <3> QED
      BY <2>1, <3>1
  <2>4. CASE w.ok /\ o.kind # "create" /\ old = NoRow
    BY <2>4, OutcomeCases DEF old
  <2>5. CASE w.ok /\ o.kind = "update" /\ old # NoRow
    <3>1. \/ Outcome(w, o) = w
          \/ o.text # Invalid /\ Outcome(w, o) = Put(w, o, old.version + 1)
      BY <2>5, OutcomeCases DEF old
    <3> QED
      BY <1>5, <2>5, <3>1
  <2>6. CASE w.ok /\ o.kind = "delete" /\ old # NoRow
    BY <2>6, OutcomeCases DEF old
  <2> QED
    BY <1>1, <2>2, <2>3, <2>4, <2>5, <2>6
<1> HIDE DEF gone
<1> QED
  BY <1>3, <1>4, <1>6

\* ... and so does a batch.
LEMMA ResultHasFiles ==
  ASSUME NEW f \in [Paths -> Texts \cup {NoFile}], NEW r \in [Paths -> Row \cup {NoRow}], NEW b \in Seq(Op),
         RowsHaveFiles(f, r), Result(f, r, b).ok
  PROVE  RowsHaveFiles(Result(f, r, b).files, Result(f, r, b).rows)
<1> DEFINE T == {j \in 0 .. Len(b) : RowsHaveFiles(Prefix(f, r, b, j).files, Prefix(f, r, b, j).rows)}
<1>1. Len(b) \in Nat /\ DOMAIN b = 1 .. Len(b) /\ b \in [1 .. Len(b) -> Op]
  BY LenProperties
<1>2. 0 \in T
  <2>1. Prefix(f, r, b, 0).files = f /\ Prefix(f, r, b, 0).rows = r
    BY PrefixSteps
  <2> QED
    BY <1>1, <2>1
<1>3. ASSUME NEW j \in 0 .. Len(b), j # 0, j - 1 \in T PROVE j \in T
  <2>1. j \in 1 .. Len(b) /\ j - 1 \in 0 .. Len(b)
    BY <1>1, <1>3
  <2>2. /\ Prefix(f, r, b, j) = Outcome(Prefix(f, r, b, j - 1), b[j])
        /\ Prefix(f, r, b, j - 1) \in Worlds /\ b[j] \in Op
    BY <1>1, <2>1, PrefixSteps
  <2>3. CASE ~Prefix(f, r, b, j).ok
    BY <1>1, <2>3, StaysFailed
  <2>4. CASE Prefix(f, r, b, j).ok
    <3> DEFINE w == Prefix(f, r, b, j - 1)
               o == b[j]
    <3>1. w \in Worlds /\ o \in Op /\ RowsHaveFiles(w.files, w.rows)
      BY <1>3, <2>2
    <3>2. Outcome(w, o).ok
      BY <2>2, <2>4
    <3> HIDE DEF w, o
    <3>3. RowsHaveFiles(Outcome(w, o).files, Outcome(w, o).rows)
      BY <3>1, <3>2, OutcomeHasFiles
    <3> QED
      BY <2>2, <3>3 DEF w, o
  <2> QED
    BY <2>3, <2>4
<1> HIDE DEF T
<1>4. Len(b) \in T
  BY <1>1, <1>2, <1>3, Climb
<1> QED
  BY <1>4, PrefixSteps DEF T

\* How a batch has ended when nothing disturbed it.
Settled ==
  \/ files = files0 /\ rows = saved
  \/ outcome = "applied" /\ Final.ok /\ files = Final.files /\ rows = Final.rows

\* A batch that nothing disturbed ends as AtomicBatch ends, or as if it had never begun.
LEMMA EndsSettled ==
  BatchInv /\ ResultInv /\ touched = {} /\ Distinct(batch) /\ RowsHaveFiles(files0, saved) /\ pc = "idle"
    /\ outcome \in {"applied", "failed"} /\ (outcome = "failed" => rows = saved)
  => Settled
<1> SUFFICES ASSUME BatchInv, ResultInv, touched = {}, Distinct(batch), RowsHaveFiles(files0, saved),
                    pc = "idle",
                    outcome \in {"applied", "failed"}, outcome = "failed" => rows = saved
             PROVE  Settled
  OBVIOUS
<1>1. CASE outcome = "failed"
  <2>1. \A p \in Paths : Orderly(p)
    BY DEF Distinct, Orderly, RowsHaveFiles
  <2>2. \A p \in Paths : files[p] = files0[p]
    BY <1>1, <2>1, FilesAreBack DEF FailureRestores, Finished
  <2>3. files \in [Paths -> Texts \cup {NoFile}] /\ files0 \in [Paths -> Texts \cup {NoFile}]
    BY DEF BatchInv, CallInv, BatchTypeOK
  <2>4. files = files0
    BY <2>2, <2>3
  <2> QED
    BY <1>1, <2>4 DEF Settled
<1>2. CASE outcome = "applied"
  <2>1. DOMAIN batch \subseteq Nat
    BY LenProperties DEF BatchInv, CallInv, BatchTypeOK
  <2>2. Follows
    BY <2>1 DEF Follows, Misled, Distinct
  <2> QED
    BY <1>2, <2>2 DEF ResultInv, Settled
<1> QED
  BY <1>1, <1>2

\* A batch that ends was applied or has failed, and its rows are back when it failed.
LEMMA UndisturbedStep ==
  ASSUME Undisturbed, BatchInv, AtomicInv, [BatchNext]_vars
  PROVE  /\ touched' = {} /\ userOps' = 0 /\ faults' = 0
         /\ outcome' = "failed" => rows' = saved'
         /\ outcome' \notin {"torn", "crashed"} /\ Distinct(batch')
         /\ pc' = "idle" /\ pc # "idle" => outcome' \in {"applied", "failed"} /\ UNCHANGED batch
                                           /\ (outcome' = "applied" => outcome = "none")
         /\ pc = "idle" /\ pc' # "idle" => files0' = files /\ saved' = rows
         /\ pc # "idle" => UNCHANGED <<files0, saved>>
         /\ pc = "idle" /\ pc' = "idle" => UNCHANGED <<files, rows, files0, saved>>
<1>1. /\ touched = {} /\ userOps = 0 /\ faults = 0 /\ MaxUserOps = 0 /\ MaxFaults = 0
      /\ outcome = "failed" => rows = saved
      /\ pc \in {"next", "mutate", "write", "unlink"} <=> outcome = "none" /\ pc # "idle"
      /\ pc \in {"idle", "next", "mutate", "write", "unlink", "restore"}
      /\ pc = "restore" => outcome = "failed"
      /\ outcome \notin {"torn", "crashed"} /\ Distinct(batch) /\ (\A b \in Batches : Distinct(b))
  BY DEF AtomicInv, Undisturbed, BatchInv, CallInv, BatchTypeOK, PhaseOK
<1>2. CASE \E b \in Batches, d \in BOOLEAN : Begin(b, d)
  BY <1>1, <1>2 DEF Begin
<1>3. CASE Create
  BY <1>1, <1>3 DEF Create, Fail, Done, hist
<1>4. CASE Resolve
  BY <1>1, <1>4 DEF Resolve, Fail, hist
<1>5. CASE Update
  BY <1>1, <1>5 DEF Update, Fail, Done, hist
<1>6. CASE Write \/ Delete \/ Unlink
  BY <1>1, <1>6 DEF Write, Delete, Unlink, Done, hist
<1>7. CASE \/ WriteFails \/ UnlinkFails \/ CommitFails \/ RemoveNodeFails
           \/ RestoreFails \/ RemoveCreatedFails \/ Crash
  BY <1>1, <1>7 DEF WriteFails, UnlinkFails, CommitFails, RemoveNodeFails,
                    RestoreFails, RemoveCreatedFails, Crash, Fault
<1>8. CASE Commit
  BY <1>1, <1>8 DEF Commit, hist
<1>11. CASE Restore \/ RemoveCreated
  BY <1>1, <1>11 DEF Restore, RemoveCreated, hist
<1>12. CASE Reply
  BY <1>1, <1>12 DEF Reply, hist
<1>9. CASE \E p \in Paths, t \in Texts : UserWrite(p, t)
  BY <1>1, <1>9 DEF UserWrite
<1>10. CASE UNCHANGED vars
  BY <1>1, <1>10 DEF vars
<1> QED
  BY <1>2, <1>3, <1>4, <1>5, <1>6, <1>7, <1>8, <1>9, <1>10, <1>11, <1>12 DEF BatchNext

\* After it every row has its file again.
LEMMA SettledHasFiles ==
  BatchInv /\ RowsHaveFiles(files0, saved) /\ Settled => RowsHaveFiles(files, rows)
<1> SUFFICES ASSUME BatchInv, RowsHaveFiles(files0, saved), Settled PROVE RowsHaveFiles(files, rows)
  OBVIOUS
<1>1. /\ files0 \in [Paths -> Texts \cup {NoFile}] /\ saved \in [Paths -> Row \cup {NoRow}]
      /\ batch \in Seq(Op)
  BY DEF BatchInv, CallInv, BatchTypeOK
<1> QED
  BY <1>1, ResultHasFiles DEF Settled, Final

\* Undisturbed, every step leads to such an end.
LEMMA NextKeepsAtomic ==
  ASSUME Undisturbed, BatchInv, BatchInv', ResultInv', AtomicInv, [BatchNext]_vars
  PROVE  AtomicInv' /\ (pc # "idle" /\ pc' = "idle" => Settled')
<1>1. /\ touched' = {} /\ userOps' = 0 /\ faults' = 0 /\ outcome' \notin {"torn", "crashed"}
      /\ Distinct(batch)'
      /\ outcome' = "failed" => rows' = saved'
  BY UndisturbedStep
<1>2. RowsHaveFiles(files0, saved)' 
  <2>1. CASE pc = "idle" /\ pc' # "idle"
    <3>1. files0' = files /\ saved' = rows
      BY <2>1, UndisturbedStep
    <3> QED
      BY <2>1, <3>1 DEF AtomicInv, RowsHaveFiles
  <2>2. CASE pc # "idle" \/ pc' = "idle"
    <3>1. UNCHANGED <<files0, saved>>
      BY <2>2, UndisturbedStep
    <3> QED
      BY <3>1 DEF AtomicInv, RowsHaveFiles
  <2> QED
    BY <2>1, <2>2
<1>3. pc # "idle" /\ pc' = "idle" => Settled'
  <2>1. (BatchInv /\ ResultInv /\ touched = {} /\ Distinct(batch) /\ RowsHaveFiles(files0, saved) /\ pc = "idle"
           /\ outcome \in {"applied", "failed"} /\ (outcome = "failed" => rows = saved) => Settled)'
    BY EndsSettled, PTL
  <2>2. pc # "idle" /\ pc' = "idle" => outcome' \in {"applied", "failed"}
    BY UndisturbedStep
  <2> QED
    BY <1>1, <1>2, <2>1, <2>2
<1>4. pc' = "idle" => RowsHaveFiles(files, rows)'
  <2>1. CASE pc # "idle" /\ pc' = "idle"
    <3>1. (BatchInv /\ RowsHaveFiles(files0, saved) /\ Settled => RowsHaveFiles(files, rows))'
      BY SettledHasFiles, PTL
    <3> QED
      BY <1>2, <1>3, <2>1, <3>1
  <2>2. CASE pc = "idle" /\ pc' = "idle"
    <3>1. UNCHANGED <<files, rows>>
      BY <2>2, UndisturbedStep
    <3> QED
      BY <2>2, <3>1 DEF AtomicInv, RowsHaveFiles
  <2> QED
    BY <2>1, <2>2
<1> QED
  BY <1>1, <1>2, <1>3, <1>4 DEF AtomicInv

\* A step of the tool is a step of AtomicBatch, or nothing that a caller sees.
LEMMA StepIsAtomic ==
  ASSUME Undisturbed, BatchInv, BatchInv', ResultInv, ResultInv', AtomicInv, [BatchNext]_vars
  PROVE  [Promise!Next]_<<IF pc = "idle" THEN files ELSE files0, IF pc = "idle" THEN rows ELSE saved>>
<1> DEFINE shown == <<IF pc = "idle" THEN files ELSE files0, IF pc = "idle" THEN rows ELSE saved>>
<1>1. CASE pc # "idle" /\ pc' # "idle"
  <2>1. UNCHANGED <<files0, saved>>
    BY <1>1, UndisturbedStep
  <2> QED
    BY <1>1, <2>1
<1>2. CASE pc = "idle" /\ pc' # "idle"
  <2>1. files0' = files /\ saved' = rows
    BY <1>2, UndisturbedStep
  <2> QED
    BY <1>2, <2>1
<1>3. CASE pc = "idle" /\ pc' = "idle"
  <2>1. UNCHANGED <<files, rows>>
    BY <1>3, UndisturbedStep
  <2> QED
    BY <1>3, <2>1
<1>4. CASE pc # "idle" /\ pc' = "idle"
  <2>1. UNCHANGED <<files0, saved, batch>> /\ Settled'
    BY <1>4, UndisturbedStep, NextKeepsAtomic
  <2>2. CASE files' = files0' /\ rows' = saved'
    BY <1>4, <2>1, <2>2
  <2>3. CASE outcome' = "applied" /\ Final'.ok /\ files' = Final'.files /\ rows' = Final'.rows
    <3>1. batch \in Batches
      BY <1>4, <2>3, UndisturbedStep DEF ResultInv, Running
    <3>2. Final' = Promise!Result(files0, saved, batch)
      BY <2>1, SameResult DEF Final
    <3>3. Promise!Apply(batch)
      BY <1>4, <2>3, <3>2 DEF Promise!Apply
    <3> QED
      BY <3>1, <3>3 DEF Promise!Next
  <2> QED
    BY <2>1, <2>2, <2>3 DEF Settled
<1> QED
  BY <1>1, <1>2, <1>3, <1>4

\* "Execute multiple mutation operations atomically.  All operations succeed or all
\* roll back": the tool implements AtomicBatch when nothing disturbs it.
THEOREM BatchIsAtomic ==
  ASSUME Undisturbed
  PROVE  BatchSpec => Atomic
<1>1. BatchInit => AtomicInv /\ Promise!Init
  BY DEF BatchInit, AtomicInv, Distinct, RowsHaveFiles, Undisturbed, Init, Promise!Init
<1>2. BatchInv /\ BatchInv' /\ ResultInv /\ ResultInv' /\ AtomicInv /\ [BatchNext]_vars =>
        AtomicInv' /\
        [Promise!Next]_<<IF pc = "idle" THEN files ELSE files0, IF pc = "idle" THEN rows ELSE saved>>
  BY NextKeepsAtomic, StepIsAtomic
<1>3. BatchSpec => [](BatchInv /\ ResultInv)
  BY ResultInvHolds DEF Undisturbed
<1> QED
  BY <1>1, <1>2, <1>3, PTL DEF BatchSpec, Atomic, Promise!Spec
=============================================================================
