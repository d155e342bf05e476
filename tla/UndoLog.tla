------------------------------ MODULE UndoLog ------------------------------
(***************************************************************************)
(* The undo log: every tool call that changes nodes is an operation; before *)
(* it changes a node it stores a snapshot of it, once per operation.        *)
(* undo-operations takes a set of operations back, the latest first, each   *)
(* in a transaction of its own, and then repairs the files.  A node that    *)
(* has been changed since is a conflict: it is left alone unless the caller *)
(* asks to have it reverted.                                                *)
(*                                                                          *)
(* A call, an undo included, runs to its end without awaiting, so it is one *)
(* step; its intermediate states are values of operators on "worlds".       *)
(* Users save and erase files at any time, and the watcher or the           *)
(* reconciler takes that up later.                                          *)
(***************************************************************************)
EXTENDS Naturals, Sequences, FiniteSets, SequencesExt

CONSTANTS
  Ids,                 \* the node ids, in the order of the database's index
  Paths, Texts,        \* file paths; the contents of a node or a file
  NoNode, NoFile, Nothing, NoHash,
  Start,               \* the rows the database begins with
  Calls,               \* the calls in use: sequences of steps that share an operation
  MaxChanges           \* bound of the model: operations and saves together

Nodes == ToSet(Ids)
Row == [path : Paths, text : Texts]         \* its content_hash is the hash of the text
Snapshot == [path : Paths, text : Texts, born : BOOLEAN, post : Texts \cup {NoHash}]
Steps == {"create", "update", "move", "relocate", "delete"}
Status == {"active", "undone", "expired", "gone"}

ASSUME UndoConstants ==
  /\ Ids \in Seq(Nodes) /\ Cardinality(Nodes) = Len(Ids)
  /\ NoNode \notin Row /\ NoFile \notin Texts /\ NoHash \notin Texts /\ Nothing \notin Snapshot
  /\ Start \in [Nodes -> Row \cup {NoNode}]
  /\ \A m, n \in Nodes : m # n /\ Start[m] # NoNode /\ Start[n] # NoNode
                          => Start[m].path # Start[n].path        \* file_path is UNIQUE
  /\ Calls \subseteq Seq(Steps) /\ MaxChanges \in Nat

VARIABLES
  row,      \* nodes: id -> row
  disk,     \* files: path -> text
  log,      \* undo_operations with their undo_snapshots, by increasing timestamp
  unused,   \* ids no node has had
  saves,    \* counter of the bound
  answer    \* what the last undo reported

vars == <<row, disk, log, unused, saves, answer>>

NoAnswer == [ops |-> {}, reverted |-> {}, conflicts |-> {}, ok |-> TRUE]

Init ==
  /\ row = Start
  /\ disk = [p \in Paths |->
       IF \E n \in Nodes : Start[n] # NoNode /\ Start[n].path = p
         THEN (CHOOSE r \in {Start[n] : n \in Nodes} : r # NoNode /\ r.path = p).text
         ELSE NoFile]
  /\ log = <<>>
  /\ unused = {n \in Nodes : Start[n] = NoNode}
  /\ saves = 0 /\ answer = NoAnswer

-----------------------------------------------------------------------------
(* The steps of a call: each takes a world [row, disk, snaps, ok]. *)

At(rows, p) == {n \in Nodes : rows[n] # NoNode /\ rows[n].path = p}

Blank == [n \in Nodes |-> Nothing]

Refused(w) == [w EXCEPT !.ok = FALSE]

\* INSERT OR IGNORE: the first snapshot of a node in an operation stays.
Capture(w, n, s) == IF w.snaps[n] = Nothing THEN [w EXCEPT !.snaps[n] = s] ELSE w

\* The snapshot of a node as it is.
Pre(w, n) == [path |-> w.row[n].path, text |-> w.row[n].text, born |-> FALSE, post |-> NoHash]

Hashed(w, n, t) == [w EXCEPT !.snaps[n].post = t]

Written(w, n, p, t) == [w EXCEPT !.row[n] = [path |-> p, text |-> t], !.disk[p] = t]

NoOp(w, n, t) == w.row[n].text = t /\ w.disk[w.row[n].path] = t

Taken(w, p) == At(w.row, p) # {} \/ w.disk[p] # NoFile

Created(w, n, p, t) ==
  IF Taken(w, p) THEN Refused(w)
  ELSE Hashed(Capture(Written(w, n, p, t), n,
         [path |-> p, text |-> t, born |-> TRUE, post |-> NoHash]), n, t)

Updated(w, n, t) ==
  IF NoOp(w, n, t) THEN w
  ELSE Hashed(Written(Capture(w, n, Pre(w, n)), n, w.row[n].path, t), n, t)

\* The file is moved and the node rendered again, which is a no-op unless the
\* file is missing or was edited; the snapshot gets a hash only if it is not.
Moved(w, n, p) ==
  LET old == w.row[n].path
      at  == [Capture(w, n, Pre(w, n)) EXCEPT !.row[n].path = p,
                !.disk = [@ EXCEPT ![p] = w.disk[old], ![old] = NoFile]]
  IN IF Taken(w, p) THEN Refused(w) ELSE Updated(at, n, w.row[n].text)

\* A change of directory clears the hash, so the node is always rendered.
Relocated(w, n, p, t) ==
  LET old == w.row[n].path
      at  == [Capture(w, n, Pre(w, n)) EXCEPT !.disk[old] = NoFile]
  IN IF Taken(w, p) \/ w.disk[old] = NoFile THEN Refused(w) ELSE Hashed(Written(at, n, p, t), n, t)

Deleted(w, n) ==
  [Capture(w, n, Pre(w, n)) EXCEPT !.row[n] = NoNode, !.disk[w.row[n].path] = NoFile]

Stepped(w, step, n, p, t) ==
  CASE step = "create" -> Created(w, n, p, t)
    [] step = "update" -> Updated(w, n, t)
    [] step = "move"   -> Moved(w, n, p)
    [] step = "relocate" -> Relocated(w, n, p, t)
    [] step = "delete" -> Deleted(w, n)

\* A step is on a node that is there; a new node gets an unused id.
Possible(w, step, n) ==
  IF step = "create" THEN n \in unused /\ w.snaps[n] = Nothing ELSE w.row[n] # NoNode

(* create-node, update-node, rename-node, delete-node: one step; update-node *)
(* with a title, batch-mutate: several that share the operation.             *)
Call(steps) ==
  /\ Len(log) + saves < MaxChanges
  /\ \E at \in [DOMAIN steps -> Nodes \X Paths \X Texts] :
       LET Next1(w, i) == IF w.ok /\ Possible(w, steps[i], at[i][1])
                            THEN Stepped(w, steps[i], at[i][1], at[i][2], at[i][3]) ELSE Refused(w)
           w == FoldLeft(Next1, [row |-> row, disk |-> disk, snaps |-> Blank, ok |-> TRUE],
                         [i \in DOMAIN steps |-> i])
       IN /\ w.ok /\ w.snaps # Blank
          /\ row' = w.row /\ disk' = w.disk
          /\ log' = Append(log, [status |-> "active", snaps |-> w.snaps, was |-> row])
          /\ unused' = unused \ {at[i][1] : i \in {j \in DOMAIN steps : steps[j] = "create"}}
  /\ answer' = NoAnswer
  /\ UNCHANGED saves

-----------------------------------------------------------------------------
(* undo-operations *)

\* A later operation that is not undone in this call has a snapshot of the node.
Superseded(l, i, n, inCall) ==
  \E j \in (i + 1)..Len(l) : j \notin inCall /\ l[j].status = "active" /\ l[j].snaps[n] # Nothing

\* Variant of Drifted for testing EditsSurvive: the hash is not compared.
DriftedNever(rows, n, s) == FALSE

Drifted(rows, n, s) == rows[n] # NoNode /\ s.post # NoHash /\ rows[n].text # s.post

PathOccupied(rows, n, s) == rows[n] = NoNode /\ At(rows, s.path) # {}

Snapped(l, i) == {n \in Nodes : l[i].snaps[n] # Nothing}

Conflicted(w, i, inCall) ==
  {n \in Snapped(w.log, i) : LET s == w.log[i].snaps[n] IN
     ~s.born /\ (PathOccupied(w.row, n, s) \/ Drifted(w.row, n, s) \/ Superseded(w.log, i, n, inCall))}

\* Variant of PutBack for testing UndoTypeOK: a path may be taken twice.
PutBackAnyway(w, n, s) == [w EXCEPT !.row[n] = [path |-> s.path, text |-> s.text]]

\* executeMutation for undo: the row only; the paths of the rows are unique.
PutBack(w, n, s) ==
  CASE w.row[n] # NoNode /\ w.row[n].text = s.text /\ w.disk[s.path] = s.text -> w   \* a no-op
    [] OTHER -> IF At(w.row, s.path) \ {n} # {} THEN Refused(w)
                ELSE [w EXCEPT !.row[n] = [path |-> s.path, text |-> s.text]]

\* Variant of FileEffects for testing RestoredHaveFiles: the files go after the renders.
FileEffectsLate(w, s, deletes, writes) ==
  [w EXCEPT !.disk = [p \in Paths |->
     IF \E n \in deletes : s[n].path = p THEN NoFile
     ELSE IF \E n \in writes : w.row[n] # NoNode /\ w.row[n].path = p
       THEN w.row[CHOOSE n \in writes : w.row[n] # NoNode /\ w.row[n].path = p].text
     ELSE w.disk[p]]]

\* Variant of FileEffects for testing OthersStay: the paths are cleared first.
FileEffectsCleared(w, s, deletes, writes) ==
  [w EXCEPT !.disk = [p \in Paths |->
     IF \E n \in writes : w.row[n] # NoNode /\ w.row[n].path = p
       THEN w.row[CHOOSE n \in writes : w.row[n] # NoNode /\ w.row[n].path = p].text
     ELSE IF \E n \in deletes \cup writes : s[n].path = p THEN NoFile
     ELSE w.disk[p]]]

\* First the files of the nodes that are gone, at the paths of their snapshots,
\* then the nodes that were put back, where they are now.
FileEffects(w, s, deletes, writes) ==
  [w EXCEPT !.disk = [p \in Paths |->
     IF \E n \in writes : w.row[n] # NoNode /\ w.row[n].path = p
       THEN w.row[CHOOSE n \in writes : w.row[n] # NoNode /\ w.row[n].path = p].text
     ELSE IF \E n \in deletes : s[n].path = p THEN NoFile
     ELSE w.disk[p]]]

\* Those of the nodes that are in "some", in the order of their ids.
PutAllBack(w, s, some) ==
  LET One(x, n) == IF n \in some /\ x.ok THEN PutBack(x, n, s[n]) ELSE x
  IN FoldLeft(One, w, Ids)

(* One operation in its transaction: nodes that are gone come back, then the   *)
(* others get their old state, then the nodes it created go.  It is marked     *)
(* undone even when conflicts were left; when a path is taken, it is rolled    *)
(* back and the call ends there.                                               *)
RestoreOperation(w, i, inCall, reverted) ==
  LET s         == w.log[i].snaps
      conflicts == Conflicted(w, i, inCall)
      todo      == Snapped(w.log, i) \ (conflicts \ reverted)
      deletes   == {n \in todo : s[n].born}
      creates   == {n \in todo \ deletes : w.row[n] = NoNode}
      updates   == todo \ (deletes \cup creates)
      put       == PutAllBack(PutAllBack(w, s, creates), s, updates)
      reported  == w.conflicts \cup {<<i, n>> : n \in conflicts}
      gone      == [put EXCEPT !.row = [n \in Nodes |-> IF n \in deletes THEN NoNode ELSE put.row[n]],
                               !.log[i].status = "undone", !.conflicts = reported]
  IN IF put.ok THEN FileEffects(gone, s, deletes, creates \cup updates)
     ELSE [Refused(w) EXCEPT !.conflicts = reported]

Active(l) == {i \in DOMAIN l : l[i].status = "active"}

\* Variant of ReverseChronological for testing RestoresWhatWasThere: the earliest first.
Chronological == [k \in DOMAIN log |-> k]

ReverseChronological == [k \in DOMAIN log |-> Len(log) + 1 - k]

\* restoreMany: the latest first; only active operations are accepted.
RestoreMany(ops, reverted) ==
  LET One(w, i) == IF i \in ops /\ w.ok THEN RestoreOperation(w, i, ops, reverted) ELSE w
  IN FoldLeft(One, [row |-> row, disk |-> disk, log |-> log, conflicts |-> {}, ok |-> TRUE],
              ReverseChronological)

UndoOperations ==
  \E ops \in SUBSET Active(log) \ {{}}, reverted \in SUBSET Nodes :
    LET w == RestoreMany(ops, reverted) IN
    /\ reverted \subseteq {c[2] : c \in w.conflicts}
    /\ row' = w.row /\ disk' = w.disk /\ log' = w.log
    /\ answer' = [ops |-> ops, reverted |-> reverted, conflicts |-> w.conflicts, ok |-> w.ok]
    /\ UNCHANGED <<unused, saves>>

\* runUndoCleanup: the operations up to c are past their retention.
Cleanup ==
  \E c \in DOMAIN log :
    /\ log' = [i \in DOMAIN log |->
         CASE log[i].status = "expired" \/ (log[i].status = "undone" /\ i <= c) ->
                [status |-> "gone", snaps |-> Blank, was |-> Start]
           [] log[i].status = "active" /\ i <= c -> [log[i] EXCEPT !.status = "expired"]
           [] OTHER -> log[i]]
    /\ answer' = NoAnswer
    /\ UNCHANGED <<row, disk, unused, saves>>

-----------------------------------------------------------------------------
(* Users, and the watcher and the reconciler that follow them. *)

Save(p, t) ==
  /\ Len(log) + saves < MaxChanges /\ disk[p] # t
  /\ disk' = [disk EXCEPT ![p] = t] /\ saves' = saves + 1
  /\ answer' = NoAnswer
  /\ UNCHANGED <<row, log, unused>>

Notice(p) ==
  /\ \/ disk[p] # NoFile /\ \E n \in At(row, p) :
          row[n].text # disk[p] /\ row' = [row EXCEPT ![n].text = disk[p]] /\ unused' = unused
     \/ disk[p] # NoFile /\ At(row, p) = {} /\ \E n \in unused :
          row' = [row EXCEPT ![n] = [path |-> p, text |-> disk[p]]] /\ unused' = unused \ {n}
     \/ disk[p] = NoFile /\ \E n \in At(row, p) :
          row' = [row EXCEPT ![n] = NoNode] /\ unused' = unused
  /\ answer' = NoAnswer
  /\ UNCHANGED <<disk, log, saves>>

Next ==
  \/ \E steps \in Calls : Call(steps)
  \/ UndoOperations
  \/ Cleanup
  \/ \E p \in Paths, t \in Texts \cup {NoFile} : Save(p, t)
  \/ \E p \in Paths : Notice(p)

Spec == Init /\ [][Next]_vars

-----------------------------------------------------------------------------
(* Properties *)

\* Rows, files and snapshots have their shapes, and no two nodes claim a path.
UndoTypeOK ==
  /\ row \in [Nodes -> Row \cup {NoNode}] /\ disk \in [Paths -> Texts \cup {NoFile}]
  /\ \A p \in Paths : Cardinality(At(row, p)) <= 1
  /\ \A i \in DOMAIN log : log[i].status \in Status
                           /\ log[i].snaps \in [Nodes -> Snapshot \cup {Nothing}]
  /\ \A n \in unused : row[n] = NoNode

Undone(n) == {i \in answer'.ops : log[i].snaps[n] # Nothing}
First(n) == CHOOSE i \in Undone(n) : \A j \in Undone(n) : i <= j
Settled(n) == Undone(n) # {} /\ \A i \in Undone(n) : <<i, n>> \notin answer'.conflicts

\* The node has been at another path since the first of the operations.
Displaced(n) ==
  LET there == log[First(n)].was[n] IN
  there # NoNode /\ \E r \in {row[n]} \cup {log[i].was[n] : i \in Undone(n)} :
                      r # NoNode /\ r.path # there.path

\* A file or a node is at the path, or a node comes there while the operations are
\* taken back.
Contested(n, p) ==
  \/ disk[p] # NoFile \/ At(row, p) # {}
  \/ \E i \in answer'.ops, m \in Nodes :
       <<i, m>> # <<First(n), n>> /\ log[i].snaps[m] # Nothing /\ log[i].snaps[m].path = p

\* An undo that succeeds brings each node back to what it was before the first of
\* the operations it takes back, unless it reports a conflict for the node.  A node
\* that has been moved may stay where it is when there is a file at its old path:
\* if that says what the node said, the code takes the node for restored.
RestoresWhatWasThere ==
  [][answer'.ok => \A n \in Nodes :
       LET there == log[First(n)].was[n] IN
       Settled(n) => \/ row'[n] = there
                     \/ Displaced(n) /\ Contested(n, there.path)]_vars

\* What was written to a node after the operations that are taken back, and none of
\* them had left there, stays, unless the caller asks to revert the node or takes
\* back its creation.  An operation that left no hash (it only moved) does not protect.
EditsSurvive ==
  [][answer'.ok => \A n \in Nodes :
         /\ Undone(n) # {} /\ row[n] # NoNode /\ n \notin answer'.reverted
         /\ \A i \in Undone(n) : ~log[i].snaps[n].born /\ log[i].snaps[n].post \notin {NoHash, row[n].text}
       => row'[n] = row[n]]_vars

\* The operation created the node there.
BornAt(i, n, p) == log[i].snaps[n] # Nothing /\ log[i].snaps[n].born /\ log[i].snaps[n].path = p

\* A node created by one of the operations is no longer where it was created.
LeftBirthplace(p) ==
  \E i \in answer'.ops, n \in Nodes : BornAt(i, n, p) /\ (row[n] = NoNode \/ row[n].path # p)

\* A node created at p by one of the operations before i is elsewhere when its turn
\* to go comes: now, or as another of the operations found it.
CarriedAway(i, p) ==
  \E j \in answer'.ops, n \in Nodes : j < i /\ BornAt(j, n, p) /\
    \/ row[n] = NoNode \/ row[n].path # p
    \/ \E k \in Undone(n) : log[k].snaps[n].path # p

\* Each node that an undo puts back has a file with its content, unless that is where
\* it takes another for created, later in the call, that is elsewhere when its turn comes.
RestoredHaveFiles ==
  [][answer'.ok => \A n \in Nodes :
       Settled(n) /\ row'[n] # NoNode /\ ~CarriedAway(First(n), row'[n].path)
         => disk'[row'[n].path] = row'[n].text]_vars

\* An undo leaves the nodes that its operations did not change alone, and their files.
OthersUntouched ==
  [][\A n \in Nodes : Undone(n) = {} /\ answer'.ops # {} =>
       /\ row'[n] = row[n]
       /\ row[n] # NoNode => disk'[row[n].path] = disk[row[n].path]]_vars

\* The same, except a file at a path where it takes a node for created that has gone.
OthersStay ==
  [][\A n \in Nodes : Undone(n) = {} /\ answer'.ops # {} =>
       /\ row'[n] = row[n]
       /\ row[n] # NoNode /\ ~LeftBirthplace(row[n].path)
            => disk'[row[n].path] = disk[row[n].path]]_vars
=============================================================================
