----------------------------- MODULE NodeTools -----------------------------
(***************************************************************************)
(* The tools that change one node, and the version counter that lets their *)
(* callers detect that the node has changed since they read it:            *)
(*                                                                         *)
(*   update-node   new content; with a new title also a rename, with a new *)
(*                 directory also a move (add-type-to-node and             *)
(*                 remove-type-from-node are updates of the types)         *)
(*   rename-node   new title and directory, links to the node rewritten    *)
(*   delete-node, and the undo of a deletion                               *)
(*                                                                         *)
(* beside the watcher and the startup index, which take up what users save.*)
(* A tool runs to its end without awaiting, so a call is one step; its     *)
(* intermediate states are the values of an operator on "worlds", records  *)
(* of the rows and the files.  What a user does to a file between two      *)
(* system calls of a tool is the subject of VaultSync.                     *)
(***************************************************************************)
EXTENDS Naturals, FiniteSets

CONSTANTS
  Nodes,       \* node ids
  Clients,     \* callers that remember versions
  Titles, Dirs,
  Length,      \* of a directory's path: the shortest path wins an ambiguous link
  Texts, Invalid,          \* Invalid: the texts that validation refuses from a tool
  NoLink, NoRow, NoFile, None,
  Start,       \* the rows the database begins with
  Inputs,      \* the contents that callers and users write
  Ops,         \* the operations that are in use
  MaxVersion, MaxSaves     \* bounds of the model

Unchecked == 0     \* a call without expected_version

Place   == [dir : Dirs, title : Titles]                        \* a file path
Content == [text : Texts, link : Titles \cup {NoLink}]         \* a node, or a file
Row     == [version : Nat, place : Place, content : Content, hash : Content \cup {None}]
Seen    == [version : Nat, place : Place, content : Content]   \* what get-node answers

ASSUME NodeToolsConstants ==
  /\ Length \in [Dirs -> Nat] /\ \A d, e \in Dirs : Length[d] = Length[e] => d = e
  /\ Invalid \subseteq Texts /\ NoLink \notin Titles
  /\ NoRow \notin Row /\ None \notin Seen /\ NoFile \notin Content
  /\ Start \in [Nodes -> Row \cup {NoRow}] /\ Inputs \subseteq Content
  \* db/schema.ts:13,20: file_path is UNIQUE, and versions begin at 1
  /\ \A n \in Nodes : Start[n] # NoRow => Start[n].version # Unchecked
  /\ \A m, n \in Nodes : m # n /\ Start[m] # NoRow /\ Start[n] # NoRow
                           => Start[m].place # Start[n].place
  /\ None \notin Clients /\ MaxVersion \in Nat /\ MaxSaves \in Nat
  /\ Ops \subseteq {"save", "watch", "startup", "update", "title", "move",
                    "rename", "delete", "undo"}

VARIABLES
  row,     \* nodes: id -> row
  disk,    \* files: path -> content
  trash,   \* undo_snapshots: the node as the last delete-node found it
  held,    \* what each client has last been told of each node
  reply,   \* the answer to the last call
  saves    \* counter of the bound

vars == <<row, disk, trash, held, reply, saves>>

NoReply == [by |-> None, node |-> None, expected |-> Unchecked, outcome |-> "none"]

View(r) == [version |-> r.version, place |-> r.place, content |-> r.content]

Init ==
  /\ row = Start
  /\ disk = [p \in Place |->
       IF \E n \in Nodes : Start[n] # NoRow /\ Start[n].place = p
         THEN (CHOOSE r \in {Start[n] : n \in Nodes} : r # NoRow /\ r.place = p).content
         ELSE NoFile]
  /\ trash = [n \in Nodes |-> None]
  /\ held = [c \in Clients |-> [n \in Nodes |-> None]]
  /\ reply = NoReply /\ saves = 0

-----------------------------------------------------------------------------
(* Steps of a tool: each takes a world [row, disk, out] and returns one. *)

After(r, d, why) == [row |-> r, disk |-> d, out |-> why]

World == After(row, disk, "ok")

\* Nothing is done, for some reason.
Refuse(w, why) == After(w.row, w.disk, why)

Live(w, n) == w.row[n] # NoRow

\* Variant of Stale for testing OverwritesOnlyWhatWasRead and StaleChangesNothing: an older version passes.
Behind(w, n, expected) == expected > w.row[n].version

Stale(w, n, expected) == expected # Unchecked /\ expected # w.row[n].version

\* Neither the file nor the row would change.
NoOp(w, n, c) == w.disk[w.row[n].place] = c /\ w.row[n].hash = c

\* Stage 6: the file and the row, with the next version.
Written(w, n, c) ==
  After([w.row EXCEPT ![n] = [version |-> @.version + 1, place |-> @.place,
                              content |-> c, hash |-> c]],
        [w.disk EXCEPT ![w.row[n].place] = c], "ok")

\* executeMutation for a tool: validation, then the no-op rule, then the version.
Mutate(w, n, c, expected) ==
  CASE c.text \in Invalid -> Refuse(w, "error")
    [] c.text \notin Invalid /\ NoOp(w, n, c) -> Refuse(w, "noop")
    [] c.text \notin Invalid /\ ~NoOp(w, n, c) /\ Stale(w, n, expected) -> Refuse(w, "stale")
    [] OTHER -> Written(w, n, c)

Titled(w, t) == {n \in Nodes : Live(w, n) /\ w.row[n].place.title = t}

\* The node a link means: the one of that title with the shortest path.
Resolves(w, t, n) ==
  /\ n \in Titled(w, t)
  /\ \A m \in Titled(w, t) : Length[w.row[n].place.dir] <= Length[w.row[m].place.dir]

Referrers(w, n) ==
  {m \in Nodes \ {n} : Live(w, m) /\ Resolves(w, w.row[m].content.link, n)}

Relinked(w, m, t) == [w.row[m].content EXCEPT !.link = t]

\* A file goes to another path.
FileMoved(d, old, p) == [d EXCEPT ![p] = d[old], ![old] = NoFile]

\* The file is at its new path, and so is the row; when the file is missing, only the row.
Renamed(w, n, p) ==
  LET old == w.row[n].place IN
  After([w.row EXCEPT ![n] = [version |-> @.version + 1, place |-> p,
                              content |-> @.content, hash |-> @.hash]],
        IF p = old \/ w.disk[old] = NoFile THEN w.disk ELSE FileMoved(w.disk, old, p), "ok")

\* The other nodes of "refs", with their links to n's old title rewritten.
Rewritten(w, refs, t) ==
  LET rewritten(m) == Mutate(w, m, Relinked(w, m, t), Unchecked) IN
  After([m \in Nodes |-> IF m \in refs THEN rewritten(m).row[m] ELSE w.row[m]],
        [p \in Place |->
           IF \E m \in refs : w.row[m].place = p
             THEN rewritten(CHOOSE m \in refs : w.row[m].place = p).disk[p]
             ELSE w.disk[p]], "ok")

\* One of the nodes that a rename writes is refused by validation.
RenameThrows(w, n) == \E m \in {n} \cup Referrers(w, n) : w.row[m].content.text \in Invalid

\* executeRename, when nothing throws: the node is rendered at its new path, and then
\* every node that refers to it.
Rename(w, n, p) ==
  Rewritten(Mutate(Renamed(w, n, p), n, w.row[n].content, Unchecked), Referrers(w, n), p.title)

\* Where executeRename throws: when the file has moved, and then, unless the node
\* itself was refused, when the node and some of those that refer to it are written.
Thrown(w, n, p) ==
  LET valid   == {m \in Referrers(w, n) : w.row[m].content.text \notin Invalid}
      renamed == Mutate(Renamed(w, n, p), n, w.row[n].content, Unchecked)
  IN IF renamed.out = "error" THEN {Renamed(w, n, p)}
     ELSE {Rewritten(renamed, done, p.title) : done \in SUBSET valid}

\* Variant of WritesUndone for testing RefusedChangesNothing: only the move is taken back.
WritesKept(before, v) == v.disk

\* The undo steps of executeMutation: a file that still holds what was rendered gets
\* back what it held before; a file that was not there is removed.
WritesUndone(before, v) ==
  [q \in Place |->
     IF \E m \in Nodes : /\ Live(v, m) /\ v.row[m] # before.row[m]
                        /\ v.row[m].place = q /\ v.row[m].content = v.disk[q]
       THEN before.disk[q] ELSE v.disk[q]]

\* Variant of MovedBack for testing RowHasFile: the file stays at its new path.
NotMovedBack(w, n, p, d) == d

\* The undo step of the move, if there was one: when the old path is free.
MovedBack(w, n, p, d) ==
  LET old == w.row[n].place IN
  IF p # old /\ w.disk[old] # NoFile /\ d[p] # NoFile /\ d[old] = NoFile
    THEN FileMoved(d, p, old) ELSE d

\* rename-node runs the undo steps in reverse order: what was written first is restored last.
Unwound(w, n, p, v) == MovedBack(w, n, p, WritesUndone(Renamed(w, n, p), v))

\* moveNodeFile: outside any transaction, and the version stays.
Moved(w, n, p) ==
  After([w.row EXCEPT ![n] = [version |-> @.version, place |-> p,
                              content |-> @.content, hash |-> None]],
        FileMoved(w.disk, w.row[n].place, p), "ok")

Taken(w, p) == (\E m \in Nodes : Live(w, m) /\ w.row[m].place = p) \/ w.disk[p] # NoFile

-----------------------------------------------------------------------------
(* Calls *)

\* A client sends the version it remembers; a caller without a name sends none.
Expected(c, n) ==
  IF c = None THEN {Unchecked}
  ELSE {held[d][n].version : d \in {d \in Clients : d = c /\ held[d][n] # None}}

Bounded(w) == \A n \in Nodes : Live(w, n) => w.row[n].version <= MaxVersion

\* A success and a STALE_NODE both tell the caller the node's version and state.
Answer(c, n, expected, w) ==
  /\ Bounded(w)
  /\ row' = w.row /\ disk' = w.disk
  /\ reply' = [by |-> c, node |-> n, expected |-> expected, outcome |-> w.out]
  /\ held' = IF w.out \in {"ok", "noop", "stale"} /\ Live(w, n) /\ c # None
               THEN [held EXCEPT ![c][n] = View(w.row[n])] ELSE held
  /\ UNCHANGED saves

Read(c, n) ==
  /\ row[n] # NoRow
  /\ held' = [held EXCEPT ![c][n] = View(row[n])] /\ reply' = NoReply
  /\ UNCHANGED <<row, disk, trash, saves>>

Update(c, n, content, expected) ==
  /\ "update" \in Ops /\ row[n] # NoRow
  /\ Answer(c, n, expected, Mutate(World, n, content, expected))
  /\ UNCHANGED trash

\* update-node with set_title: an update, and then a rename that is not checked and
\* passes no list of undo steps: when it throws, the rows of the update and the files remain.
UpdateTitle(c, n, content, p, expected) ==
  /\ "title" \in Ops /\ row[n] # NoRow /\ p.title # row[n].place.title
  /\ LET updated == Mutate(World, n, content, expected)
     IN \/ /\ Taken(World, p)
           /\ Answer(c, n, expected, Refuse(World, "conflict"))
        \/ /\ ~Taken(World, p) /\ updated.out \in {"error", "stale"}
           /\ Answer(c, n, expected, updated)
        \/ /\ ~Taken(World, p) /\ updated.out \in {"ok", "noop"} /\ ~RenameThrows(updated, n)
           /\ Answer(c, n, expected, Rename(updated, n, p))
        \/ /\ ~Taken(World, p) /\ updated.out \in {"ok", "noop"} /\ RenameThrows(updated, n)
           /\ \E v \in Thrown(updated, n, p) :
                Answer(c, n, expected, After(updated.row, v.disk, "error"))
  /\ UNCHANGED trash

\* update-node with set_directory: the file moves before the version is looked at.
UpdateDirectory(c, n, content, d, expected) ==
  /\ "move" \in Ops /\ row[n] # NoRow /\ d # row[n].place.dir
  /\ LET p == [row[n].place EXCEPT !.dir = d] IN
        \/ /\ Taken(World, p)
           /\ Answer(c, n, expected, Refuse(World, "conflict"))
        \/ /\ ~Taken(World, p) /\ (content.text \in Invalid \/ disk[row[n].place] = NoFile)
           /\ Answer(c, n, expected, Refuse(World, "error"))
        \/ /\ ~Taken(World, p) /\ content.text \notin Invalid /\ disk[row[n].place] # NoFile
           /\ Answer(c, n, expected, Mutate(Moved(World, n, p), n, content, expected))
  /\ UNCHANGED trash

\* rename-node: one transaction, and a list of undo steps for the files.
RenameNode(c, n, p, expected) ==
  /\ "rename" \in Ops /\ row[n] # NoRow
  /\ LET conflict == p # row[n].place /\ Taken(World, p)
         stale    == Stale(World, n, expected)
     IN \/ /\ conflict
           /\ Answer(c, n, expected, Refuse(World, "conflict"))
        \/ /\ ~conflict /\ stale
           /\ Answer(c, n, expected, Refuse(World, "stale"))
        \/ /\ ~conflict /\ ~stale /\ RenameThrows(World, n)
           /\ \E v \in Thrown(World, n, p) :
                Answer(c, n, expected, After(row, Unwound(World, n, p, v), "error"))
        \/ /\ ~conflict /\ ~stale /\ ~RenameThrows(World, n)
           /\ Answer(c, n, expected, Rename(World, n, p))
  /\ UNCHANGED trash

DeleteNode(c, n, expected) ==
  /\ "delete" \in Ops /\ row[n] # NoRow
  /\ IF Stale(World, n, expected)
       THEN Answer(c, n, expected, Refuse(World, "stale")) /\ UNCHANGED trash
       ELSE /\ Answer(c, n, expected,
                 After([row EXCEPT ![n] = NoRow], [disk EXCEPT ![row[n].place] = NoFile], "ok"))
            /\ trash' = [trash EXCEPT ![n] = View(row[n])]

-----------------------------------------------------------------------------
(* Everyone else *)

Quiet == reply' = NoReply /\ UNCHANGED held

\* Variant of Restored for testing OneRowPerPath: an occupied path does not count.
RestoredAnyway(n) == TRUE

Restored(n) == \A m \in Nodes : row[m] # NoRow => row[m].place # trash[n].place

\* undo-operations of a deletion; a conflict is skipped, and the operation is done.
UndoDelete(n) ==
  /\ "undo" \in Ops /\ trash[n] # None
  /\ IF Restored(n)
       THEN /\ row' = [row EXCEPT ![n] =
                  [version |-> 1, place |-> trash[n].place, content |-> trash[n].content,
                   hash |-> trash[n].content]]
            /\ disk' = [disk EXCEPT ![trash[n].place] = trash[n].content]
       ELSE UNCHANGED <<row, disk>>
  /\ trash' = [trash EXCEPT ![n] = None]
  /\ Quiet /\ UNCHANGED saves

Save(p, c) ==
  /\ "save" \in Ops /\ disk[p] # NoFile /\ c # disk[p] /\ saves < MaxSaves
  /\ disk' = [disk EXCEPT ![p] = c] /\ saves' = saves + 1
  /\ Quiet /\ UNCHANGED <<row, trash>>

\* Variant of Fresh for testing NodeTypeOK: a missing file differs, too.
Differs(n) == disk[row[n].place] # row[n].hash

Fresh(n) == LET text == disk[row[n].place] IN text # NoFile /\ text # row[n].hash

\* What the startup index does; also a variant of Absorbed, for testing VersionNamesState.
Reindexed(n) ==
  LET text == disk[row[n].place] IN
  [version |-> row[n].version, place |-> row[n].place, content |-> text, hash |-> text]

Absorbed(n) ==
  LET text == disk[row[n].place] IN
  [version |-> row[n].version + 1, place |-> row[n].place, content |-> text, hash |-> text]

\* The watcher: executeMutation, which tolerates what validation refuses a tool.
Watch(n) ==
  /\ "watch" \in Ops /\ row[n] # NoRow /\ Fresh(n) /\ row[n].version < MaxVersion
  /\ row' = [row EXCEPT ![n] = Absorbed(n)]
  /\ Quiet /\ UNCHANGED <<disk, trash, saves>>

\* The startup index: its own upsert, which leaves the version alone.
StartIndex(n) ==
  /\ "startup" \in Ops /\ row[n] # NoRow /\ Fresh(n)
  /\ row' = [row EXCEPT ![n] = Reindexed(n)]
  /\ Quiet /\ UNCHANGED <<disk, trash, saves>>

Call(c, n) ==
  \E expected \in Expected(c, n) :
    \/ \E content \in Inputs :
         \/ Update(c, n, content, expected)
         \/ \E p \in Place : UpdateTitle(c, n, content, p, expected)
         \/ \E d \in Dirs : UpdateDirectory(c, n, content, d, expected)
    \/ \E p \in Place : RenameNode(c, n, p, expected)
    \/ DeleteNode(c, n, expected)

Next ==
  \/ \E c \in Clients, n \in Nodes : Read(c, n)
  \/ \E c \in Clients \cup {None}, n \in Nodes : Call(c, n)
  \/ \E n \in Nodes : UndoDelete(n) \/ Watch(n) \/ StartIndex(n)
  \/ \E p \in Place, c \in Inputs : Save(p, c)

Spec == Init /\ [][Next]_vars

-----------------------------------------------------------------------------
(* Properties *)

\* Every variable has its type, and deleted nodes have a snapshot to come back from.
NodeTypeOK ==
  /\ row \in [Nodes -> Row \cup {NoRow}]
  /\ disk \in [Place -> Content \cup {NoFile}]
  /\ trash \in [Nodes -> Seen \cup {None}]
  /\ held \in [Clients -> [Nodes -> Seen \cup {None}]]
  /\ reply \in [by : Clients \cup {None}, node : Nodes \cup {None}, expected : Nat,
                outcome : {"none", "ok", "noop", "stale", "error", "conflict"}]
  /\ saves \in 0..MaxSaves

\* A version names one state of a node: whoever remembers a version that is
\* still current remembers the current title, directory and content.  It takes one
\* writer that does not raise the version to break this.  Three do not, and are not in
\* use where this is checked: the startup index, the move of update-node, and the undo of a deletion.
VersionNamesState ==
  \A c \in Clients, n \in Nodes :
    /\ held[c][n] # None /\ row[n] # NoRow
    /\ held[c][n].version = row[n].version
    => held[c][n] = View(row[n])

\* A call that names a version and changes the node's row replaces exactly the
\* state its caller has seen, whoever else wrote in between.
OverwritesOnlyWhatWasRead ==
  [][\A c \in Clients, n \in Nodes :
       reply'.by = c /\ reply'.node = n /\ row'[n] # row[n]
       => held[c][n] = View(row[n])]_vars

\* A call that reports a failure has left neither rows nor files changed: a rename that
\* throws has moved and written files by then, also such with edits not taken up yet.
RefusedChangesNothing ==
  [][reply'.outcome \in {"stale", "error", "conflict"} => UNCHANGED <<row, disk>>]_vars

\* A call that succeeds although its version is stale has changed nothing.
StaleChangesNothing ==
  [][\A n \in Nodes :
       /\ reply'.node = n /\ row[n] # NoRow /\ reply'.expected \notin {Unchecked, row[n].version}
       => UNCHANGED <<row, disk>>]_vars

\* Every row's file is where the row says, as long as users delete nothing:
\* tools move rows and files together, also when a referring node makes a
\* rename fail half way.
RowHasFile == \A n \in Nodes : row[n] # NoRow => disk[row[n].place] # NoFile

\* No two nodes claim one path, whatever is renamed, moved, deleted and restored.
OneRowPerPath ==
  \A m, n \in Nodes :
    m # n /\ row[m] # NoRow /\ row[n] # NoRow => row[m].place # row[n].place
=============================================================================
