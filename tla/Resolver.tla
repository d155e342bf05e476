------------------------------ MODULE Resolver ------------------------------
(* The resolved links of the vault.  A link is stored with the text of its   *)
(* target and with the node that text resolved to when its source was last  *)
(* written (relationships.resolved_target_id).  Joins and expansion read the *)
(* stored node; get-node and rename-node resolve the text anew.  Whatever    *)
(* creates, renames, moves or deletes a node has to keep the two in step.    *)
EXTENDS Naturals, SequencesExt

CONSTANTS
  Nodes,       \* identities
  Dirs, Root,  \* directories, and the top of the vault
  Names,       \* file names without ".md", and titles
  FileName,    \* sanitizeFilename: the file name made of a title
  Lower, Nfc,  \* spelling classes: lower case, and lower case of the NFC form
  Length,      \* of a path
  Contents,    \* the sets of links that texts have
  Vault,       \* rows and texts of a database from before the column
  Ops,         \* operations of the instance
  MaxChanges,
  Nothing

Paths    == [dir : Dirs, name : Names]
Rows     == [dir : Dirs, name : Names, title : Names]
Targets  == [dir : Dirs, name : Names, md : BOOLEAN]
Links    == [from : Nodes, to : Targets, field : BOOLEAN]

ASSUME ResolverConstants ==
  /\ IsFiniteSet(Nodes) /\ MaxChanges \in Nat
  /\ Root \in Dirs /\ Nothing \notin Nodes /\ Nothing \notin Rows
  /\ {FileName, Lower, Nfc} \subseteq [Names -> Names]
  /\ \A x \in Names : FileName[FileName[x]] = FileName[x]
  /\ \A x, y \in Names : Lower[x] = Lower[y] => Nfc[x] = Nfc[y]
  /\ Length \in [Paths -> Nat]
  /\ Contents \subseteq SUBSET [to : Targets, field : BOOLEAN]
  /\ Vault.rows \in [Nodes -> Rows \cup {Nothing}]
  /\ \A m, n \in Nodes : m # n /\ Vault.rows[m] # Nothing /\ Vault.rows[n] # Nothing
       => [dir |-> Vault.rows[m].dir, name |-> Vault.rows[m].name]
          # [dir |-> Vault.rows[n].dir, name |-> Vault.rows[n].name]      \* file_path is UNIQUE
  /\ Vault.links \subseteq Links
  /\ \A l \in Vault.links : Vault.rows[l.from] # Nothing

VARIABLES
  rows,      \* nodes: the path and the title
  edge,      \* relationships: the stored node of each link
  version,   \* resolved_targets_version
  last,      \* undo_snapshots of the latest operation
  silent,    \* nodes that got their name without a refresh (history)
  bereft,    \* links whose node was deleted since they were resolved (history)
  late,      \* <<s, n>>: n got its name after the links of s were resolved (history)
  changes

vars == <<rows, edge, version, last, silent, bereft, late, changes>>

Here        == [rows |-> rows, edge |-> edge]
Present(r)  == {n \in Nodes : r[n] # Nothing}
PathOf(row) == [dir |-> row.dir, name |-> row.name]
Bare(title) == [dir |-> Root, name |-> title, md |-> FALSE]
Own(e, s)   == {l \in DOMAIN e : l.from = s}

-----------------------------------------------------------------------------
(* Resolution.  A target with ".md" is a path or a file name; one without is *)
(* a title or a name, and then has no directory.                             *)

\* The first tier of resolveTarget in which a node matches a target.
NoTier == 6
Tier(t, row) ==
  IF t.md /\ t.dir = row.dir /\ t.name = row.name THEN 1
  ELSE IF t.dir # Root                              THEN NoTier
  ELSE IF ~t.md /\ t.name = row.title               THEN 2
  ELSE IF t.name = row.name                         THEN 3
  ELSE IF Lower[t.name] = Lower[row.name]           THEN 4
  ELSE IF Nfc[t.name] = Nfc[row.name]               THEN 5
  ELSE NoTier

Matches(t, row) == Tier(t, row) # NoTier

\* A match in an earlier tier, or in the same tier with a shorter path.
Before(r, tier, m, n) ==
  tier[m] < tier[n] \/ (tier[m] = tier[n] /\ Length[PathOf(r[m])] < Length[PathOf(r[n])])

\* resolveTarget.  pickShortest leaves nodes with paths of one length in the order of their
\* rows; here any of them is taken, and the same one every time.
Resolve(r, t) ==
  LET tier == [n \in Present(r) |-> Tier(t, r[n])]
      hits == {n \in DOMAIN tier : tier[n] # NoTier}
  IN IF hits = {} THEN Nothing ELSE CHOOSE n \in hits : \A m \in hits : ~Before(r, tier, m, n)

\* The keys of a node: what refreshOnCreate compares with the text of a target as it
\* stands, so that a name with ".md" is not one of them.
IsKey(t, row) ==
  \/ t = [dir |-> row.dir, name |-> row.name, md |-> TRUE]
  \/ /\ t = Bare(t.name)
     /\ \/ t.name \in {row.title, row.name}
        \/ Lower[t.name] = Lower[row.name]
        \/ Nfc[t.name] = Nfc[row.name]

\* Variant of RefreshOnCreate for testing NullIsUnresolved: the title only.
RefreshByTitle(w, n) ==
  [w EXCEPT !.edge = [l \in DOMAIN w.edge |->
     IF w.edge[l] = Nothing /\ l.to = Bare(w.rows[n].title) THEN n ELSE w.edge[l]]]

RefreshOnCreate(w, n) ==
  [w EXCEPT !.edge = [l \in DOMAIN w.edge |->
     IF w.edge[l] = Nothing /\ IsKey(l.to, w.rows[n]) THEN n ELSE w.edge[l]]]

\* Variant of RefreshOnRename for testing PointsAtMatch: only the node's new keys count.
RefreshNewKeys(w, n) == RefreshOnCreate(w, n)

\* The targets that pointed to the node are resolved anew, for every link with that
\* target that has no node then; after that the node's new keys count.
RefreshOnRename(w, n) ==
  LET affected == {l.to : l \in {x \in DOMAIN w.edge : w.edge[x] = n}}
      renewed  == [l \in DOMAIN w.edge |->
                     IF w.edge[l] \in {n, Nothing} /\ l.to \in affected
                     THEN Resolve(w.rows, l.to) ELSE w.edge[l]]
  IN RefreshOnCreate([w EXCEPT !.edge = renewed], n)

Backfilled(w) ==
  [w EXCEPT !.edge = [l \in DOMAIN w.edge |->
     IF w.edge[l] = Nothing THEN Resolve(w.rows, l.to) ELSE w.edge[l]]]

-----------------------------------------------------------------------------
(* The writers.                                                              *)

\* Variant of Relinked for testing StoredWasBest: a link that stays keeps its node.
RelinkedNew(w, sources, links) ==
  [w EXCEPT !.edge = [l \in links \cup {x \in DOMAIN w.edge : x.from \notin sources} |->
     IF l \in DOMAIN w.edge THEN w.edge[l] ELSE Resolve(w.rows, l.to)]]

\* The links of some sources deleted and inserted anew, each with what it resolves to now.
Relinked(w, sources, links) ==
  [w EXCEPT !.edge = [l \in links \cup {x \in DOMAIN w.edge : x.from \notin sources} |->
     IF l.from \in sources THEN Resolve(w.rows, l.to) ELSE w.edge[l]]]

\* executeMutation: whether it creates or renames is read from the row it finds.
ExecuteMutation(w, n, row, links) ==
  LET after == Relinked([w EXCEPT !.rows[n] = row], {n}, links)
  IN IF w.rows[n] = Nothing THEN RefreshOnCreate(after, n)
     ELSE IF w.rows[n] # row THEN RefreshOnRename(after, n)
     ELSE after

\* Variant of ExecuteDeletion for testing ResolverTypeOK: a link keeps its node.
DeletionLeavingLinks(w, n) ==
  [rows |-> [w.rows EXCEPT ![n] = Nothing],
   edge |-> [l \in DOMAIN w.edge \ Own(w.edge, n) |-> w.edge[l]]]

\* executeDeletion: the foreign keys delete the links of the node and clear those to it.
ExecuteDeletion(w, n) ==
  [rows |-> [w.rows EXCEPT ![n] = Nothing],
   edge |-> [l \in DOMAIN w.edge \ Own(w.edge, n) |->
               IF w.edge[l] = n THEN Nothing ELSE w.edge[l]]]

\* A link of a referring node after a rename: in a body every spelling that resolves
\* to the node is replaced, in a field only the old title itself.
Rewritten(l, pointing, oldTitle, newTitle) ==
  IF IF l.field THEN l.to = Bare(oldTitle) ELSE l.to \in pointing
  THEN [l EXCEPT !.to = Bare(newTitle)] ELSE l

\* executeRename.  The row has its new name before executeMutation looks at it.  If the
\* file is canonical its content stays the same, and the no-op rule leaves its links.
ExecuteRename(w, n, row, canonical) ==
  LET pointing  == {t \in {l.to : l \in DOMAIN w.edge} : Resolve(w.rows, t) = n}
      new(s)    == {Rewritten(l, pointing, w.rows[n].title, row.title) : l \in Own(w.edge, s)}
      referring == {s \in Nodes \ {n} : /\ \E l \in Own(w.edge, s) : l.to \in pointing
                                        /\ new(s) # Own(w.edge, s)}
      updated   == [w EXCEPT !.rows[n] = row]
      rendered  == IF canonical THEN updated
                   ELSE ExecuteMutation(updated, n, row, Own(w.edge, n))
  IN [to    |-> Relinked(rendered, referring, UNION {new(s) : s \in referring}),
      wrote |-> referring \cup (IF canonical THEN {} ELSE {n})]

Snaps(w, set) == [n \in set |-> [row |-> w.rows[n], links |-> Own(w.edge, n)]]
NoSnaps == Snaps(Here, {})

-----------------------------------------------------------------------------
Free(p)        == \A m \in Present(rows) : PathOf(rows[m]) # p
Content(s)     == {{[from |-> s, to |-> l.to, field |-> l.field] : l \in c} : c \in Contents}
RowAt(d, x)    == [dir |-> d, name |-> FileName[x], title |-> x]
Allowed(op)    == op \in Ops /\ version = 1 /\ changes < MaxChanges

\* Commits world w.  `wrote` are the nodes whose links were resolved, and `after` those
\* whose links were resolved when all names had changed; `told` are the nodes whose
\* new names the refreshes have seen.
Commit(w, wrote, after, told, snaps) ==
  LET named == {n \in Nodes : w.rows[n] # rows[n]}
  IN /\ changes' = changes + 1
     /\ rows' = w.rows /\ edge' = w.edge /\ last' = snaps
     /\ silent' = ((silent \cup named) \ told) \cap Present(w.rows)
     /\ late' = {p \in late : p[1] \in Present(w.rows) \ wrote}
                  \cup ((Present(w.rows) \ after) \X named)
     /\ bereft' = {l \in DOMAIN w.edge :
                     /\ l.from \notin wrote
                     /\ l \in bereft \/ (edge[l] # Nothing /\ w.rows[edge[l]] = Nothing)}
     /\ UNCHANGED version

\* create-node, or the watcher at a file it does not know.
Create(n, d, x) ==
  /\ Allowed("create") /\ rows[n] = Nothing /\ n \notin DOMAIN last /\ Free(PathOf(RowAt(d, x)))
  /\ \E links \in Content(n) :
       Commit(ExecuteMutation(Here, n, RowAt(d, x), links), {n}, {n}, {n}, Snaps(Here, {n}))

\* update-node and the other tools that leave the name alone.
Update(n) ==
  /\ Allowed("update") /\ rows[n] # Nothing
  /\ \E links \in Content(n) :
       Commit(ExecuteMutation(Here, n, rows[n], links), {n}, {n}, {}, Snaps(Here, {n}))

\* The watcher takes in a file: its title is its name.
Save(n) ==
  /\ Allowed("save") /\ rows[n] # Nothing
  /\ \E links \in Content(n) :
       LET row == [rows[n] EXCEPT !.title = rows[n].name]
       IN Commit(ExecuteMutation(Here, n, row, links), {n}, {n},
                 IF row = rows[n] THEN {} ELSE {n}, NoSnaps)

\* delete-node, the watcher at an unlink, a sweep at a missing file.
Delete(n) ==
  /\ Allowed("delete") /\ rows[n] # Nothing
  /\ Commit(ExecuteDeletion(Here, n), {}, {}, {}, Snaps(Here, {n}))

\* rename-node.
Rename(n, d, x) ==
  /\ Allowed("rename") /\ rows[n] # Nothing
  /\ Free(PathOf(RowAt(d, x)))
  /\ \E canonical \in BOOLEAN :
       LET done == ExecuteRename(Here, n, RowAt(d, x), canonical)
       IN Commit(done.to, done.wrote, done.wrote, {}, Snaps(Here, {n} \cup done.wrote))

\* update-node with a directory: refused for a title with separators.  The row is at the
\* new path when the mutation starts, and stays there when it fails.
Move(n, d) ==
  /\ Allowed("move") /\ rows[n] # Nothing
  /\ FileName[rows[n].title] = rows[n].title
  /\ LET row   == [rows[n] EXCEPT !.dir = d, !.name = rows[n].title]
         moved == [Here EXCEPT !.rows[n] = row]
     IN /\ Free(PathOf(row))
        /\ \/ Commit(moved, {}, {}, {}, Snaps(Here, {n}))
           \/ Commit(ExecuteMutation(moved, n, row, Own(edge, n)), {n}, {n}, {}, Snaps(Here, {n}))

\* undo-operations for the latest operation: what it created is deleted last.
Undo ==
  /\ Allowed("undo") /\ DOMAIN last # {}
  /\ LET gone     == {n \in DOMAIN last : rows[n] = Nothing}
         created  == {n \in DOMAIN last : last[n].row = Nothing}
         restored(w, n) == IF last[n].row = Nothing THEN ExecuteDeletion(w, n)
                           ELSE ExecuteMutation(w, n, last[n].row, last[n].links)
     IN \E updated \in SetToSeqs(DOMAIN last \ (gone \cup created)) :
          LET order == SetToSeq(gone) \o updated \o SetToSeq(created)
          IN Commit(FoldLeft(restored, Here, order), DOMAIN last, {},
                    {n \in DOMAIN last : rows[n] # last[n].row}, NoSnaps)

-----------------------------------------------------------------------------
(* Startup, and the first look at a new file that does not parse.            *)

\* doIndex: the node's own links only.
Index(n, row) ==
  /\ "index" \in Ops /\ changes < MaxChanges
  /\ \E links \in Content(n) :
       Commit(Relinked([Here EXCEPT !.rows[n] = row], {n}, links), {n}, {n}, {}, NoSnaps)

IndexNew(n, d, x) ==
  rows[n] = Nothing /\ n \notin DOMAIN last /\ Free([dir |-> d, name |-> FileName[x]])
  /\ Index(n, RowAt(d, FileName[x]))

IndexAgain(n) == rows[n] # Nothing /\ Index(n, [rows[n] EXCEPT !.title = rows[n].name])

\* backfillResolvedTargets, once in the life of a database.
Backfill ==
  /\ version = 0 /\ version' = 1
  /\ edge' = Backfilled(Here).edge
  /\ UNCHANGED <<rows, last, silent, bereft, late, changes>>

Init ==
  /\ rows = Vault.rows
  /\ edge = [l \in Vault.links |-> Nothing]
  /\ version = 0 /\ last = NoSnaps /\ changes = 0
  /\ silent = {} /\ bereft = {} /\ late = {}

Next ==
  \/ \E n \in Nodes : Update(n) \/ Save(n) \/ Delete(n) \/ IndexAgain(n)
  \/ \E n \in Nodes, d \in Dirs : Move(n, d)
  \/ \E n \in Nodes, d \in Dirs, x \in Names : Create(n, d, x) \/ Rename(n, d, x) \/ IndexNew(n, d, x)
  \/ Undo
  \/ Backfill

Spec == Init /\ [][Next]_vars

-----------------------------------------------------------------------------
ResolverTypeOK ==
  /\ rows \in [Nodes -> Rows \cup {Nothing}]
  /\ DOMAIN edge \subseteq Links
  /\ \A l \in DOMAIN edge : rows[l.from] # Nothing /\ edge[l] \in Present(rows) \cup {Nothing}
  /\ version \in 0..1 /\ changes \in 0..MaxChanges
  /\ DOMAIN last \subseteq Nodes
  /\ silent \subseteq Present(rows) /\ bereft \subseteq DOMAIN edge /\ late \subseteq Nodes \X Nodes

\* A stored node answers to the target of its link, unless it has changed its name
\* without a refresh since the link was resolved.
PointsAtMatch ==
  \A l \in DOMAIN edge : LET n == edge[l] IN
    n # Nothing => Matches(l.to, rows[n]) \/ (n \in silent /\ <<l.from, n>> \in late)

\* A link without a node resolves to nothing, unless its node was deleted or the node
\* it would resolve to got its name later, without a refresh or by a key that the
\* refresh does not compare.
NullIsUnresolved ==
  \A l \in DOMAIN edge : LET m == Resolve(rows, l.to) IN
    version = 1 /\ edge[l] = Nothing /\ m # Nothing /\ l \notin bereft
      => <<l.from, m>> \in late /\ (m \in silent \/ ~IsKey(l.to, rows[m]))

\* Any node that is a strictly better match than the stored one (of an earlier tier, or
\* of a shorter path) got its name after the link was resolved, unless the stored one has
\* changed its own without a refresh: the stored node was among the best when it was
\* stored.
StoredWasBest ==
  \A l \in DOMAIN edge : LET n == edge[l]
                             tier == [k \in Present(rows) |-> Tier(l.to, rows[k])] IN
    n # Nothing /\ l \notin bereft /\ ~(n \in silent /\ <<l.from, n>> \in late)
      => \A m \in Present(rows) : tier[m] # NoTier /\ Before(rows, tier, m, n) => <<l.from, m>> \in late
=============================================================================
