--------------------------- MODULE UndoLog_proofs ---------------------------
(***************************************************************************)
(* What calls and their undo do to nodes, files and the log, for any calls *)
(* and any set of operations taken back.                                   *)
(***************************************************************************)
EXTENDS UndoLog, SequenceFacts

Entry == [status : Status, snaps : [Nodes -> Snapshot \cup {Nothing}], was : [Nodes -> Row \cup {NoNode}]]

\* No two nodes are at one path.
Apart(rows) ==
  \A m, n \in Nodes : m # n /\ rows[m] # NoNode /\ rows[n] # NoNode => rows[m].path # rows[n].path

\* A snapshot says what the node was before the operation.
Says(s, there) ==
  s # Nothing => IF s.born THEN there = NoNode
                 ELSE there # NoNode /\ s.path = there.path /\ s.text = there.text

-----------------------------------------------------------------------------
(* Putting nodes back: the worlds of an undo. *)

Worlds == [row : [Nodes -> Row \cup {NoNode}], disk : [Paths -> Texts \cup {NoFile}],
           log : Seq(Entry), conflicts : SUBSET (Nat \X Nodes), ok : BOOLEAN]

Orderly == {w \in Worlds : Apart(w.row)}

Snaps == [Nodes -> Snapshot \cup {Nothing}]

\* What becomes of a node that is put back: what its snapshot says, or what it was
\* when its content and the file at the path of the snapshot are the same.
Back(old, new, s, d) ==
  \/ new = [path |-> s.path, text |-> s.text]
  \/ old # NoNode /\ new = old /\ old.text = s.text /\ d[s.path] = s.text

\* v is w with other rows.
SameButRows(w, v) == v.disk = w.disk /\ v.log = w.log /\ v.conflicts = w.conflicts

\* Rows and no more change, and those only to what PutBack makes of them.
LEMMA PutBackOne ==
  ASSUME NEW w \in Orderly, NEW n \in Nodes, NEW s \in Snapshot, NEW v, v = PutBack(w, n, s)
  PROVE  /\ v \in Orderly /\ SameButRows(w, v)
         /\ v.ok => w.ok /\ Back(w.row[n], v.row[n], s, w.disk)
         /\ \A m \in Nodes \ {n} : v.row[m] = w.row[m]
<1> DEFINE new == [path |-> s.path, text |-> s.text]
<1>1. w \in Worlds /\ Apart(w.row) /\ s.path \in Paths /\ s.text \in Texts
  BY DEF Orderly, Snapshot
<1>2. CASE v = w /\ w.row[n] # NoNode /\ w.row[n].text = s.text /\ w.disk[s.path] = s.text
  BY <1>1, <1>2 DEF SameButRows, Back, Orderly
<1>3. CASE v = Refused(w)
  BY <1>1, <1>3 DEF Refused, SameButRows, Worlds, Orderly
<1>4. CASE v = [w EXCEPT !.row[n] = new] /\ At(w.row, s.path) \ {n} = {}
  <2>1. new \in Row /\ new # NoNode /\ new.path = s.path
    BY <1>1, UndoConstants DEF Row
  <2>2. /\ v.row = [w.row EXCEPT ![n] = new] /\ w.row \in [Nodes -> Row \cup {NoNode}]
        /\ v.disk = w.disk /\ v.log = w.log /\ v.conflicts = w.conflicts /\ v.ok = w.ok
        /\ v = [row |-> v.row, disk |-> v.disk, log |-> v.log, conflicts |-> v.conflicts, ok |-> v.ok]
    BY <1>1, <1>4 DEF Worlds
  <2> HIDE DEF new
  <2>3. v \in Worlds /\ v.row[n] = new /\ \A m \in Nodes \ {n} : v.row[m] = w.row[m]
    BY <1>1, <2>1, <2>2 DEF Worlds
  <2>4. \A m \in Nodes \ {n} : w.row[m] # NoNode => w.row[m].path # s.path
    BY <1>4 DEF At
  <2>5. Apart(v.row)
    BY <1>1, <2>1, <2>3, <2>4 DEF Apart
  <2> QED
    BY <2>1, <2>2, <2>3, <2>5, <1>1 DEF SameButRows, Back, new, Orderly, Worlds
<1> QED
  BY <1>2, <1>3, <1>4 DEF PutBack

\* The fold of PutAllBack, the function it chooses, and what it is after k ids.
PutOne(x, n, s, some) == IF n \in some /\ x.ok THEN PutBack(x, n, s[n]) ELSE x

PutFold(w, s, some) ==
  CHOOSE it : it = [t \in SUBSET DOMAIN Ids |->
    IF t = {} THEN w ELSE PutOne(it[t \ {Max(t)}], Ids[Max(t)], s, some)]

PutSofar(w, s, some, k, x) ==
  /\ SameButRows(w, x)
  /\ x.ok => w.ok
  /\ \A n \in Nodes \ some : x.row[n] = w.row[n]
  /\ x.ok => \A n \in some :
       /\ x.row[n] = w.row[n] \/ Back(w.row[n], x.row[n], s[n], w.disk)
       /\ (\E i \in 1 .. k : Ids[i] = n) => Back(w.row[n], x.row[n], s[n], w.disk)

\* One more id.
LEMMA PutSofarGrows ==
  ASSUME NEW w \in Orderly, NEW s \in Snaps, NEW some \in SUBSET Nodes, \A n \in some : s[n] # Nothing,
         NEW k \in 1 .. Len(Ids), NEW x \in Orderly, PutSofar(w, s, some, k - 1, x),
         NEW v, v = PutOne(x, Ids[k], s, some)
  PROVE  v \in Orderly /\ PutSofar(w, s, some, k, v)
<1>1. Ids[k] \in Nodes /\ Len(Ids) \in Nat
  BY UndoConstants, LenProperties DEF Nodes, ToSet
<1>2. ASSUME NEW n, \E i \in 1 .. k : Ids[i] = n
      PROVE  n = Ids[k] \/ \E i \in 1 .. k - 1 : Ids[i] = n
  BY <1>1, <1>2
<1>3. CASE ~(Ids[k] \in some /\ x.ok)
  <2>1. v = x
    BY <1>3 DEF PutOne
  <2> QED
    BY <1>2, <1>3, <2>1 DEF PutSofar
<1>4. CASE Ids[k] \in some /\ x.ok
  <2> DEFINE n == Ids[k]
  <2>1. v = PutBack(x, n, s[n]) /\ s[n] \in Snapshot /\ n \in Nodes
    BY <1>1, <1>4 DEF PutOne, Snaps
  <2>2. /\ v \in Orderly /\ SameButRows(x, v) /\ (v.ok => Back(x.row[n], v.row[n], s[n], x.disk))
        /\ \A m \in Nodes \ {n} : v.row[m] = x.row[m]
    BY <2>1, PutBackOne
  <2>3. SameButRows(w, v) /\ x.disk = w.disk /\ w.ok
    BY <1>4, <2>2 DEF PutSofar, SameButRows
  <2>4. v.ok => Back(w.row[n], v.row[n], s[n], w.disk)
    BY <1>4, <2>2, <2>3 DEF PutSofar, Back
  <2> HIDE DEF n
  <2>5. n = Ids[k] /\ n \in some
    BY <1>4 DEF n
  <2>6. \A m \in Nodes \ some : v.row[m] = w.row[m]
    BY <2>2, <2>5 DEF PutSofar
  <2>7. ASSUME v.ok, NEW m \in some
        PROVE  /\ v.row[m] = w.row[m] \/ Back(w.row[m], v.row[m], s[m], w.disk)
               /\ (\E i \in 1 .. k : Ids[i] = m) => Back(w.row[m], v.row[m], s[m], w.disk)
    <3>1. CASE m = n
      BY <2>4, <2>7, <3>1
    <3>2. CASE m # n
      <4>1. v.row[m] = x.row[m]
        BY <2>2, <3>2
      <4> QED
        BY <1>2, <1>4, <2>5, <2>7, <3>2, <4>1 DEF PutSofar
    <3> QED
      BY <3>1, <3>2
  <2> QED
    BY <2>2, <2>3, <2>6, <2>7 DEF PutSofar
<1> QED
  BY <1>3, <1>4

\* All nodes of "some" are put back, or the world is refused; no others change.
LEMMA PutAll ==
  ASSUME NEW w \in Orderly, NEW s \in Snaps, NEW some \in SUBSET Nodes, \A n \in some : s[n] # Nothing,
         NEW v, v = PutAllBack(w, s, some)
  PROVE  /\ v \in Orderly /\ SameButRows(w, v)
         /\ \A n \in Nodes \ some : v.row[n] = w.row[n]
         /\ v.ok => w.ok /\ \A n \in some : Back(w.row[n], v.row[n], s[n], w.disk)
<1> DEFINE N    == Len(Ids)
           I    == Orderly
           Is(it) == it = [t \in SUBSET DOMAIN Ids |->
                             IF t = {} THEN w ELSE PutOne(it[t \ {Max(t)}], Ids[Max(t)], s, some)]
           g    == [x \in I \X Nodes |-> PutOne(x[1], x[2], s, some)]
           P    == {z \in (0 .. N) \X I : PutSofar(w, s, some, z[1], z[2])}
           fold == PutFold(w, s, some)
<1>1. N \in Nat /\ DOMAIN Ids = 1 .. N /\ Ids \in [1 .. N -> Nodes]
  BY UndoConstants, LenProperties
<1>2. \A x \in I, n \in Nodes : PutOne(x, n, s, some) \in I
  <2> SUFFICES ASSUME NEW x \in I, NEW n \in Nodes PROVE PutOne(x, n, s, some) \in I
    OBVIOUS
  <2>1. CASE n \in some /\ x.ok
    <3>1. s[n] \in Snapshot /\ PutOne(x, n, s, some) = PutBack(x, n, s[n])
      BY <2>1 DEF PutOne, Snaps
    <3> QED
      BY <3>1, PutBackOne
  <2>2. CASE ~(n \in some /\ x.ok)
    BY <2>2 DEF PutOne
  <2> QED
    BY <2>1, <2>2
<1>3. g \in [I \X Nodes -> I] /\ \A x \in I, n \in Nodes : g[<<x, n>>] = PutOne(x, n, s, some)
  <2> HIDE DEF I
  <2> QED
    BY <1>2
<1> HIDE DEF g, N
<1>4. \E it : Is(it)
  <2>1. PICK it \in [SUBSET (1 .. N) -> I] : IsFold(it, g, w, N, Ids)
    BY <1>1, <1>3, FoldExists
  <2>2. ASSUME NEW t \in SUBSET (1 .. N)
        PROVE  it[t] = IF t = {} THEN w ELSE PutOne(it[t \ {Max(t)}], Ids[Max(t)], s, some)
    <3>1. CASE t # {}
      <4>1. Max(t) \in t
        BY <1>1, <3>1, MaxIsMember
      <4>2. it[t \ {Max(t)}] \in I /\ Ids[Max(t)] \in Nodes
        BY <1>1, <2>1, <4>1
      <4> QED
        BY <1>3, <2>1, <3>1, <4>2 DEF IsFold
    <3> QED
      BY <2>1, <3>1 DEF IsFold
  <2> QED
    BY <1>1, <2>1, <2>2
<1>5. Is(fold)
  BY <1>4 DEF PutFold
<1>6. v = fold[1 .. N]
  BY <1>1 DEF PutAllBack, FoldLeft, MapThenFoldSet, PutFold, PutOne
<1> HIDE DEF fold
<1>7. IsFoldWithin(fold, g, w, N, Ids, I)
  <2>1. fold[{}] = w
    BY <1>5
  <2>2. ASSUME NEW t \in SUBSET (1 .. N), t # {}, fold[t \ {Max(t)}] \in I
        PROVE  fold[t] = g[<<fold[t \ {Max(t)}], Ids[Max(t)]>>]
    <3>1. fold[t] = PutOne(fold[t \ {Max(t)}], Ids[Max(t)], s, some)
      BY <1>1, <1>5, <2>2
    <3>2. Ids[Max(t)] \in Nodes
      BY <1>1, <2>2, MaxIsMember
    <3> QED
      BY <1>3, <2>2, <3>1, <3>2
  <2> QED
    BY <2>1, <2>2 DEF IsFoldWithin
<1>8. <<0, w>> \in P
  <2>1. PutSofar(w, s, some, 0, w)
    BY DEF PutSofar, SameButRows
  <2> QED
    BY <1>1, <2>1
<1>9. ASSUME NEW k \in 1 .. N, NEW x \in I, <<k - 1, x>> \in P
      PROVE  <<k, g[<<x, Ids[k]>>]>> \in P
  <2>1. PutSofar(w, s, some, k - 1, x) /\ Ids[k] \in Nodes
    BY <1>1, <1>9
  <2>2. g[<<x, Ids[k]>>] = PutOne(x, Ids[k], s, some)
    BY <1>3, <2>1
  <2>3. g[<<x, Ids[k]>>] \in I /\ PutSofar(w, s, some, k, g[<<x, Ids[k]>>])
    BY <2>1, <2>2, PutSofarGrows DEF N
  <2> QED
    BY <1>1, <2>3
<1> HIDE DEF P
<1>10. w \in I /\ Climbing(g, I, N, Ids, P)
  BY <1>9 DEF Climbing
<1> HIDE DEF I, Is
<1>11. fold[1 .. N] \in I /\ <<N, fold[1 .. N]>> \in P
  BY <1>1, <1>3, <1>7, <1>8, <1>10, FoldClimbs
<1>12. v \in I /\ PutSofar(w, s, some, N, v)
  BY <1>6, <1>11 DEF P, I
<1>13. \A n \in some : \E i \in 1 .. N : Ids[i] = n
  BY <1>1 DEF Nodes, ToSet
<1> QED
  BY <1>12, <1>13 DEF PutSofar, I

-----------------------------------------------------------------------------
(* One operation. *)

\* A sequence with another element is a sequence.
LEMMA OtherElement ==
  ASSUME NEW S, NEW s \in Seq(S), NEW i \in DOMAIN s, NEW e \in S, NEW t, t = [s EXCEPT ![i] = e]
  PROVE  t \in Seq(S) /\ DOMAIN t = DOMAIN s /\ Len(t) = Len(s)
<1>1. Len(s) \in Nat /\ s \in [1 .. Len(s) -> S]
  BY LenProperties
<1>2. t \in [1 .. Len(s) -> S]
  BY <1>1
<1>3. t \in Seq(S)
  BY <1>1, <1>2, SeqDef
<1> QED
  BY <1>1, <1>2, <1>3, LenProperties

\* The log keeps its snapshots, and the states that stand beside them.
SameSnaps(l, k) ==
  /\ DOMAIN k = DOMAIN l
  /\ \A i \in DOMAIN l : k[i].snaps = l[i].snaps /\ k[i].was = l[i].was

\* The nodes put back have files, then the paths of the nodes that go have none.
FileAfter(w, v, s, todo, p) ==
  \/ \E n \in todo : ~s[n].born /\ v.row[n] # NoNode /\ v.row[n].path = p /\ v.disk[p] = v.row[n].text
  \/ /\ ~ \E n \in todo : ~s[n].born /\ v.row[n] # NoNode /\ v.row[n].path = p
     /\ \/ v.disk[p] = NoFile /\ \E n \in todo : s[n].born /\ s[n].path = p
        \/ v.disk[p] = w.disk[p] /\ ~ \E n \in todo : s[n].born /\ s[n].path = p

\* What an operation does to the nodes it is about and their files.
TakenBack(w, v, s, todo) ==
  /\ \A n \in Nodes \ todo : v.row[n] = w.row[n]
  /\ \A n \in todo : s[n].born => v.row[n] = NoNode
  /\ \A n \in todo : ~s[n].born => Back(w.row[n], v.row[n], s[n], w.disk)
  /\ \A p \in Paths : FileAfter(w, v, s, todo, p)

Halves(s, todo, deletes, writes) ==
  /\ deletes \subseteq todo /\ writes = todo \ deletes
  /\ \A n \in todo : n \in deletes <=> s[n].born
Gone(s, todo, rows) == \A n \in todo : s[n].born => rows[n] = NoNode

\* FileEffects does what FileAfter says.
LEMMA FilesFollow ==
  ASSUME NEW w \in Orderly, NEW s \in Snaps, NEW todo \in SUBSET Nodes,
         NEW x \in Orderly, x.disk = w.disk, Gone(s, todo, x.row),
         NEW deletes, NEW writes, Halves(s, todo, deletes, writes),
         NEW v, v = FileEffects(x, s, deletes, writes)
  PROVE  /\ v \in Orderly /\ v.row = x.row /\ v.log = x.log /\ v.conflicts = x.conflicts /\ v.ok = x.ok
         /\ \A p \in Paths : FileAfter(w, v, s, todo, p)
<1> DEFINE file(p) == IF \E n \in writes : x.row[n] # NoNode /\ x.row[n].path = p
                        THEN x.row[CHOOSE n \in writes : x.row[n] # NoNode /\ x.row[n].path = p].text
                      ELSE IF \E n \in deletes : s[n].path = p THEN NoFile
                      ELSE x.disk[p]
<1>1. /\ x \in Worlds /\ Apart(x.row) /\ x.row \in [Nodes -> Row \cup {NoNode}]
      /\ x.disk \in [Paths -> Texts \cup {NoFile}]
  BY DEF Orderly, Worlds
<1>2. v = [x EXCEPT !.disk = [p \in Paths |-> file(p)]]
  BY DEF FileEffects
<1>3. ASSUME NEW p \in Paths, \E n \in writes : x.row[n] # NoNode /\ x.row[n].path = p
      PROVE  \E n \in writes : x.row[n] # NoNode /\ x.row[n].path = p /\ file(p) = x.row[n].text
  <2> DEFINE n == CHOOSE n \in writes : x.row[n] # NoNode /\ x.row[n].path = p
  <2>1. n \in writes /\ x.row[n] # NoNode /\ x.row[n].path = p
    BY <1>3
  <2>2. file(p) = x.row[n].text
    BY <1>3
  <2> HIDE DEF n, file
  <2> QED
    BY <2>1, <2>2
<1>4. ASSUME NEW p \in Paths, ~ \E n \in writes : x.row[n] # NoNode /\ x.row[n].path = p
      PROVE  \/ file(p) = NoFile /\ \E n \in deletes : s[n].path = p
             \/ file(p) = x.disk[p] /\ ~ \E n \in deletes : s[n].path = p
  BY <1>4
<1>5. /\ deletes \subseteq todo /\ writes = todo \ deletes
      /\ \A n \in todo : n \in deletes <=> s[n].born
  BY DEF Halves
<1> HIDE DEF file
<1>6. \A p \in Paths : file(p) \in Texts \cup {NoFile}
  <2> SUFFICES ASSUME NEW p \in Paths PROVE file(p) \in Texts \cup {NoFile}
    OBVIOUS
  <2>1. CASE \E n \in writes : x.row[n] # NoNode /\ x.row[n].path = p
    <3>1. PICK n \in writes : x.row[n] # NoNode /\ x.row[n].path = p /\ file(p) = x.row[n].text
      BY <1>3, <2>1
    <3>2. n \in Nodes
      BY <1>5, <3>1
    <3> QED
      BY <1>1, <3>1, <3>2 DEF Row
  <2>2. CASE ~ \E n \in writes : x.row[n] # NoNode /\ x.row[n].path = p
    BY <1>1, <1>4, <2>2
  <2> QED
    BY <2>1, <2>2
<1>7. /\ v.row = x.row /\ v.log = x.log /\ v.conflicts = x.conflicts /\ v.ok = x.ok
      /\ v.disk = [p \in Paths |-> file(p)]
      /\ v = [row |-> v.row, disk |-> v.disk, log |-> v.log, conflicts |-> v.conflicts, ok |-> v.ok]
  BY <1>1, <1>2 DEF Worlds
<1>8. v \in Orderly
  <2>1. v.disk \in [Paths -> Texts \cup {NoFile}]
    BY <1>6, <1>7
  <2> QED
    BY <1>1, <1>7, <2>1 DEF Orderly, Worlds
<1>9. ASSUME NEW p \in Paths PROVE FileAfter(w, v, s, todo, p)
  <2>1. v.disk[p] = file(p)
    BY <1>7
  <2>2. \A n \in writes : n \in todo /\ ~s[n].born
    BY <1>5
  <2>3. \A n \in deletes : n \in todo /\ s[n].born
    BY <1>5
  <2>4. \A n \in todo : (~s[n].born => n \in writes) /\ (s[n].born => n \in deletes)
    BY <1>5
  <2>5. CASE \E n \in writes : x.row[n] # NoNode /\ x.row[n].path = p
    <3>1. PICK n \in writes : x.row[n] # NoNode /\ x.row[n].path = p /\ file(p) = x.row[n].text
      BY <1>3, <2>5
    <3>2. n \in todo /\ ~s[n].born /\ v.row[n] # NoNode /\ v.row[n].path = p /\ v.disk[p] = v.row[n].text
      BY <1>7, <2>1, <2>2, <3>1
    <3> QED
      BY <3>2 DEF FileAfter
  <2>6. CASE ~ \E n \in writes : x.row[n] # NoNode /\ x.row[n].path = p
    <3>1. ~ \E n \in todo : ~s[n].born /\ v.row[n] # NoNode /\ v.row[n].path = p
      BY <1>7, <2>4, <2>6
    <3>2. \/ v.disk[p] = NoFile /\ \E n \in todo : s[n].born /\ s[n].path = p
          \/ v.disk[p] = w.disk[p] /\ ~ \E n \in todo : s[n].born /\ s[n].path = p
      <4>1. CASE file(p) = NoFile /\ \E n \in deletes : s[n].path = p
        BY <2>1, <2>3, <4>1
      <4>2. CASE file(p) = x.disk[p] /\ ~ \E n \in deletes : s[n].path = p
        BY <2>1, <2>4, <4>2
      <4> QED
        BY <1>4, <2>6, <4>1, <4>2
    <3> QED
      BY <3>1, <3>2 DEF FileAfter
  <2> QED
    BY <2>5, <2>6
<1> QED
  BY <1>7, <1>8, <1>9

\* The nodes an operation is about, but those in conflict that are not to be reverted.
Todo(w, i, ops, reverted) == Snapped(w.log, i) \ (Conflicted(w, i, ops) \ reverted)

\* restoreOperation: it is refused, or every node it is about is taken back but those
\* in conflict that the caller does not ask for.
LEMMA OneOperation ==
  ASSUME NEW w \in Orderly, w.ok, NEW i \in DOMAIN w.log, i \in Nat, NEW ops, NEW reverted,
         NEW v, v = RestoreOperation(w, i, ops, reverted)
  PROVE  /\ v \in Orderly /\ SameSnaps(w.log, v.log)
         /\ \A j, n : <<j, n>> \in v.conflicts <=>
                       <<j, n>> \in w.conflicts \/ (j = i /\ n \in Conflicted(w, i, ops))
         /\ ~v.ok => v.row = w.row /\ v.disk = w.disk
         /\ v.ok => TakenBack(w, v, w.log[i].snaps, Todo(w, i, ops, reverted))
<1> DEFINE s        == w.log[i].snaps
           C        == Conflicted(w, i, ops)
           todo     == Snapped(w.log, i) \ (C \ reverted)
           deletes  == {n \in todo : s[n].born}
           creates  == {n \in todo \ deletes : w.row[n] = NoNode}
           updates  == todo \ (deletes \cup creates)
           first    == PutAllBack(w, s, creates)
           put      == PutAllBack(first, s, updates)
           reported == w.conflicts \cup {<<i, n>> : n \in C}
           gone     == [put EXCEPT !.row = [n \in Nodes |-> IF n \in deletes THEN NoNode ELSE put.row[n]],
                                   !.log[i].status = "undone", !.conflicts = reported]
           after    == FileEffects(gone, s, deletes, creates \cup updates)
<1>1. /\ w \in Worlds /\ Apart(w.row) /\ w.log \in Seq(Entry) /\ w.log[i] \in Entry
      /\ w.conflicts \in SUBSET (Nat \X Nodes)
  BY ElementOfSeq, LenProperties DEF Orderly, Worlds
<1>2. s \in Snaps /\ todo \in SUBSET Nodes /\ C \in SUBSET Nodes /\ \A n \in todo : s[n] # Nothing
  BY <1>1 DEF Entry, Snaps, Snapped, Conflicted
<1>3. v = IF put.ok THEN after ELSE [Refused(w) EXCEPT !.conflicts = reported]
  BY Zenon DEF RestoreOperation
<1>4. /\ reported \in SUBSET (Nat \X Nodes)
      /\ \A j, n : <<j, n>> \in reported <=> <<j, n>> \in w.conflicts \/ (j = i /\ n \in C)
  BY <1>1, <1>2
<1>5. todo = Todo(w, i, ops, reverted)
  BY DEF Todo
<1> HIDE DEF s, C, todo
<1>6. deletes \in SUBSET todo /\ \A n \in todo : n \in deletes <=> s[n].born
  OBVIOUS
<1>7. \A n \in todo : /\ n \in deletes \/ n \in creates \/ n \in updates
                     /\ n \in creates \cup updates <=> n \notin deletes
  OBVIOUS
<1>8. /\ first \in Orderly /\ SameButRows(w, first)
      /\ \A n \in Nodes \ creates : first.row[n] = w.row[n]
      /\ first.ok => \A n \in creates : Back(w.row[n], first.row[n], s[n], w.disk)
  <2>1. creates \in SUBSET Nodes /\ \A n \in creates : s[n] # Nothing
    BY <1>2
  <2> HIDE DEF creates
  <2> QED
    BY <1>2, <2>1, PutAll
<1>9. /\ put \in Orderly /\ SameButRows(first, put)
      /\ \A n \in Nodes \ updates : put.row[n] = first.row[n]
      /\ put.ok => first.ok /\ \A n \in updates : Back(first.row[n], put.row[n], s[n], first.disk)
  <2>1. updates \in SUBSET Nodes /\ \A n \in updates : s[n] # Nothing
    BY <1>2
  <2> HIDE DEF updates, first
  <2> QED
    BY <1>2, <1>8, <2>1, PutAll
<1>10. CASE ~put.ok
  <2> HIDE DEF put, reported
  <2>1. v = [Refused(w) EXCEPT !.conflicts = reported]
    BY <1>3, <1>10
  <2>2. /\ v.row = w.row /\ v.disk = w.disk /\ v.log = w.log /\ v.conflicts = reported /\ v.ok = FALSE
        /\ v = [row |-> v.row, disk |-> v.disk, log |-> v.log, conflicts |-> v.conflicts, ok |-> v.ok]
    BY <1>1, <2>1 DEF Refused, Worlds
  <2>3. v \in Orderly
    BY <1>1, <1>4, <2>2 DEF Orderly, Worlds
  <2> QED
    BY <1>4, <1>10, <2>2, <2>3 DEF SameSnaps, C
<1>11. CASE put.ok
  <2> HIDE DEF put, reported, first, deletes, creates, updates
  <2> DEFINE e == [w.log[i] EXCEPT !.status = "undone"]
             rows == [n \in Nodes |-> IF n \in deletes THEN NoNode ELSE put.row[n]]
  <2>1. e \in Entry /\ e.snaps = w.log[i].snaps /\ e.was = w.log[i].was
    BY <1>1 DEF Entry, Status
  <2>2. /\ put.log = w.log /\ put.disk = w.disk /\ put \in Worlds
        /\ Apart(put.row) /\ put.row \in [Nodes -> Row \cup {NoNode}]
    BY <1>8, <1>9 DEF SameButRows, Orderly, Worlds
  <2>3. /\ gone.row = rows /\ gone.disk = w.disk /\ gone.log = [w.log EXCEPT ![i] = e]
        /\ gone.conflicts = reported /\ gone.ok = TRUE
        /\ gone = [row |-> gone.row, disk |-> gone.disk, log |-> gone.log,
                   conflicts |-> gone.conflicts, ok |-> gone.ok]
    <3> DEFINE logged == [put.log EXCEPT ![i].status = "undone"]
    <3>1. logged = [w.log EXCEPT ![i] = e]
      BY <2>2
    <3>2. gone = [put EXCEPT !.row = rows, !.log = logged, !.conflicts = reported]
      BY <2>2 DEF Worlds
    <3> HIDE DEF gone, logged, rows, e
    <3> QED
      BY <1>11, <2>2, <3>1, <3>2 DEF Worlds
  <2> HIDE DEF e
  <2>4. gone.log \in Seq(Entry) /\ SameSnaps(w.log, gone.log)
    <3>1. gone.log \in Seq(Entry) /\ DOMAIN gone.log = DOMAIN w.log
      BY <1>1, <2>1, <2>3, OtherElement
    <3>2. \A j \in DOMAIN w.log : gone.log[j] = IF j = i THEN e ELSE w.log[j]
      BY <1>1, <2>3
    <3> QED
      BY <2>1, <3>1, <3>2 DEF SameSnaps
  <2>5. rows \in [Nodes -> Row \cup {NoNode}] /\ Apart(rows)
    BY <2>2 DEF Apart
  <2> HIDE DEF rows
  <2>6. gone \in Orderly
    BY <1>1, <1>4, <2>3, <2>4, <2>5 DEF Orderly, Worlds
  <2>7. \A n \in todo : s[n].born => gone.row[n] = NoNode
    BY <1>2, <1>6, <2>3 DEF rows
  <2>8. \A n \in Nodes \ deletes : gone.row[n] = put.row[n]
    BY <2>3 DEF rows
  <2> HIDE DEF gone
  <2>9. creates \cup updates = todo \ deletes
    BY DEF creates, updates
  <2>10. /\ after \in Orderly /\ after.row = gone.row /\ after.log = gone.log
         /\ after.conflicts = gone.conflicts /\ after.ok = gone.ok
         /\ \A p \in Paths : FileAfter(w, after, s, todo, p)
    <3>1. gone.disk = w.disk /\ deletes \in SUBSET todo
      BY <1>6, <2>3
    <3>2. Gone(s, todo, gone.row)
      BY <2>7 DEF Gone
    <3> DEFINE writes == creates \cup updates
    <3>3. Halves(s, todo, deletes, writes) /\ after = FileEffects(gone, s, deletes, writes)
      BY <1>6, <2>9 DEF Halves
    <3> HIDE DEF writes, after
    <3>4. s \in Snaps /\ todo \in SUBSET Nodes /\ w \in Orderly
      BY <1>2
    <3> QED
      BY <2>6, <3>1, <3>2, <3>3, <3>4, FilesFollow
  <2> HIDE DEF after
  <2>11. v = after
    BY <1>3, <1>11
  <2>12. \A n \in Nodes \ todo : v.row[n] = w.row[n]
    <3>1. \A n \in Nodes \ todo : n \notin deletes /\ n \notin creates /\ n \notin updates
      BY DEF deletes, creates, updates
    <3> QED
      BY <1>8, <1>9, <2>8, <2>10, <2>11, <3>1
  <2>13. ASSUME NEW n \in todo, ~s[n].born PROVE Back(w.row[n], v.row[n], s[n], w.disk)
    <3>1. v.row[n] = put.row[n] /\ n \in Nodes /\ n \in creates \cup updates /\ first.disk = w.disk
      BY <1>2, <1>8, <1>6, <1>7, <2>8, <2>10, <2>11, <2>13 DEF SameButRows
    <3>2. CASE n \in creates
      <4>1. n \notin updates
        BY <3>2 DEF updates
      <4> QED
        BY <1>8, <1>9, <1>11, <3>1, <3>2, <4>1
    <3>3. CASE n \in updates
      <4>1. first.row[n] = w.row[n]
        BY <1>8, <3>1, <3>3 DEF updates
      <4> QED
        BY <1>9, <1>11, <3>1, <3>3, <4>1
    <3> QED
      BY <3>1, <3>2, <3>3
  <2>14. TakenBack(w, v, s, todo)
    BY <2>7, <2>10, <2>11, <2>12, <2>13 DEF TakenBack
  <2> QED
    BY <1>4, <1>5, <2>3, <2>4, <2>10, <2>11, <2>14 DEF C, s
<1> QED
  BY <1>10, <1>11

-----------------------------------------------------------------------------
(* The log and the nodes between calls. *)

\* A node is created by the first operation that has a snapshot of it.
Once(l) ==
  \A i, j \in DOMAIN l, n \in Nodes :
    i < j /\ l[j].snaps[n] # Nothing /\ l[j].snaps[n].born => l[i].snaps[n] = Nothing

\* The snapshots say what the nodes were before their operations.
Recorded(l) == \A i \in DOMAIN l, n \in Nodes : Says(l[i].snaps[n], l[i].was[n])

\* A node that has not been there is in no snapshot.
Fresh(n) == row[n] = NoNode /\ \A i \in DOMAIN log : log[i].snaps[n] = Nothing

LogInv ==
  /\ row \in [Nodes -> Row \cup {NoNode}] /\ disk \in [Paths -> Texts \cup {NoFile}]
  /\ log \in Seq(Entry) /\ unused \subseteq Nodes
  /\ Apart(row)
  /\ \A n \in unused : Fresh(n)
  /\ Recorded(log) /\ Once(log)

-----------------------------------------------------------------------------
(* Calls. *)

CallWorlds == [row : [Nodes -> Row \cup {NoNode}], disk : [Paths -> Texts \cup {NoFile}],
               snaps : Snaps, ok : BOOLEAN]

\* Within a call that creates nodes of C: a node without a snapshot is as it was, the
\* snapshots say what the nodes were, and only nodes that have not been there are new.
InCall(C, x) ==
  /\ Apart(x.row)
  /\ \A n \in Nodes : x.snaps[n] = Nothing => x.row[n] = row[n]
  /\ \A n \in Nodes : Says(x.snaps[n], row[n])
  /\ \A n \in Nodes : x.snaps[n] # Nothing /\ x.snaps[n].born => n \in unused
  /\ \A n \in unused \ C : x.snaps[n] = Nothing

Made(C) == {x \in CallWorlds : x.ok => InCall(C, x)}

\* A snapshot that a call may store for a node.
Fits(C, n, s) ==
  s \in Snapshot /\ Says(s, row[n]) /\ (s.born => n \in unused) /\ n \notin unused \ C

\* Each step of a call changes one node and has a snapshot of it.
Changed(x, n, r, s, d) ==
  [row |-> [x.row EXCEPT ![n] = r], disk |-> d, snaps |-> [x.snaps EXCEPT ![n] = s], ok |-> TRUE]

\* Nobody else is at the path of the new row.
Free(x, n, r) == r # NoNode => At(x.row, r.path) \ {n} = {}

LEMMA ChangeFits ==
  ASSUME NEW C, NEW x \in Made(C), x.ok, NEW n \in Nodes, NEW s, Fits(C, n, s),
         NEW r \in Row \cup {NoNode}, Free(x, n, r),
         NEW d \in [Paths -> Texts \cup {NoFile}], NEW v, v = Changed(x, n, r, s, d)
  PROVE  v \in Made(C) /\ v.ok /\ v.row[n] = r /\ v.snaps[n] = s
<1>1. /\ x \in CallWorlds /\ InCall(C, x) /\ x.row \in [Nodes -> Row \cup {NoNode}]
      /\ x.snaps \in [Nodes -> Snapshot \cup {Nothing}]
  BY DEF Made, CallWorlds, Snaps
<1>2. /\ v.row = [x.row EXCEPT ![n] = r] /\ v.snaps = [x.snaps EXCEPT ![n] = s] /\ v.disk = d /\ v.ok
      /\ v = [row |-> v.row, disk |-> v.disk, snaps |-> v.snaps, ok |-> TRUE]
  BY DEF Changed
<1>3. s \in Snapshot /\ s # Nothing
  BY UndoConstants DEF Fits
<1>4. v \in CallWorlds
  <2>1. v.row \in [Nodes -> Row \cup {NoNode}] /\ v.disk \in [Paths -> Texts \cup {NoFile}]
    BY <1>1, <1>2
  <2>2. v.snaps \in [Nodes -> Snapshot \cup {Nothing}]
    BY <1>1, <1>2, <1>3
  <2> QED
    BY <1>2, <2>1, <2>2 DEF CallWorlds, Snaps
<1>5. /\ v.row[n] = r /\ v.snaps[n] = s
      /\ \A m \in Nodes \ {n} : v.row[m] = x.row[m] /\ v.snaps[m] = x.snaps[m]
  BY <1>1, <1>2
<1>6. Apart(v.row)
  <2>1. \A m \in Nodes \ {n} : r # NoNode /\ x.row[m] # NoNode => x.row[m].path # r.path
    BY DEF At, Free
  <2> QED
    BY <1>1, <1>5, <2>1 DEF Apart, InCall
<1>7. InCall(C, v)
  <2>1. \A m \in Nodes : v.snaps[m] = Nothing => v.row[m] = row[m]
    BY <1>1, <1>3, <1>5 DEF InCall
  <2>2. \A m \in Nodes : Says(v.snaps[m], row[m])
    BY <1>1, <1>5 DEF InCall, Fits
  <2>3. \A m \in Nodes : v.snaps[m] # Nothing /\ v.snaps[m].born => m \in unused
    BY <1>1, <1>5 DEF InCall, Fits
  <2>4. \A m \in unused \ C : v.snaps[m] = Nothing
    <3>1. \A m \in unused \ C : m # n
      BY DEF Fits
    <3>2. \A m : m # n => v.snaps[m] = x.snaps[m]
      BY <1>1, <1>2
    <3> QED
      BY <1>1, <3>1, <3>2 DEF InCall
  <2> QED
    BY <1>6, <2>1, <2>2, <2>3, <2>4 DEF InCall
<1> QED
  BY <1>2, <1>4, <1>5, <1>7 DEF Made

\* The snapshot that Capture leaves.
Kept(x, n) == IF x.snaps[n] = Nothing THEN Pre(x, n) ELSE x.snaps[n]

LEMMA KeptFits ==
  ASSUME LogInv, NEW C, NEW x \in Made(C), x.ok, NEW n \in Nodes, x.row[n] # NoNode
  PROVE  /\ Fits(C, n, Kept(x, n))
         /\ \A t \in Texts : Fits(C, n, [Kept(x, n) EXCEPT !.post = t])
         /\ Capture(x, n, Pre(x, n)) =
              [row |-> x.row, disk |-> x.disk, snaps |-> [x.snaps EXCEPT ![n] = Kept(x, n)], ok |-> TRUE]
<1> DEFINE s == Kept(x, n)
<1>1. /\ x \in CallWorlds /\ InCall(C, x) /\ x.row[n] \in Row
      /\ x.snaps \in [Nodes -> Snapshot \cup {Nothing}] 
  BY DEF Made, CallWorlds, Snaps
<1>0. x \in CallWorlds /\ x.ok = TRUE
  BY DEF Made, CallWorlds
<1>2. n \notin unused \ C
  BY <1>1 DEF InCall, LogInv, Fresh
<1>3. Fits(C, n, s)
  <2>1. CASE x.snaps[n] = Nothing
    <3>1. s = [path |-> x.row[n].path, text |-> x.row[n].text, born |-> FALSE, post |-> NoHash]
      BY <2>1 DEF Kept, Pre
    <3>2. x.row[n] = row[n]
      BY <1>1, <2>1 DEF InCall
    <3>3. s \in Snapshot /\ ~s.born /\ s.path = row[n].path /\ s.text = row[n].text
      BY <1>1, <3>1, <3>2 DEF Snapshot, Row
    <3> HIDE DEF s
    <3> QED
      BY <1>2, <3>2, <3>3 DEF Fits, Says
  <2>2. CASE x.snaps[n] # Nothing
    <3>1. s = x.snaps[n] /\ s \in Snapshot
      BY <1>1, <2>2 DEF Kept
    <3> HIDE DEF s
    <3>2. Says(s, row[n]) /\ (s.born => n \in unused)
      BY <1>1, <2>2, <3>1 DEF InCall
    <3> QED
      BY <1>2, <3>1, <3>2 DEF Fits
  <2> QED
    BY <2>1, <2>2
<1>4. Capture(x, n, Pre(x, n)) =
        [row |-> x.row, disk |-> x.disk, snaps |-> [x.snaps EXCEPT ![n] = s], ok |-> TRUE]
  <2>1. CASE x.snaps[n] = Nothing
    <3>1. s = Pre(x, n)
      BY <2>1 DEF Kept
    <3> HIDE DEF s
    <3> DEFINE pre == Pre(x, n)
    <3>2. Capture(x, n, pre) = [x EXCEPT !.snaps[n] = pre]
      BY <2>1 DEF Capture
    <3> HIDE DEF pre
    <3> DEFINE c == [x.snaps EXCEPT ![n] = pre]
    <3>3. [x EXCEPT !.snaps[n] = pre] = [x EXCEPT !.snaps = c]
      BY <1>0 DEF CallWorlds
    <3> DEFINE v == [x EXCEPT !.snaps = c]
    <3> HIDE DEF c
    <3>4. v = [x EXCEPT !.snaps = c]
      OBVIOUS
    <3> HIDE DEF v
    <3>5. /\ v.row = x.row /\ v.disk = x.disk /\ v.snaps = c /\ v.ok = TRUE
          /\ v = [row |-> v.row, disk |-> v.disk, snaps |-> v.snaps, ok |-> v.ok]
      BY <1>0, <3>4 DEF CallWorlds
    <3> QED
      BY <3>1, <3>2, <3>3, <3>5 DEF pre, c, v
  <2>2. CASE x.snaps[n] # Nothing
    <3>1. s = x.snaps[n]
      BY <2>2 DEF Kept
    <3> HIDE DEF s
    <3>2. Capture(x, n, Pre(x, n)) = x /\ [x.snaps EXCEPT ![n] = s] = x.snaps
      BY <1>1, <2>2, <3>1 DEF Capture
    <3>3. x = [row |-> x.row, disk |-> x.disk, snaps |-> x.snaps, ok |-> TRUE]
      BY <1>0 DEF CallWorlds
    <3> QED
      BY <3>2, <3>3
  <2> QED
    BY <2>1, <2>2
<1> HIDE DEF s
<1>5. ASSUME NEW t \in Texts PROVE Fits(C, n, [s EXCEPT !.post = t])
  <2> DEFINE u == [s EXCEPT !.post = t]
  <2>1. s \in Snapshot /\ u \in Snapshot /\ u.born = s.born /\ u.path = s.path /\ u.text = s.text
    BY <1>3 DEF Fits, Snapshot
  <2> HIDE DEF u
  <2>2. s # Nothing /\ u # Nothing
    BY <2>1, UndoConstants
  <2>3. Fits(C, n, u)
    BY <1>3, <2>1, <2>2 DEF Fits, Says
  <2> QED
    BY <2>3 DEF u
<1> QED
  BY <1>3, <1>4, <1>5 DEF s

\* What Hashed and Written make.
LEMMA WrittenIs ==
  ASSUME NEW x \in CallWorlds, NEW n \in Nodes, NEW p \in Paths, NEW t \in Texts,
         NEW v, v = Hashed(Written(x, n, p, t), n, t)
  PROVE  /\ v.row = [x.row EXCEPT ![n] = [path |-> p, text |-> t]]
         /\ v.disk = [x.disk EXCEPT ![p] = t]
         /\ v.snaps = [x.snaps EXCEPT ![n] = [x.snaps[n] EXCEPT !.post = t]]
         /\ v.ok = x.ok
         /\ v = [row |-> v.row, disk |-> v.disk, snaps |-> v.snaps, ok |-> v.ok]
<1> DEFINE r == [path |-> p, text |-> t]
           y == Written(x, n, p, t)
<1>1. y = [x EXCEPT !.row = [x.row EXCEPT ![n] = r], !.disk = [x.disk EXCEPT ![p] = t]]
  BY DEF Written, CallWorlds
<1> HIDE DEF y, r
<1>2. /\ y.row = [x.row EXCEPT ![n] = r] /\ y.disk = [x.disk EXCEPT ![p] = t]
      /\ y.snaps = x.snaps /\ y.ok = x.ok
      /\ y = [row |-> y.row, disk |-> y.disk, snaps |-> y.snaps, ok |-> y.ok]
  BY <1>1 DEF CallWorlds
<1>3. y \in [row : {y.row}, disk : {y.disk}, snaps : {y.snaps}, ok : {y.ok}]
  BY <1>2
<1>4. v = [y EXCEPT !.snaps[n].post = t]
  BY DEF Hashed, y
<1> DEFINE c == [x.snaps EXCEPT ![n] = [x.snaps[n] EXCEPT !.post = t]]
<1>5. x.snaps \in [Nodes -> Snapshot \cup {Nothing}]
  BY DEF CallWorlds, Snaps
<1>6. v = [y EXCEPT !.snaps = c]
  <2>1. y.snaps[n] = x.snaps[n]
    BY <1>2
  <2>2. v = [y EXCEPT !.snaps = [y.snaps EXCEPT ![n] = [y.snaps[n] EXCEPT !.post = t]]]
    BY <1>3, <1>4
  <2> QED
    BY <1>2, <2>1, <2>2
<1> HIDE DEF c
<1>7. /\ v.row = y.row /\ v.disk = y.disk /\ v.snaps = c /\ v.ok = y.ok
      /\ v = [row |-> v.row, disk |-> v.disk, snaps |-> v.snaps, ok |-> v.ok]
  BY <1>3, <1>6
<1> QED
  BY <1>2, <1>7 DEF c, r

\* Writing a node that is there, with a snapshot of it.
LEMMA RenderedFits ==
  ASSUME LogInv, NEW C, NEW x \in Made(C), x.ok, NEW n \in Nodes, x.row[n] # NoNode,
         NEW y, y = Capture(x, n, Pre(x, n)), NEW p \in Paths, At(x.row, p) \ {n} = {},
         NEW t \in Texts, NEW v, v = Hashed(Written(y, n, p, t), n, t)
  PROVE  v \in Made(C)
<1> DEFINE k == Kept(x, n)
<1>1. /\ Fits(C, n, k) /\ Fits(C, n, [k EXCEPT !.post = t])
      /\ y = [row |-> x.row, disk |-> x.disk, snaps |-> [x.snaps EXCEPT ![n] = k], ok |-> TRUE]
  BY KeptFits
<1>2. /\ x \in CallWorlds /\ x.row[n] \in Row /\ InCall(C, x) /\ k \in Snapshot
      /\ x.disk \in [Paths -> Texts \cup {NoFile}]
  BY <1>1 DEF Made, CallWorlds, Row, Fits
<1> HIDE DEF k
<1>3. /\ y \in CallWorlds /\ y.row = x.row /\ y.disk = x.disk
      /\ y.snaps = [x.snaps EXCEPT ![n] = k] /\ y.ok = TRUE
  BY <1>1, <1>2 DEF CallWorlds, Snaps
<1>4. /\ v.row = [y.row EXCEPT ![n] = [path |-> p, text |-> t]]
      /\ v.disk = [y.disk EXCEPT ![p] = t]
      /\ v.snaps = [y.snaps EXCEPT ![n] = [y.snaps[n] EXCEPT !.post = t]]
      /\ v.ok = y.ok
      /\ v = [row |-> v.row, disk |-> v.disk, snaps |-> v.snaps, ok |-> v.ok]
  BY <1>3, WrittenIs
<1>5. /\ v.row = [x.row EXCEPT ![n] = [path |-> p, text |-> t]]
      /\ v.disk = [x.disk EXCEPT ![p] = t]
      /\ v.snaps = [y.snaps EXCEPT ![n] = [y.snaps[n] EXCEPT !.post = t]]
      /\ v.ok = TRUE
      /\ v = [row |-> v.row, disk |-> v.disk, snaps |-> v.snaps, ok |-> v.ok]
  BY <1>3, <1>4
<1> DEFINE s == [k EXCEPT !.post = t]
           r == [path |-> p, text |-> t]
           d == [x.disk EXCEPT ![p] = t]
<1>6. v.snaps = [x.snaps EXCEPT ![n] = s]
  <2>1. x.snaps \in [Nodes -> Snapshot \cup {Nothing}] /\ y.snaps[n] = k
    BY <1>2, <1>3 DEF CallWorlds, Snaps
  <2>2. v.snaps = [y.snaps EXCEPT ![n] = s]
    BY <1>5, <2>1
  <2> HIDE DEF s
  <2> QED
    BY <1>3, <2>1, <2>2
<1>7. r \in Row \cup {NoNode} /\ r.path = p /\ d \in [Paths -> Texts \cup {NoFile}]
  BY <1>2 DEF Row
<1>8. v = Changed(x, n, r, s, d) /\ Free(x, n, r)
  BY <1>5, <1>6, <1>7 DEF Changed, Free
<1> HIDE DEF r, s, d
<1>9. Fits(C, n, s)
  BY <1>1 DEF s
<1> QED
  BY <1>7, <1>8, <1>9, ChangeFits

\* Rendering a node where it is.
LEMMA UpdatedFits ==
  ASSUME LogInv, NEW C, NEW x \in Made(C), x.ok, NEW n \in Nodes, x.row[n] # NoNode,
         NEW t \in Texts
  PROVE  Updated(x, n, t) \in Made(C)
<1>1. CASE NoOp(x, n, t)
  BY <1>1 DEF Updated
<1>2. CASE ~NoOp(x, n, t)
  <2> DEFINE y == Capture(x, n, Pre(x, n))
             p == x.row[n].path
  <2>1. Updated(x, n, t) = Hashed(Written(y, n, p, t), n, t)
    BY <1>2 DEF Updated
  <2>2. p \in Paths /\ At(x.row, p) \ {n} = {}
    <3>1. x.row \in [Nodes -> Row \cup {NoNode}] /\ Apart(x.row)
      BY DEF Made, InCall, CallWorlds
    <3> QED
      BY <3>1 DEF Apart, At, Row
  <2>3. y = Capture(x, n, Pre(x, n))
    OBVIOUS
  <2> HIDE DEF y, p
  <2> QED
    BY <2>1, <2>2, <2>3, RenderedFits
<1> QED
  BY <1>1, <1>2

\* Another row or file.
Placed(x, y, n, r, d) == [y EXCEPT !.row = [x.row EXCEPT ![n] = r], !.disk = d]

\* With a snapshot of the node, that fits.
LEMMA KeptChange ==
  ASSUME LogInv, NEW C, NEW x \in Made(C), x.ok, NEW n \in Nodes, x.row[n] # NoNode,
         NEW y, y = Capture(x, n, Pre(x, n)), NEW v,
         NEW r \in Row \cup {NoNode}, Free(x, n, r),
         NEW d \in [Paths -> Texts \cup {NoFile}],
         v = Placed(x, y, n, r, d)
  PROVE  v \in Made(C) /\ v.ok /\ v.row[n] = r
<1> DEFINE k == Kept(x, n)
<1>1. /\ Fits(C, n, k) /\ k \in Snapshot
      /\ y = [row |-> x.row, disk |-> x.disk, snaps |-> [x.snaps EXCEPT ![n] = k], ok |-> TRUE]
  BY KeptFits DEF Fits
<1>2. x \in CallWorlds
  BY DEF Made
<1> HIDE DEF k
<1>3. y \in CallWorlds /\ y.snaps = [x.snaps EXCEPT ![n] = k] /\ y.ok = TRUE
  BY <1>1, <1>2 DEF CallWorlds, Snaps
<1>4. /\ v.row = [x.row EXCEPT ![n] = r] /\ v.disk = d /\ v.snaps = y.snaps /\ v.ok = y.ok
      /\ v = [row |-> v.row, disk |-> v.disk, snaps |-> v.snaps, ok |-> v.ok]
  BY <1>3 DEF CallWorlds, Placed
<1>5. v = Changed(x, n, r, k, d)
  BY <1>3, <1>4 DEF Changed
<1> QED
  BY <1>1, <1>5, ChangeFits

\* Removing a node and its file.
LEMMA DeletedFits ==
  ASSUME LogInv, NEW C, NEW x \in Made(C), x.ok, NEW n \in Nodes, x.row[n] # NoNode
  PROVE  Deleted(x, n) \in Made(C)
<1> DEFINE y == Capture(x, n, Pre(x, n))
           d == [x.disk EXCEPT ![x.row[n].path] = NoFile]
           v == Placed(x, y, n, NoNode, d)
<1>1. x \in CallWorlds
  BY DEF Made
<1>2. y = [row |-> x.row, disk |-> x.disk, snaps |-> [x.snaps EXCEPT ![n] = Kept(x, n)], ok |-> TRUE]
  BY KeptFits
<1>3. Deleted(x, n) = [y EXCEPT !.row[n] = NoNode, !.disk[x.row[n].path] = NoFile]
  BY DEF Deleted
<1>4. y \in [row : {x.row}, disk : {x.disk}, snaps : {y.snaps}, ok : {TRUE}]
  BY <1>2
<1> HIDE DEF y
<1>5. Deleted(x, n) = v
  BY <1>3, <1>4 DEF Placed
<1>6. d \in [Paths -> Texts \cup {NoFile}]
  BY <1>1 DEF CallWorlds
<1>7. y = Capture(x, n, Pre(x, n))
  BY DEF y
<1> HIDE DEF d
<1>8. v = Placed(x, y, n, NoNode, d) /\ Free(x, n, NoNode)
  BY DEF Free
<1> HIDE DEF v
<1>9. v \in Made(C)
  BY <1>6, <1>7, <1>8, KeptChange
<1> QED
  BY <1>5, <1>9

\* Moving a node's file, and rendering the node.
LEMMA MovedFits ==
  ASSUME LogInv, NEW C, NEW x \in Made(C), x.ok, NEW n \in Nodes, x.row[n] # NoNode,
         NEW p \in Paths
  PROVE  Moved(x, n, p) \in Made(C)
<1> DEFINE y   == Capture(x, n, Pre(x, n))
           old == x.row[n].path
           d   == [x.disk EXCEPT ![p] = x.disk[old], ![old] = NoFile]
           r   == [x.row[n] EXCEPT !.path = p]
           at  == [y EXCEPT !.row[n].path = p, !.disk = [@ EXCEPT ![p] = x.disk[old], ![old] = NoFile]]
           v   == Placed(x, y, n, r, d)
<1>1. /\ x \in CallWorlds /\ x.row \in [Nodes -> Row \cup {NoNode}] /\ x.row[n] \in Row /\ old \in Paths
      /\ x.disk \in [Paths -> Texts \cup {NoFile}] /\ x.row[n].text \in Texts
  BY DEF Made, CallWorlds, Row
<1>2. y = [row |-> x.row, disk |-> x.disk, snaps |-> [x.snaps EXCEPT ![n] = Kept(x, n)], ok |-> TRUE]
  BY KeptFits
<1>3. Moved(x, n, p) = IF Taken(x, p) THEN Refused(x) ELSE Updated(at, n, x.row[n].text)
  BY DEF Moved
<1>4. y \in [row : {x.row}, disk : {x.disk}, snaps : {y.snaps}, ok : {TRUE}]
  BY <1>2
<1>5. y = Capture(x, n, Pre(x, n))
  OBVIOUS
<1> HIDE DEF y, old
<1>6. at = v
  BY <1>1, <1>4 DEF Placed
<1>7. d \in [Paths -> Texts \cup {NoFile}]
  BY <1>1
<1>8. r \in Row /\ r.path = p /\ r # NoNode
  BY <1>1, UndoConstants DEF Row
<1> HIDE DEF d, r, at
<1>9. v = Placed(x, y, n, r, d)
  OBVIOUS
<1> HIDE DEF v
<1>10. CASE Taken(x, p)
  BY <1>1, <1>3, <1>10 DEF Refused, Made, CallWorlds
<1>11. CASE ~Taken(x, p)
  <2>1. Free(x, n, r)
    BY <1>8, <1>11 DEF Taken, Free
  <2>2. v \in Made(C) /\ v.ok /\ v.row[n] = r
    BY <1>5, <1>7, <1>8, <1>9, <2>1, KeptChange
  <2> QED
    BY <1>1, <1>3, <1>6, <1>8, <1>11, <2>2, UpdatedFits
<1> QED
  BY <1>10, <1>11


\* A change of directory: the old file goes, the node is written at the new path.
LEMMA RelocatedFits ==
  ASSUME LogInv, NEW C, NEW x \in Made(C), x.ok, NEW n \in Nodes, x.row[n] # NoNode,
         NEW p \in Paths, NEW t \in Texts
  PROVE  Relocated(x, n, p, t) \in Made(C)
<1> DEFINE y   == Capture(x, n, Pre(x, n))
           old == x.row[n].path
           d   == [x.disk EXCEPT ![old] = NoFile]
           r   == x.row[n]
           at  == [y EXCEPT !.disk[old] = NoFile]
           v   == Placed(x, y, n, r, d)
<1>1. /\ x \in CallWorlds /\ x.row \in [Nodes -> Row \cup {NoNode}] /\ r \in Row
      /\ x.disk \in [Paths -> Texts \cup {NoFile}] /\ x.snaps \in [Nodes -> Snapshot \cup {Nothing}]
  BY DEF Made, CallWorlds, Snaps
<1>2. y = [row |-> x.row, disk |-> x.disk, snaps |-> [x.snaps EXCEPT ![n] = Kept(x, n)], ok |-> TRUE]
  BY KeptFits
<1>3. Relocated(x, n, p, t) = IF Taken(x, p) \/ x.disk[old] = NoFile THEN Refused(x)
                              ELSE Hashed(Written(at, n, p, t), n, t)
  BY DEF Relocated
<1>4. /\ y \in [row : {x.row}, disk : {x.disk}, snaps : {y.snaps}, ok : {TRUE}]
      /\ y.snaps[n] # Nothing
  <2>1. Kept(x, n) # Nothing
    BY KeptFits, UndoConstants DEF Fits
  <2> HIDE DEF y
  <2> QED
    BY <1>1, <1>2, <2>1
<1>5. y = Capture(x, n, Pre(x, n)) /\ Free(x, n, r)
  BY <1>1 DEF Made, InCall, Apart, Free, At
<1> HIDE DEF y
<1>6. at = v
  BY <1>1, <1>4 DEF Placed
<1>7. d \in [Paths -> Texts \cup {NoFile}]
  BY <1>1
<1>8. v.row = x.row /\ v.snaps = y.snaps
  BY <1>1, <1>4 DEF Placed
<1>9. v = Placed(x, y, n, r, d)
  OBVIOUS
<1> HIDE DEF d, r, at, v
<1>10. v \in Made(C) /\ v.ok
  BY <1>1, <1>5, <1>7, <1>9, KeptChange
<1>11. CASE Taken(x, p) \/ x.disk[old] = NoFile
  BY <1>1, <1>3, <1>11 DEF Refused, Made, CallWorlds
<1>12. CASE ~(Taken(x, p) \/ x.disk[old] = NoFile)
  <2>1. At(v.row, p) \ {n} = {}
    BY <1>8, <1>12 DEF Taken
  <2>2. v = Capture(v, n, Pre(v, n))
    BY <1>4, <1>8 DEF Capture
  <2>3. v.row[n] # NoNode
    BY <1>8
  <2> DEFINE h == Hashed(Written(v, n, p, t), n, t)
  <2>4. h = Hashed(Written(v, n, p, t), n, t)
    OBVIOUS
  <2> HIDE DEF h
  <2>5. h \in Made(C)
    BY <1>10, <2>1, <2>2, <2>3, <2>4, RenderedFits
  <2> QED
    BY <1>3, <1>6, <1>12, <2>5 DEF h
<1> QED
  BY <1>11, <1>12

\* A node that has not been there, at a free path.
LEMMA CreatedFits ==
  ASSUME LogInv, NEW C, NEW x \in Made(C), x.ok, NEW n \in C, n \in Nodes, n \in unused,
         x.snaps[n] = Nothing, NEW p \in Paths, NEW t \in Texts
  PROVE  Created(x, n, p, t) \in Made(C)
<1> DEFINE s  == [path |-> p, text |-> t, born |-> TRUE, post |-> NoHash]
           h  == [path |-> p, text |-> t, born |-> TRUE, post |-> t]
           r  == [path |-> p, text |-> t]
           d  == [x.disk EXCEPT ![p] = t]
           w  == Written(x, n, p, t)
           y  == Capture(w, n, s)
           v  == Hashed(y, n, t)
<1>1. /\ x \in CallWorlds /\ x.row \in [Nodes -> Row \cup {NoNode}]
      /\ x.disk \in [Paths -> Texts \cup {NoFile}] /\ x.snaps \in [Nodes -> Snapshot \cup {Nothing}]
      /\ x.ok = TRUE
  BY DEF Made, CallWorlds, Snaps
<1>2. Created(x, n, p, t) = IF Taken(x, p) THEN Refused(x) ELSE v
  BY DEF Created
<1>3. CASE Taken(x, p)
  BY <1>1, <1>2, <1>3 DEF Refused, Made, CallWorlds
<1>4. CASE ~Taken(x, p)
  <2>1. w = [x EXCEPT !.row = [x.row EXCEPT ![n] = r], !.disk = d]
    BY <1>1 DEF Written, CallWorlds
  <2>2. /\ h \in Snapshot /\ h.born /\ [s EXCEPT !.post = t] = h /\ r \in Row /\ r.path = p
        /\ d \in [Paths -> Texts \cup {NoFile}]
    <3>1. h \in Snapshot /\ h.born
      BY DEF Snapshot
    <3>2. [s EXCEPT !.post = t] = h
      <4>1. s \in [path : {p}, text : {t}, born : {TRUE}, post : {NoHash}]
        OBVIOUS
      <4> HIDE DEF s
      <4> DEFINE u == [s EXCEPT !.post = t]
      <4>2. u \in [path : {p}, text : {t}, born : {TRUE}, post : {t}]
        BY <4>1
      <4> HIDE DEF u
      <4>3. u = h
        BY <4>2
      <4> QED
        BY <4>3 DEF u
    <3>3. r \in Row /\ r.path = p /\ d \in [Paths -> Texts \cup {NoFile}]
      BY <1>1 DEF Row
    <3> QED
      BY <3>1, <3>2, <3>3
  <2>3. Fits(C, n, h) /\ Free(x, n, r)
    <3>1. row[n] = NoNode
      BY DEF LogInv, Fresh
    <3> HIDE DEF h, r
    <3> QED
      BY <1>4, <2>2, <3>1 DEF Fits, Says, Free, Taken
  <2> HIDE DEF w, d, r
  <2>4. /\ w.row = [x.row EXCEPT ![n] = r] /\ w.disk = d /\ w.snaps = x.snaps /\ w.ok = TRUE
        /\ w \in [row : {w.row}, disk : {d}, snaps : {x.snaps}, ok : {TRUE}]
    BY <1>1, <2>1 DEF CallWorlds
  <2> HIDE DEF s, h
  <2>5. y = [w EXCEPT !.snaps[n] = s]
    BY <2>4 DEF Capture
  <2> HIDE DEF y
  <2> DEFINE c == [x.snaps EXCEPT ![n] = s]
  <2>6. y = [w EXCEPT !.snaps = c]
    BY <2>4, <2>5
  <2> HIDE DEF c
  <2>7. y.row = w.row /\ y.disk = d /\ y.snaps = c /\ y.ok = TRUE
        /\ y \in [row : {w.row}, disk : {d}, snaps : {c}, ok : {TRUE}]
    BY <2>4, <2>6
  <2> DEFINE e == [x.snaps EXCEPT ![n] = h]
  <2>8. c[n] = s /\ [c EXCEPT ![n] = h] = e
    BY <1>1 DEF c
  <2>9. v = [y EXCEPT !.snaps = [c EXCEPT ![n] = [c[n] EXCEPT !.post = t]]]
    BY <2>7 DEF Hashed
  <2>10. v = [y EXCEPT !.snaps = e]
    BY <2>2, <2>8, <2>9
  <2> HIDE DEF v, e
  <2>11. /\ v.row = w.row /\ v.disk = d /\ v.snaps = e /\ v.ok = TRUE
         /\ v = [row |-> v.row, disk |-> v.disk, snaps |-> v.snaps, ok |-> v.ok]
    BY <2>7, <2>10
  <2>12. v = Changed(x, n, r, h, d)
    BY <2>4, <2>11 DEF Changed, e
  <2>13. v \in Made(C)
    BY <2>2, <2>3, <2>12, ChangeFits
  <2> QED
    BY <1>2, <1>4, <2>13
<1> QED
  BY <1>3, <1>4

\* Every step of a call, possible or not.
CallOne(x, step, n, p, t) == IF x.ok /\ Possible(x, step, n) THEN Stepped(x, step, n, p, t) ELSE Refused(x)

LEMMA StepFits ==
  ASSUME LogInv, NEW C, NEW x \in Made(C), NEW step \in Steps, NEW n \in Nodes, NEW p \in Paths,
         NEW t \in Texts, step = "create" => n \in C
  PROVE  CallOne(x, step, n, p, t) \in Made(C)
<1>1. CASE ~(x.ok /\ Possible(x, step, n))
  BY <1>1 DEF CallOne, Refused, Made, CallWorlds
<1>2. CASE x.ok /\ Possible(x, step, n)
  <2>1. CallOne(x, step, n, p, t) = Stepped(x, step, n, p, t)
    BY <1>2 DEF CallOne
  <2>2. CASE step = "create"
    <3>1. n \in unused /\ x.snaps[n] = Nothing /\ Stepped(x, step, n, p, t) = Created(x, n, p, t)
      BY <1>2, <2>2 DEF Possible, Stepped
    <3> QED
      BY <1>2, <2>1, <2>2, <3>1, CreatedFits
  <2>3. CASE step # "create"
    <3>1. x.row[n] # NoNode
      BY <1>2, <2>3 DEF Possible
    <3>2. \/ step = "update" /\ Stepped(x, step, n, p, t) = Updated(x, n, t)
          \/ step = "move" /\ Stepped(x, step, n, p, t) = Moved(x, n, p)
          \/ step = "relocate" /\ Stepped(x, step, n, p, t) = Relocated(x, n, p, t)
          \/ step = "delete" /\ Stepped(x, step, n, p, t) = Deleted(x, n)
      BY <2>3 DEF Steps, Stepped
    <3>3. Updated(x, n, t) \in Made(C) /\ Moved(x, n, p) \in Made(C)
      BY <1>2, <3>1, UpdatedFits, MovedFits
    <3>4. Relocated(x, n, p, t) \in Made(C) /\ Deleted(x, n) \in Made(C)
      BY <1>2, <3>1, RelocatedFits, DeletedFits
    <3> QED
      BY <2>1, <3>2, <3>3, <3>4
  <2> QED
    BY <2>2, <2>3
<1> QED
  BY <1>1, <1>2

\* The world a call makes.
Newborn(steps, at) == {at[i][1] : i \in {j \in DOMAIN steps : steps[j] = "create"}}

CallStart == [row |-> row, disk |-> disk, snaps |-> Blank, ok |-> TRUE]

CallMakes(steps, at) ==
  LET Next1(w, i) == IF w.ok /\ Possible(w, steps[i], at[i][1])
                       THEN Stepped(w, steps[i], at[i][1], at[i][2], at[i][3]) ELSE Refused(w)
  IN FoldLeft(Next1, CallStart, [i \in DOMAIN steps |-> i])

CallOneAt(x, i, steps, at) == CallOne(x, steps[i], at[i][1], at[i][2], at[i][3])

Positions(steps) == [i \in DOMAIN steps |-> i]

CallFold(steps, at) ==
  CHOOSE it : it = [t \in SUBSET DOMAIN Positions(steps) |->
    IF t = {} THEN CallStart
    ELSE CallOneAt(it[t \ {Max(t)}], Positions(steps)[Max(t)], steps, at)]

LEMMA CallFits ==
  ASSUME LogInv, NEW steps \in Seq(Steps), NEW at \in [DOMAIN steps -> Nodes \X Paths \X Texts]
  PROVE  CallMakes(steps, at) \in Made(Newborn(steps, at))
<1> DEFINE N    == Len(steps)
           I    == Made(Newborn(steps, at))
           One(x, i) == CallOneAt(x, i, steps, at)
           seq  == Positions(steps)
           Is(it) == it = [t \in SUBSET DOMAIN seq |->
                             IF t = {} THEN CallStart ELSE One(it[t \ {Max(t)}], seq[Max(t)])]
           g    == [x \in I \X (1 .. N) |-> One(x[1], x[2])]
           fold == CallFold(steps, at)
<1>1. /\ N \in Nat /\ DOMAIN steps = 1 .. N /\ DOMAIN seq = 1 .. N /\ seq \in [1 .. N -> 1 .. N]
      /\ \A i \in 1 .. N : seq[i] = i
  BY LenProperties DEF Positions
<1>2. \A x \in I, i \in 1 .. N : One(x, i) \in I
  <2> SUFFICES ASSUME NEW x \in I, NEW i \in 1 .. N PROVE One(x, i) \in I
    OBVIOUS
  <2>1. steps[i] \in Steps /\ at[i][1] \in Nodes /\ at[i][2] \in Paths /\ at[i][3] \in Texts
    BY <1>1, ElementOfSeq
  <2>2. steps[i] = "create" => at[i][1] \in Newborn(steps, at)
    BY <1>1 DEF Newborn
  <2> QED
    BY <2>1, <2>2, StepFits DEF CallOneAt
<1>3. CallStart \in I
  <2>1. Blank \in Snaps /\ \A n \in Nodes : Blank[n] = Nothing
    BY DEF Blank, Snaps
  <2>2. CallStart \in CallWorlds
    BY <2>1 DEF LogInv, CallStart, CallWorlds
  <2>3. InCall(Newborn(steps, at), CallStart)
    BY <2>1 DEF LogInv, CallStart, InCall, Says
  <2> QED
    BY <2>2, <2>3 DEF Made
<1>4. g \in [I \X (1 .. N) -> I] /\ \A x \in I, i \in 1 .. N : g[<<x, i>>] = One(x, i)
  <2> HIDE DEF I
  <2> QED
    BY <1>2
<1> HIDE DEF g, I, N, seq
<1>5. \E it : Is(it)
  <2>1. PICK it \in [SUBSET (1 .. N) -> I] : IsFold(it, g, CallStart, N, seq)
    BY <1>1, <1>3, <1>4, FoldExists
  <2>2. ASSUME NEW t \in SUBSET (1 .. N)
        PROVE  it[t] = IF t = {} THEN CallStart ELSE One(it[t \ {Max(t)}], seq[Max(t)])
    <3>1. CASE t # {}
      <4>1. Max(t) \in t
        BY <1>1, <3>1, MaxIsMember
      <4>2. it[t \ {Max(t)}] \in I /\ Max(t) \in 1 .. N /\ seq[Max(t)] = Max(t)
        BY <1>1, <2>1, <4>1
      <4> QED
        BY <1>4, <2>1, <3>1, <4>2 DEF IsFold
    <3> QED
      BY <2>1, <3>1 DEF IsFold
  <2> DEFINE D == SUBSET DOMAIN seq
             made(t) == IF t = {} THEN CallStart ELSE One(it[t \ {Max(t)}], seq[Max(t)])
  <2>3. it \in [D -> I] /\ \A t \in D : it[t] = made(t)
    BY <1>1, <2>1, <2>2
  <2> HIDE DEF made, D
  <2>4. it = [t \in D |-> made(t)]
    BY <2>3
  <2> QED
    BY <2>4 DEF made, D
<1>6. Is(fold)
  BY <1>5 DEF CallFold, seq
<1>7. CallMakes(steps, at) = fold[1 .. N]
  <2>1. CallMakes(steps, at) = fold[DOMAIN seq]
    BY DEF CallMakes, FoldLeft, MapThenFoldSet, CallFold, CallOneAt, CallOne, Positions, seq
  <2> QED
    BY <1>1, <2>1
<1> HIDE DEF fold
<1>8. IsFoldWithin(fold, g, CallStart, N, seq, I)
  <2>1. fold[{}] = CallStart
    BY <1>6
  <2>2. ASSUME NEW t \in SUBSET (1 .. N), t # {}, fold[t \ {Max(t)}] \in I
        PROVE  fold[t] = g[<<fold[t \ {Max(t)}], seq[Max(t)]>>]
    <3>1. fold[t] = One(fold[t \ {Max(t)}], seq[Max(t)])
      BY <1>1, <1>6, <2>2
    <3>2. Max(t) \in t
      BY <1>1, <2>2, MaxIsMember
    <3>3. Max(t) \in 1 .. N /\ seq[Max(t)] \in 1 .. N
      BY <1>1, <3>2
    <3> QED
      BY <1>4, <2>2, <3>1, <3>3
  <2> QED
    BY <2>1, <2>2 DEF IsFoldWithin
<1> HIDE DEF Is
<1>9. fold[1 .. N] \in I
  BY <1>1, <1>3, <1>4, <1>8, FoldStays
<1> QED
  BY <1>7, <1>9 DEF I

-----------------------------------------------------------------------------
(* An undo: the operations one by one, the latest first. *)

UndoWorlds == {x \in Orderly : SameSnaps(log, x.log)}

UndoStart == [row |-> row, disk |-> disk, log |-> log, conflicts |-> {}, ok |-> TRUE]

UndoOne(x, i, ops, reverted) == IF i \in ops /\ x.ok THEN RestoreOperation(x, i, ops, reverted) ELSE x

\* What an operation's turn may do to a world.
LEMMA OneTurn ==
  ASSUME NEW x \in UndoWorlds, NEW i \in DOMAIN log, LogInv, NEW ops, NEW reverted,
         NEW v, v = UndoOne(x, i, ops, reverted)
  PROVE  /\ v \in UndoWorlds
         /\ \A j, n : <<j, n>> \in x.conflicts => <<j, n>> \in v.conflicts
         /\ v.ok => x.ok
         /\ \/ v = x /\ (i \in ops => ~x.ok)
            \/ ~v.ok /\ v.row = x.row /\ v.disk = x.disk
            \/ /\ i \in ops /\ x.ok /\ v.ok
               /\ TakenBack(x, v, log[i].snaps, Todo(x, i, ops, reverted))
               /\ \A n \in Conflicted(x, i, ops) : <<i, n>> \in v.conflicts
<1>1. CASE ~(i \in ops /\ x.ok)
  BY <1>1 DEF UndoOne
<1>2. CASE i \in ops /\ x.ok
  <2>1. v = RestoreOperation(x, i, ops, reverted) /\ x \in Orderly /\ SameSnaps(log, x.log)
    BY <1>2 DEF UndoOne, UndoWorlds
  <2>2. i \in DOMAIN x.log /\ i \in Nat /\ x.log[i].snaps = log[i].snaps /\ DOMAIN log = DOMAIN x.log
    BY <2>1, LenProperties DEF SameSnaps, LogInv
  <2>3. /\ v \in Orderly /\ SameSnaps(x.log, v.log)
        /\ \A j, n : <<j, n>> \in v.conflicts <=>
                      <<j, n>> \in x.conflicts \/ (j = i /\ n \in Conflicted(x, i, ops))
        /\ ~v.ok => v.row = x.row /\ v.disk = x.disk
        /\ v.ok => TakenBack(x, v, x.log[i].snaps, Todo(x, i, ops, reverted))
    BY <1>2, <2>1, <2>2, OneOperation
  <2>4. SameSnaps(log, v.log)
    BY <2>1, <2>3 DEF SameSnaps
  <2>5. v \in UndoWorlds
    BY <2>3, <2>4 DEF UndoWorlds
  <2>6. v.ok => TakenBack(x, v, log[i].snaps, Todo(x, i, ops, reverted))
    BY <2>2, <2>3
  <2>7. \A j, n : <<j, n>> \in x.conflicts => <<j, n>> \in v.conflicts
    BY <2>3
  <2>8. \A n \in Conflicted(x, i, ops) : <<i, n>> \in v.conflicts
    BY <2>3
  <2> QED
    BY <1>2, <2>3, <2>5, <2>6, <2>7, <2>8
<1> QED
  BY <1>1, <1>2

\* What holds at the start of an undo, and is passed on by each turn, holds of it.
Turns(ops, reverted, P) ==
  \A k \in 1 .. Len(log), x \in UndoWorlds :
    <<k - 1, x>> \in P => <<k, UndoOne(x, Len(log) + 1 - k, ops, reverted)>> \in P

UndoFold(ops, reverted) ==
  CHOOSE it : it = [t \in SUBSET DOMAIN ReverseChronological |->
    IF t = {} THEN UndoStart
    ELSE UndoOne(it[t \ {Max(t)}], ReverseChronological[Max(t)], ops, reverted)]

LEMMA UndoClimbs ==
  ASSUME LogInv, NEW ops, NEW reverted, NEW P, <<0, UndoStart>> \in P, Turns(ops, reverted, P),
         NEW v, v = RestoreMany(ops, reverted)
  PROVE  v \in UndoWorlds /\ <<Len(log), v>> \in P
<1> DEFINE N    == Len(log)
           I    == UndoWorlds
           One(x, i) == UndoOne(x, i, ops, reverted)
           seq  == ReverseChronological
           Is(it) == it = [t \in SUBSET DOMAIN seq |->
                             IF t = {} THEN UndoStart ELSE One(it[t \ {Max(t)}], seq[Max(t)])]
           g    == [x \in I \X (1 .. N) |-> One(x[1], x[2])]
           fold == UndoFold(ops, reverted)
<1>1. /\ N \in Nat /\ DOMAIN log = 1 .. N /\ DOMAIN seq = 1 .. N /\ seq \in [1 .. N -> 1 .. N]
      /\ \A k \in 1 .. N : seq[k] = N + 1 - k
  <2>1. N \in Nat /\ DOMAIN log = 1 .. N
    BY LenProperties DEF LogInv
  <2>2. \A k \in 1 .. N : N + 1 - k \in 1 .. N
    BY <2>1
  <2> QED
    BY <2>1, <2>2 DEF ReverseChronological
<1>2. \A x \in I, i \in 1 .. N : One(x, i) \in I
  BY <1>1, OneTurn
<1>3. UndoStart \in I
  <2>1. UndoStart \in Worlds
    BY DEF UndoStart, LogInv, Worlds
  <2> QED
    BY <2>1 DEF UndoStart, LogInv, Orderly, UndoWorlds, SameSnaps
<1>4. g \in [I \X (1 .. N) -> I] /\ \A x \in I, i \in 1 .. N : g[<<x, i>>] = One(x, i)
  <2> HIDE DEF I
  <2> QED
    BY <1>2
<1>5. Climbing(g, I, N, seq, P)
  <2> SUFFICES ASSUME NEW k \in 1 .. N, NEW x \in I, <<k - 1, x>> \in P
               PROVE  <<k, g[<<x, seq[k]>>]>> \in P
    BY DEF Climbing
  <2>1. seq[k] \in 1 .. N /\ seq[k] = N + 1 - k
    BY <1>1
  <2>2. g[<<x, seq[k]>>] = One(x, N + 1 - k)
    BY <1>4, <2>1
  <2> QED
    BY <2>2 DEF Turns
<1> HIDE DEF g, I, N, seq
<1>6. \E it : Is(it)
  <2>1. PICK it \in [SUBSET (1 .. N) -> I] : IsFold(it, g, UndoStart, N, seq)
    BY <1>1, <1>3, <1>4, FoldExists
  <2>2. ASSUME NEW t \in SUBSET (1 .. N)
        PROVE  it[t] = IF t = {} THEN UndoStart ELSE One(it[t \ {Max(t)}], seq[Max(t)])
    <3>1. CASE t # {}
      <4>1. Max(t) \in t
        BY <1>1, <3>1, MaxIsMember
      <4>2. it[t \ {Max(t)}] \in I /\ seq[Max(t)] \in 1 .. N
        BY <1>1, <2>1, <4>1
      <4> QED
        BY <1>4, <2>1, <3>1, <4>2 DEF IsFold
    <3> QED
      BY <2>1, <3>1 DEF IsFold
  <2> DEFINE D == SUBSET DOMAIN seq
             made(t) == IF t = {} THEN UndoStart ELSE One(it[t \ {Max(t)}], seq[Max(t)])
  <2>3. it \in [D -> I] /\ \A t \in D : it[t] = made(t)
    BY <1>1, <2>1, <2>2
  <2> HIDE DEF made, D
  <2>4. it = [t \in D |-> made(t)]
    BY <2>3
  <2> QED
    BY <2>4 DEF made, D
<1>7. Is(fold)
  BY <1>6 DEF UndoFold, seq
<1>8. v = fold[1 .. N]
  <2>1. v = fold[DOMAIN seq]
    BY DEF RestoreMany, FoldLeft, MapThenFoldSet, UndoFold, UndoOne, UndoStart, seq
  <2> QED
    BY <1>1, <2>1
<1> HIDE DEF fold
<1>9. IsFoldWithin(fold, g, UndoStart, N, seq, I)
  <2>1. fold[{}] = UndoStart
    BY <1>7
  <2>2. ASSUME NEW t \in SUBSET (1 .. N), t # {}, fold[t \ {Max(t)}] \in I
        PROVE  fold[t] = g[<<fold[t \ {Max(t)}], seq[Max(t)]>>]
    <3>1. fold[t] = One(fold[t \ {Max(t)}], seq[Max(t)])
      BY <1>1, <1>7, <2>2
    <3>2. Max(t) \in t
      BY <1>1, <2>2, MaxIsMember
    <3>3. Max(t) \in 1 .. N /\ seq[Max(t)] \in 1 .. N
      BY <1>1, <3>2
    <3> QED
      BY <1>4, <2>2, <3>1, <3>3
  <2> QED
    BY <2>1, <2>2 DEF IsFoldWithin
<1> HIDE DEF Is
<1>10. fold[1 .. N] \in I /\ <<N, fold[1 .. N]>> \in P
  BY <1>1, <1>3, <1>4, <1>9, <1>5, FoldClimbs
<1> QED
  BY <1>8, <1>10 DEF I, N

-----------------------------------------------------------------------------
(* What holds while the operations "ops" are taken back. *)

\* The operations with a snapshot of the node, and those of them that had their turn
\* when all later than h had it.
Within(ops, n) == {i \in ops : log[i].snaps[n] # Nothing}
Done(ops, h, n) == {i \in Within(ops, n) : i > h}

LEMMA LogTyped ==
  ASSUME LogInv
  PROVE  /\ Len(log) \in Nat /\ DOMAIN log = 1 .. Len(log)
         /\ \A i \in DOMAIN log : log[i] \in Entry
         /\ \A i \in DOMAIN log, n \in Nodes :
              /\ log[i].snaps[n] # Nothing => log[i].snaps[n] \in Snapshot
              /\ log[i].was[n] \in Row \cup {NoNode}
<1>1. Len(log) \in Nat /\ DOMAIN log = 1 .. Len(log)
  BY LenProperties DEF LogInv
<1>2. \A i \in DOMAIN log : log[i] \in Entry
  BY <1>1, ElementOfSeq DEF LogInv
<1>3. \A i \in DOMAIN log : /\ log[i].snaps \in [Nodes -> Snapshot \cup {Nothing}]
                            /\ log[i].was \in [Nodes -> Row \cup {NoNode}]
  BY <1>2 DEF Entry
<1> QED
  BY <1>1, <1>2, <1>3

\* A turn that is not refused.
Turn(ops, reverted, i, x, v) ==
  /\ i \in DOMAIN log /\ i \in ops /\ x \in UndoWorlds /\ v \in UndoWorlds /\ x.ok /\ v.ok
  /\ \A j, n : <<j, n>> \in x.conflicts => <<j, n>> \in v.conflicts
  /\ TakenBack(x, v, log[i].snaps, Todo(x, i, ops, reverted))
  /\ \A n \in Conflicted(x, i, ops) : <<i, n>> \in v.conflicts

\* Which nodes a turn is about.
LEMMA TurnIsAbout ==
  ASSUME LogInv, NEW ops, NEW reverted, NEW i, NEW x, NEW v, Turn(ops, reverted, i, x, v)
  PROVE  /\ \A n \in Todo(x, i, ops, reverted) : n \in Nodes /\ log[i].snaps[n] # Nothing /\ i \in Within(ops, n)
         /\ \A n \in Nodes : log[i].snaps[n] # Nothing /\ <<i, n>> \notin v.conflicts
                             => n \in Todo(x, i, ops, reverted)
         /\ \A n \in Todo(x, i, ops, reverted) :
              ~log[i].snaps[n].born /\ Drifted(x.row, n, log[i].snaps[n]) => n \in reverted
<1>1. x.log[i].snaps = log[i].snaps
  BY DEF Turn, UndoWorlds, SameSnaps
<1>2. \A n \in Snapped(x.log, i) : ~log[i].snaps[n].born /\ Drifted(x.row, n, log[i].snaps[n])
                                   => n \in Conflicted(x, i, ops)
  BY <1>1, Zenon DEF Conflicted
<1>3. \A n \in Conflicted(x, i, ops) : n \in Snapped(x.log, i) /\ <<i, n>> \in v.conflicts
  BY DEF Conflicted, Turn
<1>4. \A n : n \in Snapped(x.log, i) <=> n \in Nodes /\ log[i].snaps[n] # Nothing
  BY <1>1 DEF Snapped
<1> QED
  BY <1>2, <1>3, <1>4 DEF Todo, Within, Turn

\* Operations of "ops" created nodes at p that are not there.
Left(ops, p) == \E i \in ops, n \in Nodes : BornAt(i, n, p) /\ (row[n] = NoNode \/ row[n].path # p)

Carried(ops, i, p) ==
  \E j \in ops, n \in Nodes : j < i /\ BornAt(j, n, p) /\
    \/ row[n] = NoNode \/ row[n].path # p
    \/ \E k \in Within(ops, n) : log[k].snaps[n].path # p

\* The nodes "ops" are not about stay, and their files.
Others(ops, x) ==
  \A n \in Nodes : Within(ops, n) = {} =>
    /\ x.row[n] = row[n]
    /\ row[n] # NoNode /\ ~Left(ops, row[n].path) => x.disk[row[n].path] = disk[row[n].path]

LEMMA OthersTurn ==
  ASSUME LogInv, NEW ops, NEW reverted, NEW i, NEW x, NEW v, Turn(ops, reverted, i, x, v), Others(ops, x)
  PROVE  Others(ops, v)
<1> DEFINE s    == log[i].snaps
           todo == Todo(x, i, ops, reverted)
<1> SUFFICES ASSUME NEW n \in Nodes, Within(ops, n) = {}
             PROVE  /\ v.row[n] = row[n]
                    /\ row[n] # NoNode /\ ~Left(ops, row[n].path) => v.disk[row[n].path] = disk[row[n].path]
  BY DEF Others
<1>1. \A m \in todo : m \in Nodes /\ s[m] # Nothing /\ m # n
  BY TurnIsAbout
<1>2. v.row[n] = x.row[n] /\ x.row[n] = row[n]
  BY <1>1 DEF Turn, TakenBack, Others
<1>3. ASSUME row[n] # NoNode, ~Left(ops, row[n].path)
      PROVE  v.disk[row[n].path] = disk[row[n].path]
  <2> DEFINE p == row[n].path
  <2>1. p \in Paths
    BY <1>3 DEF LogInv, Row
  <2>2. FileAfter(x, v, s, todo, p)
    BY <2>1 DEF Turn, TakenBack
  <2>3. ~ \E m \in todo : v.row[m] # NoNode /\ v.row[m].path = p
    BY <1>1, <1>2, <1>3 DEF Turn, UndoWorlds, Orderly, Apart
  <2>4. ~ \E m \in todo : s[m].born /\ s[m].path = p
    <3> SUFFICES ASSUME NEW m \in todo, s[m].born, s[m].path = p PROVE FALSE
      OBVIOUS
    <3>1. BornAt(i, m, p) /\ i \in ops /\ m \in Nodes /\ m # n
      BY <1>1 DEF BornAt, Turn
    <3>2. row[m] # NoNode /\ row[m].path = p
      BY <1>3, <3>1 DEF Left
    <3> QED
      BY <1>3, <3>1, <3>2 DEF LogInv, Apart
  <2>5. v.disk[p] = x.disk[p]
    BY <2>2, <2>3, <2>4 DEF FileAfter
  <2>6. x.disk[p] = disk[p]
    BY <1>3 DEF Others
  <2> QED
    BY <2>5, <2>6
<1> QED
  BY <1>2, <1>3

\* What was written after the operations, and was not what they left.
Guarded(ops, reverted, n) ==
  /\ Within(ops, n) # {} /\ row[n] # NoNode /\ n \notin reverted
  /\ \A i \in Within(ops, n) : ~log[i].snaps[n].born /\ log[i].snaps[n].post \notin {NoHash, row[n].text}

Edits(ops, reverted, x) == \A n \in Nodes : Guarded(ops, reverted, n) => x.row[n] = row[n]

LEMMA EditsTurn ==
  ASSUME LogInv, NEW ops, NEW reverted, NEW i, NEW x, NEW v, Turn(ops, reverted, i, x, v),
         Edits(ops, reverted, x)
  PROVE  Edits(ops, reverted, v)
<1> SUFFICES ASSUME NEW n \in Nodes, Guarded(ops, reverted, n) PROVE v.row[n] = row[n]
  BY DEF Edits
<1>1. x.row[n] = row[n]
  BY DEF Edits
<1>2. n \notin Todo(x, i, ops, reverted)
  <2> SUFFICES ASSUME n \in Todo(x, i, ops, reverted) PROVE FALSE
    OBVIOUS
  <2>1. i \in Within(ops, n)
    BY TurnIsAbout
  <2>2. Drifted(x.row, n, log[i].snaps[n]) /\ ~log[i].snaps[n].born
    BY <1>1, <2>1 DEF Guarded, Drifted
  <2> QED
    BY <2>2, TurnIsAbout DEF Guarded
<1> QED
  BY <1>1, <1>2 DEF Turn, TakenBack

\* A node is as it was, or as one of the operations found it.
Whence(ops, h, x) ==
  \A n \in Nodes :
    \/ x.row[n] = row[n]
    \/ \E j \in Done(ops, h, n) :
         IF log[j].snaps[n].born THEN x.row[n] = NoNode
         ELSE x.row[n] # NoNode /\ x.row[n].path = log[j].snaps[n].path

LEMMA WhenceTurn ==
  ASSUME LogInv, NEW ops \in SUBSET DOMAIN log, NEW reverted, NEW i, NEW x, NEW v,
         Turn(ops, reverted, i, x, v), Whence(ops, i, x)
  PROVE  Whence(ops, i - 1, v)
<1> SUFFICES ASSUME NEW n \in Nodes
             PROVE  \/ v.row[n] = row[n]
                    \/ \E j \in Done(ops, i - 1, n) :
                         IF log[j].snaps[n].born THEN v.row[n] = NoNode
                         ELSE v.row[n] # NoNode /\ v.row[n].path = log[j].snaps[n].path
  BY DEF Whence
<1>1. i \in Nat /\ ops \subseteq Nat
  BY LenProperties DEF Turn, LogInv
<1>2. \A j \in Done(ops, i, n) : j \in Done(ops, i - 1, n)
  BY <1>1 DEF Done, Within
<1>3. CASE v.row[n] = x.row[n]
  BY <1>2, <1>3 DEF Whence
<1>4. CASE v.row[n] # x.row[n]
  <2>1. n \in Todo(x, i, ops, reverted)
    BY <1>4 DEF Turn, TakenBack
  <2>2. i \in Done(ops, i - 1, n)
    BY <1>1, <2>1, TurnIsAbout DEF Done
  <2>3. CASE log[i].snaps[n].born
    <3>1. v.row[n] = NoNode
      BY <2>1, <2>3 DEF Turn, TakenBack
    <3> QED
      BY <2>2, <2>3, <3>1
  <2>4. CASE ~log[i].snaps[n].born
    <3>1. v.row[n] = [path |-> log[i].snaps[n].path, text |-> log[i].snaps[n].text]
      BY <1>4, <2>1, <2>4 DEF Turn, TakenBack, Back
    <3>2. log[i].snaps[n] \in Snapshot
      BY <2>1, TurnIsAbout, LogTyped DEF Turn
    <3>3. v.row[n] # NoNode /\ v.row[n].path = log[i].snaps[n].path
      BY <3>1, <3>2, UndoConstants DEF Snapshot, Row
    <3> QED
      BY <2>2, <2>4, <3>3
  <2> QED
    BY <2>3, <2>4
<1> QED
  BY <1>3, <1>4

\* A file or a node is at the path, or one of the operations found a node there.
Found(ops, h, p) ==
  \/ disk[p] # NoFile \/ At(row, p) # {}
  \/ \E m \in Nodes : \E j \in Done(ops, h, m) : log[j].snaps[m].path = p

Places(ops, h, x) ==
  /\ \A p \in Paths : x.disk[p] # NoFile => Found(ops, h, p)
  /\ \A n \in Nodes : x.row[n] # NoNode => Found(ops, h, x.row[n].path)

LEMMA PlacesTurn ==
  ASSUME LogInv, NEW ops \in SUBSET DOMAIN log, NEW reverted, NEW i, NEW x, NEW v,
         Turn(ops, reverted, i, x, v), Places(ops, i, x)
  PROVE  Places(ops, i - 1, v)
<1> DEFINE s    == log[i].snaps
           todo == Todo(x, i, ops, reverted)
<1>1. i \in Nat /\ ops \subseteq Nat /\ i \in ops
  BY LogTyped DEF Turn
<1>2. ASSUME NEW p, Found(ops, i, p) PROVE Found(ops, i - 1, p)
  <2>1. \A m : \A j \in Done(ops, i, m) : j \in Done(ops, i - 1, m)
    BY <1>1 DEF Done, Within
  <2> QED
    BY <1>2, <2>1 DEF Found
<1>3. ASSUME NEW n \in Nodes, v.row[n] # NoNode PROVE Found(ops, i - 1, v.row[n].path)
  <2>1. CASE v.row[n] = x.row[n]
    BY <1>2, <1>3, <2>1 DEF Places
  <2>2. CASE v.row[n] # x.row[n]
    <3>1. n \in todo /\ ~s[n].born
      BY <1>3, <2>2 DEF Turn, TakenBack
    <3>2. v.row[n] = [path |-> s[n].path, text |-> s[n].text]
      BY <2>2, <3>1 DEF Turn, TakenBack, Back
    <3>3. i \in Done(ops, i - 1, n)
      BY <1>1, <3>1, TurnIsAbout DEF Done
    <3>4. v.row[n].path = s[n].path
      BY <3>2
    <3> QED
      BY <3>3, <3>4 DEF Found
  <2> QED
    BY <2>1, <2>2
<1>4. ASSUME NEW p \in Paths, v.disk[p] # NoFile PROVE Found(ops, i - 1, p)
  <2>1. FileAfter(x, v, s, todo, p)
    BY DEF Turn, TakenBack
  <2>2. CASE \E n \in todo : v.row[n] # NoNode /\ v.row[n].path = p
    BY <1>3, <2>2, TurnIsAbout
  <2>3. CASE v.disk[p] = x.disk[p]
    BY <1>2, <1>4, <2>3 DEF Places
  <2> QED
    BY <1>4, <2>1, <2>2, <2>3 DEF FileAfter
<1> QED
  BY <1>3, <1>4 DEF Places

\* The node has been at another path since the operation i, where something else is.
Elsewhere(ops, i, n) ==
  LET there == log[i].was[n] IN
  /\ there # NoNode
  /\ \E r \in {row[n]} \cup {log[j].was[n] : j \in Within(ops, n)} : r # NoNode /\ r.path # there.path
  /\ \/ disk[there.path] # NoFile \/ At(row, there.path) # {}
     \/ \E j \in ops, m \in Nodes :
          <<j, m>> # <<i, n>> /\ log[j].snaps[m] # Nothing /\ log[j].snaps[m].path = there.path

\* A node is what it was before the first of the operations that had their turn.
Restored(ops, h, x) ==
  \A n \in Nodes : \A i \in Done(ops, h, n) :
    (\A j \in Done(ops, h, n) : i <= j) /\ <<i, n>> \notin x.conflicts
      => x.row[n] = log[i].was[n] \/ Elsewhere(ops, i, n)

LEMMA RestoredTurn ==
  ASSUME LogInv, NEW ops \in SUBSET DOMAIN log, NEW reverted, NEW i, NEW x, NEW v,
         Turn(ops, reverted, i, x, v), Whence(ops, i, x), Places(ops, i, x), Restored(ops, i, x)
  PROVE  Restored(ops, i - 1, v)
<1> DEFINE s    == log[i].snaps
           todo == Todo(x, i, ops, reverted)
<1>1. i \in DOMAIN log /\ i \in Nat /\ ops \subseteq Nat /\ i \in ops
  BY LogTyped DEF Turn
<1> SUFFICES ASSUME NEW n \in Nodes, NEW l \in Done(ops, i - 1, n),
                    \A j \in Done(ops, i - 1, n) : l <= j, <<l, n>> \notin v.conflicts
             PROVE  v.row[n] = log[l].was[n] \/ Elsewhere(ops, l, n)
  BY DEF Restored
<1>2. \A j : j \in Done(ops, i - 1, n) <=> j \in Done(ops, i, n) \/ (j = i /\ s[n] # Nothing)
  BY <1>1 DEF Done, Within
<1>3. CASE l # i
  <2>1. l \in Done(ops, i, n) /\ l > i /\ l \in Nat
    BY <1>1, <1>2, <1>3 DEF Done, Within
  <2>2. s[n] = Nothing
    <3>1. s[n] # Nothing => l <= i
      BY <1>2
    <3> QED
      BY <1>1, <2>1, <3>1
  <2>3. v.row[n] = x.row[n]
    BY <2>2, TurnIsAbout DEF Turn, TakenBack
  <2>4. <<l, n>> \notin x.conflicts
    BY DEF Turn
  <2> QED
    BY <1>2, <2>1, <2>3, <2>4 DEF Restored
<1>4. CASE l = i
  <2>1. n \in todo /\ s[n] # Nothing /\ s[n] \in Snapshot
    BY <1>1, <1>2, <1>4, TurnIsAbout, LogTyped DEF Done
  <2>2. Says(s[n], log[i].was[n]) /\ log[i].was[n] \in Row \cup {NoNode}
    BY <1>1, LogTyped DEF LogInv, Recorded
  <2>3. CASE s[n].born
    BY <1>4, <2>1, <2>2, <2>3 DEF Says, Turn, TakenBack
  <2>4. CASE ~s[n].born
    <3> DEFINE there == log[i].was[n]
    <3>1. there # NoNode /\ there \in Row /\ s[n].path = there.path /\ s[n].text = there.text
      BY <2>1, <2>2, <2>4 DEF Says
    <3>2. Back(x.row[n], v.row[n], s[n], x.disk)
      BY <2>1, <2>4 DEF Turn, TakenBack
    <3>3. CASE v.row[n] = [path |-> s[n].path, text |-> s[n].text]
      BY <1>4, <3>1, <3>3 DEF Row
    <3>4. CASE x.row[n] # NoNode /\ v.row[n] = x.row[n] /\ x.row[n].text = s[n].text /\ x.disk[s[n].path] = s[n].text
      <4> DEFINE p == there.path
      <4>1. x.row[n] \in Row /\ p \in Paths
        BY <3>1, <3>4 DEF Turn, UndoWorlds, Orderly, Worlds, Row
      <4>2. CASE x.row[n].path = p
        BY <1>4, <3>1, <3>4, <4>1, <4>2 DEF Row
      <4>3. CASE x.row[n].path # p
        <5>1. x.disk[p] # NoFile
          BY <3>1, <3>4, UndoConstants DEF Row
        <5>2. Found(ops, i, p)
          BY <4>1, <5>1 DEF Places
        <5>3. \/ disk[p] # NoFile \/ At(row, p) # {}
              \/ \E j \in ops, m \in Nodes :
                   <<j, m>> # <<i, n>> /\ log[j].snaps[m] # Nothing /\ log[j].snaps[m].path = p
          <6>1. \A m \in Nodes : \A j \in Done(ops, i, m) :
                  j \in ops /\ log[j].snaps[m] # Nothing /\ <<j, m>> # <<i, n>>
            BY <1>1 DEF Done, Within
          <6> QED
            BY <5>2, <6>1 DEF Found
        <5>4. \E r \in {row[n]} \cup {log[j].was[n] : j \in Within(ops, n)} : r # NoNode /\ r.path # p
          <6>1. CASE x.row[n] = row[n]
            BY <3>4, <4>3, <6>1
          <6>2. CASE x.row[n] # row[n]
            <7>1. PICK j \in Done(ops, i, n) :
                    ~log[j].snaps[n].born /\ x.row[n].path = log[j].snaps[n].path
              BY <3>4, <6>2 DEF Whence
            <7>2. j \in Within(ops, n) /\ j \in DOMAIN log /\ log[j].snaps[n] # Nothing
              BY <7>1 DEF Done, Within
            <7>3. log[j].was[n] # NoNode /\ log[j].was[n].path = x.row[n].path
              BY <7>1, <7>2 DEF LogInv, Recorded, Says
            <7> QED
              BY <4>3, <7>2, <7>3
          <6> QED
            BY <6>1, <6>2
        <5>5. Elsewhere(ops, i, n)
          BY <3>1, <5>3, <5>4, Zenon DEF Elsewhere
        <5> QED
          BY <1>4, <5>5
      <4> QED
        BY <4>2, <4>3
    <3> QED
      BY <3>2, <3>3, <3>4 DEF Back
  <2> QED
    BY <2>3, <2>4
<1> QED
  BY <1>3, <1>4

\* A node that is put back has a file with its content.
Filed(ops, h, x) ==
  \A n \in Nodes : \A f \in Done(ops, h, n) :
    LET p == x.row[n].path IN
    /\ \A i \in Done(ops, h, n) : f <= i /\ <<i, n>> \notin x.conflicts
    /\ x.row[n] # NoNode /\ ~Carried(ops, f, p)
    => x.disk[p] = x.row[n].text

LEMMA FiledTurn ==
  ASSUME LogInv, NEW ops \in SUBSET DOMAIN log, NEW reverted, NEW i, NEW x, NEW v,
         Turn(ops, reverted, i, x, v), Whence(ops, i, x), Filed(ops, i, x)
  PROVE  Filed(ops, i - 1, v)
<1> DEFINE s    == log[i].snaps
           todo == Todo(x, i, ops, reverted)
<1>1. i \in DOMAIN log /\ i \in Nat /\ ops \subseteq Nat /\ i \in ops
  BY LogTyped DEF Turn
<1> SUFFICES ASSUME NEW n \in Nodes, NEW f \in Done(ops, i - 1, n),
                    \A j \in Done(ops, i - 1, n) : f <= j /\ <<j, n>> \notin v.conflicts,
                    v.row[n] # NoNode, ~Carried(ops, f, v.row[n].path)
             PROVE  v.disk[v.row[n].path] = v.row[n].text
  BY Zenon DEF Filed
<1> DEFINE p == v.row[n].path
<1>2. \A j : j \in Done(ops, i - 1, n) <=> j \in Done(ops, i, n) \/ (j = i /\ s[n] # Nothing)
  BY <1>1 DEF Done, Within
<1>3. /\ v.row \in [Nodes -> Row \cup {NoNode}] /\ Apart(v.row) /\ p \in Paths
      /\ x.row \in [Nodes -> Row \cup {NoNode}] /\ Apart(x.row)
  BY DEF Turn, UndoWorlds, Orderly, Worlds, Row
<1>4. FileAfter(x, v, s, todo, p)
  BY <1>3 DEF Turn, TakenBack
<1>5. \A m \in todo : m \in Nodes /\ s[m] # Nothing
  BY TurnIsAbout
<1>6. \A m \in todo : v.row[m] # NoNode /\ v.row[m].path = p => m = n
  BY <1>3, <1>5 DEF Apart
<1>7. CASE n \in todo
  <2>1. ~s[n].born
    BY <1>7 DEF Turn, TakenBack
  <2> QED
    BY <1>4, <1>6, <1>7, <2>1 DEF FileAfter
<1>8. CASE n \notin todo
  <2>1. v.row[n] = x.row[n]
    BY <1>8 DEF Turn, TakenBack
  <2>2. s[n] = Nothing
    <3>1. s[n] # Nothing => <<i, n>> \notin v.conflicts
      BY <1>2
    <3> QED
      BY <1>8, <3>1, TurnIsAbout
  <2>3. f \in Done(ops, i, n) /\ \A j \in Done(ops, i, n) : f <= j /\ <<j, n>> \notin x.conflicts
    BY <1>2, <2>2 DEF Turn
  <2>4. x.disk[p] = x.row[n].text
    BY <2>1, <2>3, Zenon DEF Filed
  <2>5. ~ \E m \in todo : v.row[m] # NoNode /\ v.row[m].path = p
    BY <1>6, <1>8
  <2>6. ~ \E m \in todo : s[m].born /\ s[m].path = p
    <3> SUFFICES ASSUME NEW m \in todo, s[m].born, s[m].path = p PROVE FALSE
      OBVIOUS
    <3>1. m \in Nodes /\ s[m] # Nothing /\ m # n /\ BornAt(i, m, p) /\ i \in Within(ops, m)
      BY <1>1, <1>5, <1>8 DEF BornAt, Within
    <3>2. i < f
      BY <2>3 DEF Done
    <3>3. row[m] # NoNode /\ row[m].path = p /\ \A j \in Within(ops, m) : log[j].snaps[m].path = p
      BY <1>1, <3>1, <3>2 DEF Carried
    <3>4. x.row[m] # NoNode /\ x.row[m].path = p
      <4>1. CASE x.row[m] = row[m]
        BY <3>3, <4>1
      <4>2. CASE x.row[m] # row[m]
        <5>1. PICK j \in Done(ops, i, m) :
                IF log[j].snaps[m].born THEN x.row[m] = NoNode
                ELSE x.row[m] # NoNode /\ x.row[m].path = log[j].snaps[m].path
          BY <3>1, <4>2 DEF Whence
        <5>2. j \in Within(ops, m) /\ j \in DOMAIN log /\ i < j /\ log[j].snaps[m] # Nothing
          BY <1>1, <5>1 DEF Done, Within
        <5>3. ~log[j].snaps[m].born
          BY <1>1, <3>1, <5>2 DEF LogInv, Once
        <5> QED
          BY <3>3, <5>1, <5>2, <5>3
      <4> QED
        BY <4>1, <4>2
    <3> QED
      BY <1>3, <2>1, <3>1, <3>4 DEF Apart
  <2>7. v.disk[p] = x.disk[p]
    BY <1>4, <2>5, <2>6 DEF FileAfter
  <2> QED
    BY <2>1, <2>4, <2>7
<1> QED
  BY <1>7, <1>8

UndoSofar(ops, reverted, h, x) ==
  /\ Others(ops, x)
  /\ x.ok => Edits(ops, reverted, x) /\ Whence(ops, h, x) /\ Places(ops, h, x)
             /\ Restored(ops, h, x) /\ Filed(ops, h, x)

\* One turn more.
LEMMA SofarTurn ==
  ASSUME LogInv, NEW ops \in SUBSET DOMAIN log, NEW reverted, NEW i \in DOMAIN log, NEW x \in UndoWorlds,
         UndoSofar(ops, reverted, i, x), NEW v, v = UndoOne(x, i, ops, reverted)
  PROVE  v \in UndoWorlds /\ UndoSofar(ops, reverted, i - 1, v)
<1>1. /\ v \in UndoWorlds
      /\ \A j, n : <<j, n>> \in x.conflicts => <<j, n>> \in v.conflicts
      /\ v.ok => x.ok
      /\ \/ v = x /\ (i \in ops => ~x.ok)
         \/ ~v.ok /\ v.row = x.row /\ v.disk = x.disk
         \/ /\ i \in ops /\ x.ok /\ v.ok
            /\ TakenBack(x, v, log[i].snaps, Todo(x, i, ops, reverted))
            /\ \A n \in Conflicted(x, i, ops) : <<i, n>> \in v.conflicts
  BY OneTurn
<1>2. i \in Nat /\ ops \subseteq Nat
  BY LogTyped
<1>3. CASE v = x /\ (i \in ops => ~x.ok)
  <2>1. CASE ~x.ok
    BY <1>1, <1>3, <2>1 DEF UndoSofar
  <2>2. CASE x.ok
    <3>1. \A n : Done(ops, i - 1, n) = Done(ops, i, n)
      <4>1. i \notin ops
        BY <1>3, <2>2
      <4>2. \A j \in ops : j > i - 1 <=> j > i
        BY <1>2, <4>1
      <4> QED
        BY <4>2 DEF Done, Within
    <3>2. Whence(ops, i - 1, x) /\ Places(ops, i - 1, x)
      BY <2>2, <3>1 DEF UndoSofar, Whence, Places, Found
    <3>3. Restored(ops, i - 1, x)
      BY <2>2, <3>1 DEF UndoSofar, Restored
    <3>4. Filed(ops, i - 1, x)
      BY <2>2, <3>1 DEF UndoSofar, Filed
    <3> QED
      BY <1>1, <1>3, <3>2, <3>3, <3>4 DEF UndoSofar
  <2> QED
    BY <2>1, <2>2
<1>4. CASE ~v.ok /\ v.row = x.row /\ v.disk = x.disk
  BY <1>1, <1>4 DEF UndoSofar, Others
<1>5. CASE /\ i \in ops /\ x.ok /\ v.ok
           /\ TakenBack(x, v, log[i].snaps, Todo(x, i, ops, reverted))
           /\ \A n \in Conflicted(x, i, ops) : <<i, n>> \in v.conflicts
  <2>1. Turn(ops, reverted, i, x, v)
    BY <1>1, <1>5 DEF Turn
  <2>2. /\ Others(ops, x) /\ Edits(ops, reverted, x) /\ Whence(ops, i, x) /\ Places(ops, i, x)
        /\ Restored(ops, i, x) /\ Filed(ops, i, x)
    BY <1>5 DEF UndoSofar
  <2>3. Others(ops, v) /\ Edits(ops, reverted, v)
    BY <2>1, <2>2, OthersTurn, EditsTurn
  <2>4. Whence(ops, i - 1, v) /\ Places(ops, i - 1, v)
    BY <2>1, <2>2, WhenceTurn, PlacesTurn
  <2>5. Restored(ops, i - 1, v) /\ Filed(ops, i - 1, v)
    BY <2>1, <2>2, RestoredTurn, FiledTurn
  <2> QED
    BY <1>1, <2>3, <2>4, <2>5 DEF UndoSofar
<1> QED
  BY <1>1, <1>3, <1>4, <1>5

\* An undo as a whole.
LEMMA UndoMakes ==
  ASSUME LogInv, NEW ops \in SUBSET DOMAIN log, NEW reverted, NEW v, v = RestoreMany(ops, reverted)
  PROVE  v \in UndoWorlds /\ UndoSofar(ops, reverted, 0, v)
<1> DEFINE N == Len(log)
           P == {z \in (0 .. N) \X UndoWorlds : UndoSofar(ops, reverted, N - z[1], z[2])}
<1>1. N \in Nat /\ DOMAIN log = 1 .. N /\ ops \subseteq 1 .. N
  BY LogTyped
<1>2. UndoStart \in UndoWorlds
  <2>1. UndoStart \in Worlds
    BY DEF UndoStart, LogInv, Worlds
  <2> QED
    BY <2>1 DEF UndoStart, LogInv, Orderly, UndoWorlds, SameSnaps
<1>3. UndoSofar(ops, reverted, N, UndoStart)
  <2>1. \A n : Done(ops, N, n) = {}
    BY <1>1 DEF Done, Within
  <2>2. UndoStart.row = row /\ UndoStart.disk = disk
    BY DEF UndoStart
  <2>3. Others(ops, UndoStart) /\ Edits(ops, reverted, UndoStart) /\ Whence(ops, N, UndoStart)
    BY <2>2 DEF Others, Edits, Whence
  <2>4. Places(ops, N, UndoStart)
    <3>1. ASSUME NEW n \in Nodes, row[n] # NoNode PROVE At(row, row[n].path) # {}
      BY <3>1 DEF At
    <3> QED
      BY <2>2, <3>1 DEF Places, Found
  <2>5. Restored(ops, N, UndoStart) /\ Filed(ops, N, UndoStart)
    BY <2>1 DEF Restored, Filed
  <2> QED
    BY <2>3, <2>4, <2>5 DEF UndoSofar
<1>4. <<0, UndoStart>> \in P
  BY <1>1, <1>2, <1>3
<1>5. Turns(ops, reverted, P)
  <2> SUFFICES ASSUME NEW k \in 1 .. N, NEW x \in UndoWorlds, <<k - 1, x>> \in P
               PROVE  <<k, UndoOne(x, N + 1 - k, ops, reverted)>> \in P
    BY DEF Turns
  <2> DEFINE i == N + 1 - k
             v1 == UndoOne(x, i, ops, reverted)
  <2>1. i \in DOMAIN log /\ N - (k - 1) = i /\ N - k = i - 1 /\ k \in 0 .. N
    BY <1>1
  <2>2. UndoSofar(ops, reverted, i, x)
    BY <2>1
  <2>3. v1 = UndoOne(x, i, ops, reverted)
    OBVIOUS
  <2> HIDE DEF v1, i
  <2>4. v1 \in UndoWorlds /\ UndoSofar(ops, reverted, i - 1, v1)
    BY <2>1, <2>2, <2>3, SofarTurn
  <2>5. <<k, v1>> \in P
    BY <2>1, <2>4
  <2> QED
    BY <2>5 DEF v1, i
<1> HIDE DEF P
<1>6. v \in UndoWorlds /\ <<N, v>> \in P
  BY <1>4, <1>5, UndoClimbs
<1>7. N - N = 0
  BY <1>1
<1> QED
  BY <1>6, <1>7 DEF P

-----------------------------------------------------------------------------
(* The invariant. *)

LEMMA InitLog == Init => LogInv
<1> SUFFICES ASSUME Init PROVE LogInv
  OBVIOUS
<1>1. row = Start /\ row \in [Nodes -> Row \cup {NoNode}] /\ Apart(row)
  BY UndoConstants DEF Init, Apart
<1>2. disk \in [Paths -> Texts \cup {NoFile}]
  <2> DEFINE r(p) == CHOOSE r \in {Start[n] : n \in Nodes} : r # NoNode /\ r.path = p
  <2>1. ASSUME NEW p \in Paths, \E n \in Nodes : Start[n] # NoNode /\ Start[n].path = p
        PROVE  r(p).text \in Texts
    <3>1. r(p) \in {Start[n] : n \in Nodes} /\ r(p) # NoNode
      BY <2>1
    <3> HIDE DEF r
    <3> QED
      BY <1>1, <3>1 DEF Row
  <2> HIDE DEF r
  <2>2. disk = [p \in Paths |-> IF \E n \in Nodes : Start[n] # NoNode /\ Start[n].path = p
                                  THEN r(p).text ELSE NoFile]
    BY DEF Init, r
  <2> QED
    BY <2>1, <2>2
<1>3. log = <<>> /\ unused = {n \in Nodes : Start[n] = NoNode}
  BY DEF Init
<1>4. log \in Seq(Entry) /\ DOMAIN log = {}
  BY <1>3
<1> QED
  BY <1>1, <1>2, <1>3, <1>4 DEF LogInv, Fresh, Recorded, Once

LEMMA CallLog ==
  ASSUME LogInv, NEW steps \in Calls, Call(steps)
  PROVE  LogInv'
<1>1. PICK at \in [DOMAIN steps -> Nodes \X Paths \X Texts] :
        LET w == CallMakes(steps, at) IN
        /\ w.ok /\ w.snaps # Blank
        /\ row' = w.row /\ disk' = w.disk
        /\ log' = Append(log, [status |-> "active", snaps |-> w.snaps, was |-> row])
        /\ unused' = unused \ Newborn(steps, at)
  BY Zenon DEF Call, CallMakes, CallStart, Newborn
<1> DEFINE w == CallMakes(steps, at)
           e == [status |-> "active", snaps |-> w.snaps, was |-> row]
           C == Newborn(steps, at)
<1>2. w \in CallWorlds /\ InCall(C, w)
  BY <1>1, CallFits, UndoConstants DEF Made
<1>3. /\ row' = w.row /\ disk' = w.disk /\ log' = Append(log, e) /\ unused' = unused \ C
  BY <1>1
<1> HIDE DEF w, C
<1>4. e \in Entry /\ e.snaps = w.snaps /\ e.was = row
  BY <1>2 DEF Entry, Status, CallWorlds, Snaps, LogInv
<1> HIDE DEF e
<1>5. /\ log' \in Seq(Entry) /\ Len(log') = Len(log) + 1 /\ DOMAIN log' = 1 .. Len(log) + 1
      /\ \A i \in DOMAIN log : log'[i] = log[i]
      /\ log'[Len(log) + 1] = e /\ Len(log) \in Nat /\ DOMAIN log = 1 .. Len(log)
  BY <1>3, <1>4, AppendProperties, LenProperties DEF LogInv
<1>6. \A i \in DOMAIN log' : i \in DOMAIN log \/ i = Len(log) + 1
  BY <1>5
<1>7. /\ row' \in [Nodes -> Row \cup {NoNode}] /\ disk' \in [Paths -> Texts \cup {NoFile}]
      /\ unused' \subseteq Nodes /\ Apart(row')
  BY <1>2, <1>3 DEF CallWorlds, InCall, LogInv
<1>8. \A n \in unused' : n \in unused /\ n \in Nodes /\ w.snaps[n] = Nothing /\ w.row[n] = NoNode
  BY <1>2, <1>3 DEF InCall, LogInv, Fresh
<1>9. \A n \in unused' : row'[n] = NoNode /\ \A i \in DOMAIN log' : log'[i].snaps[n] = Nothing
  BY <1>3, <1>4, <1>5, <1>6, <1>8 DEF LogInv, Fresh
<1>10. Recorded(log')
  <2>1. \A n \in Nodes : Says(e.snaps[n], e.was[n])
    BY <1>2, <1>4 DEF InCall
  <2> QED
    BY <1>5, <1>6, <2>1 DEF Recorded, LogInv
<1>11. Once(log')
  <2> SUFFICES ASSUME NEW i \in DOMAIN log', NEW j \in DOMAIN log', NEW n \in Nodes, i < j,
                      log'[j].snaps[n] # Nothing, log'[j].snaps[n].born
               PROVE  log'[i].snaps[n] = Nothing
    BY DEF Once
  <2>1. CASE j \in DOMAIN log
    <3>1. i \in DOMAIN log
      BY <1>5, <2>1
    <3> QED
      BY <1>5, <2>1, <3>1 DEF LogInv, Once
  <2>2. CASE j = Len(log) + 1
    <3>1. i \in DOMAIN log
      BY <1>5, <2>2
    <3>2. n \in unused
      BY <1>2, <1>4, <1>5, <2>2 DEF InCall
    <3> QED
      BY <1>5, <3>1, <3>2 DEF LogInv, Fresh
  <2> QED
    BY <1>6, <2>1, <2>2
<1> QED
  BY <1>5, <1>7, <1>9, <1>10, <1>11 DEF LogInv, Fresh

LEMMA UndoKeepsLog ==
  ASSUME LogInv, UndoOperations
  PROVE  LogInv'
<1>1. PICK ops \in SUBSET Active(log) \ {{}}, reverted \in SUBSET Nodes :
        row' = RestoreMany(ops, reverted).row /\ disk' = RestoreMany(ops, reverted).disk
        /\ log' = RestoreMany(ops, reverted).log /\ unused' = unused
  BY Zenon DEF UndoOperations
<1> DEFINE w == RestoreMany(ops, reverted)
<1>2. ops \in SUBSET DOMAIN log
  BY DEF Active
<1>3. w \in UndoWorlds /\ UndoSofar(ops, reverted, 0, w)
  BY <1>2, UndoMakes
<1>4. row' = w.row /\ disk' = w.disk /\ log' = w.log /\ unused' = unused
  BY <1>1
<1> HIDE DEF w
<1>5. /\ row' \in [Nodes -> Row \cup {NoNode}] /\ disk' \in [Paths -> Texts \cup {NoFile}]
      /\ log' \in Seq(Entry) /\ unused' \subseteq Nodes /\ Apart(row') /\ SameSnaps(log, log')
  BY <1>3, <1>4 DEF UndoWorlds, Orderly, Worlds, LogInv
<1>6. \A n \in unused : row'[n] = row[n]
  <2>1. \A n \in unused : n \in Nodes /\ Within(ops, n) = {}
    BY <1>2 DEF Within, LogInv, Fresh
  <2> QED
    BY <1>3, <1>4, <2>1 DEF UndoSofar, Others
<1>7. \A n \in unused' : row'[n] = NoNode /\ \A i \in DOMAIN log' : log'[i].snaps[n] = Nothing
  BY <1>4, <1>5, <1>6 DEF LogInv, Fresh, SameSnaps
<1>8. Recorded(log') /\ Once(log')
  BY <1>5 DEF LogInv, Recorded, Once, SameSnaps
<1> QED
  BY <1>5, <1>7, <1>8 DEF LogInv, Fresh

\* An operation past its retention has no snapshots left.
LEMMA CleanupLog ==
  ASSUME LogInv, Cleanup
  PROVE  LogInv'
<1>1. PICK c \in DOMAIN log :
        log' = [i \in DOMAIN log |->
          CASE log[i].status = "expired" \/ (log[i].status = "undone" /\ i <= c) ->
                 [status |-> "gone", snaps |-> Blank, was |-> Start]
            [] log[i].status = "active" /\ i <= c -> [log[i] EXCEPT !.status = "expired"]
            [] OTHER -> log[i]]
  BY DEF Cleanup
<1>2. row' = row /\ disk' = disk /\ unused' = unused
  BY DEF Cleanup
<1>3. Len(log) \in Nat /\ DOMAIN log = 1 .. Len(log) /\ \A i \in DOMAIN log : log[i] \in Entry
  BY LogTyped
<1> DEFINE gone == [status |-> "gone", snaps |-> Blank, was |-> Start]
<1>4. gone \in Entry /\ gone.was = Start /\ \A n \in Nodes : gone.snaps[n] = Nothing
  BY UndoConstants DEF Entry, Status, Blank
<1> HIDE DEF gone
<1>5. ASSUME NEW i \in DOMAIN log
      PROVE  /\ log'[i] \in Entry
             /\ \/ log'[i] = gone
                \/ log'[i].snaps = log[i].snaps /\ log'[i].was = log[i].was
  <2> DEFINE old == [log[i] EXCEPT !.status = "expired"]
  <2>1. old \in Entry /\ old.snaps = log[i].snaps /\ old.was = log[i].was
    BY <1>3 DEF Entry, Status
  <2> HIDE DEF old
  <2>2. log'[i] = gone \/ log'[i] = old \/ log'[i] = log[i]
    BY <1>1 DEF gone, old
  <2> QED
    BY <1>3, <1>4, <2>1, <2>2
<1>6. log' \in Seq(Entry) /\ DOMAIN log' = DOMAIN log
  <2>1. DOMAIN log' = DOMAIN log /\ log' \in [1 .. Len(log) -> Entry]
    BY <1>1, <1>3, <1>5
  <2> QED
    BY <1>3, <2>1, SeqDef
<1>7. \A n \in unused : \A i \in DOMAIN log : log'[i].snaps[n] = Nothing
  BY <1>4, <1>5 DEF LogInv, Fresh
<1>8. Recorded(log')
  BY <1>4, <1>5, <1>6 DEF LogInv, Recorded, Says
<1>9. Once(log')
  BY <1>4, <1>5, <1>6 DEF LogInv, Once
<1> QED
  BY <1>2, <1>6, <1>7, <1>8, <1>9 DEF LogInv, Fresh

\* Users, the watcher and the reconciler leave the log alone.
LEMMA SaveLog ==
  ASSUME LogInv, NEW p \in Paths, NEW t \in Texts \cup {NoFile}, Save(p, t)
  PROVE  LogInv'
BY DEF LogInv, Save, Fresh

LEMMA NoticeLog ==
  ASSUME LogInv, NEW p \in Paths, Notice(p)
  PROVE  LogInv'
<1>1. disk' = disk /\ log' = log /\ disk[p] \in Texts \cup {NoFile} /\ row \in [Nodes -> Row \cup {NoNode}]
  BY DEF LogInv, Notice
<1>2. ASSUME disk[p] # NoFile, NEW n \in At(row, p), row' = [row EXCEPT ![n].text = disk[p]], unused' = unused
      PROVE  LogInv'
  <2> DEFINE r == [row[n] EXCEPT !.text = disk[p]]
  <2>1. n \in Nodes /\ row[n] # NoNode /\ row[n] \in Row /\ disk[p] \in Texts
    BY <1>1, <1>2 DEF At
  <2>2. r \in Row /\ r.path = row[n].path /\ r # NoNode
    BY <2>1, UndoConstants DEF Row
  <2>3. row' = [row EXCEPT ![n] = r]
    BY <1>1, <1>2, <2>1
  <2> HIDE DEF r
  <2>4. row' \in [Nodes -> Row \cup {NoNode}] /\ Apart(row') /\ n \notin unused
    BY <1>1, <2>1, <2>2, <2>3 DEF LogInv, Apart, Fresh
  <2> QED
    BY <1>1, <1>2, <2>3, <2>4 DEF LogInv, Fresh
<1>3. ASSUME disk[p] # NoFile, At(row, p) = {}, NEW n \in unused,
             row' = [row EXCEPT ![n] = [path |-> p, text |-> disk[p]]], unused' = unused \ {n}
      PROVE  LogInv'
  <2> DEFINE r == [path |-> p, text |-> disk[p]]
  <2>1. n \in Nodes /\ r \in Row /\ r.path = p /\ row' = [row EXCEPT ![n] = r]
    BY <1>1, <1>3 DEF LogInv, Row
  <2> HIDE DEF r
  <2>2. \A m \in Nodes : row[m] # NoNode => row[m].path # p
    BY <1>3 DEF At
  <2>3. row' \in [Nodes -> Row \cup {NoNode}] /\ Apart(row')
    BY <1>1, <2>1, <2>2 DEF LogInv, Apart
  <2>4. unused' \subseteq Nodes /\ \A m \in unused' : m \in unused /\ row'[m] = row[m]
    BY <1>3, <2>1 DEF LogInv
  <2> QED
    BY <1>1, <2>3, <2>4 DEF LogInv, Fresh
<1>4. ASSUME NEW n \in At(row, p), row' = [row EXCEPT ![n] = NoNode], unused' = unused
      PROVE  LogInv'
  BY <1>1, <1>4 DEF LogInv, Fresh, Apart
<1> QED
  BY <1>2, <1>3, <1>4 DEF Notice

LEMMA NextLog ==
  ASSUME LogInv, [Next]_vars
  PROVE  LogInv'
<1>1. CASE UNCHANGED vars
  BY <1>1 DEF vars, LogInv, Fresh
<1>2. CASE Next
  BY <1>2, CallLog, UndoKeepsLog, CleanupLog, SaveLog, NoticeLog DEF Next
<1> QED
  BY <1>1, <1>2

\* An element of such a set is the only one.
LEMMA AtMostOne ==
  ASSUME NEW S, \A m, n \in S : m = n
  PROVE  Cardinality(S) <= 1
<1>1. CASE S = {}
  <2>1. Cardinality(S) = 0
    BY <1>1, FS_EmptySet
  <2> QED
    BY <2>1
<1>2. CASE S # {}
  <2>1. PICK n \in S : S = {n}
    BY <1>2
  <2>2. Cardinality(S) = 1
    BY <2>1, FS_Singleton
  <2> QED
    BY <2>2
<1> QED
  BY <1>1, <1>2

\* The snapshots say what the nodes were before their operations, and a node is created
\* by the first operation that has a snapshot of it.
THEOREM SnapshotsRecord == Spec => [](Recorded(log) /\ Once(log))
<1>1. LogInv => Recorded(log) /\ Once(log)
  BY DEF LogInv
<1> QED
  BY <1>1, InitLog, NextLog, PTL DEF Spec

\* Rows, files and snapshots have their shapes, and no two nodes claim a path: an
\* undo that would put a node where another one is, is refused.
THEOREM UndoTyped == Spec => []UndoTypeOK
<1>1. LogInv => UndoTypeOK
  <2> SUFFICES ASSUME LogInv PROVE UndoTypeOK
    OBVIOUS
  <2>1. \A p \in Paths : Cardinality(At(row, p)) <= 1
    <3> SUFFICES ASSUME NEW p \in Paths PROVE Cardinality(At(row, p)) <= 1
      OBVIOUS
    <3>1. \A m, n \in At(row, p) : m = n
      BY DEF LogInv, Apart, At
    <3> QED
      BY <3>1, AtMostOne
  <2>2. \A i \in DOMAIN log : log[i].status \in Status /\ log[i].snaps \in [Nodes -> Snapshot \cup {Nothing}]
    BY LogTyped DEF Entry
  <2> QED
    BY <2>1, <2>2 DEF LogInv, UndoTypeOK, Fresh
<1> QED
  BY <1>1, InitLog, NextLog, PTL DEF Spec

-----------------------------------------------------------------------------
(* What an undo may do. *)

\* A step that takes operations back is an undo.
LEMMA OnlyUndo ==
  ASSUME LogInv, [Next]_vars
  PROVE  \/ UNCHANGED vars
         \/ answer'.ops = {}
         \/ /\ answer'.ops \in SUBSET DOMAIN log
            /\ LET w == RestoreMany(answer'.ops, answer'.reverted) IN
               /\ row' = w.row /\ disk' = w.disk
               /\ answer'.conflicts = w.conflicts /\ answer'.ok = w.ok
<1>1. CASE UNCHANGED vars
  BY <1>1
<1>2. CASE answer' = NoAnswer
  BY <1>2 DEF NoAnswer
<1>3. CASE UndoOperations
  <2>1. PICK ops \in SUBSET Active(log) \ {{}}, reverted \in SUBSET Nodes :
          LET w == RestoreMany(ops, reverted) IN
          /\ row' = w.row /\ disk' = w.disk
          /\ answer' = [ops |-> ops, reverted |-> reverted, conflicts |-> w.conflicts, ok |-> w.ok]
    BY <1>3, Zenon DEF UndoOperations
  <2>2. ops \in SUBSET DOMAIN log
    BY DEF Active
  <2> QED
    BY <2>1, <2>2
<1> QED
  BY <1>1, <1>2, <1>3, Zenon DEF Next, Call, Cleanup, Save, Notice

\* What a step that takes operations back makes of the nodes and files.
Undid ==
  /\ answer'.ops \in SUBSET DOMAIN log
  /\ LET w == RestoreMany(answer'.ops, answer'.reverted) IN
     /\ row' = w.row /\ disk' = w.disk /\ answer'.conflicts = w.conflicts /\ answer'.ok = w.ok
     /\ w \in UndoWorlds /\ UndoSofar(answer'.ops, answer'.reverted, 0, w)
  /\ \A n : Undone(n) = Within(answer'.ops, n) /\ Undone(n) = Done(answer'.ops, 0, n)
  /\ \A p : /\ LeftBirthplace(p) <=> Left(answer'.ops, p)
            /\ \A i : CarriedAway(i, p) <=> Carried(answer'.ops, i, p)

LEMMA UndoIs ==
  ASSUME LogInv, [Next]_vars
  PROVE  UNCHANGED vars \/ answer'.ops = {} \/ Undid
<1> SUFFICES ASSUME answer'.ops \in SUBSET DOMAIN log,
                    LET w == RestoreMany(answer'.ops, answer'.reverted) IN
                    /\ row' = w.row /\ disk' = w.disk
                    /\ answer'.conflicts = w.conflicts /\ answer'.ok = w.ok
             PROVE  Undid
  BY OnlyUndo, Zenon
<1> DEFINE ops == answer'.ops
           w == RestoreMany(ops, answer'.reverted)
<1>1. w \in UndoWorlds /\ UndoSofar(ops, answer'.reverted, 0, w)
  BY UndoMakes
<1>2. \A n : Undone(n) = Within(ops, n) /\ Undone(n) = Done(ops, 0, n)
  <2>1. \A i \in ops : i > 0
    BY LogTyped
  <2> QED
    BY <2>1 DEF Undone, Within, Done
<1>3. \A p : /\ LeftBirthplace(p) <=> Left(ops, p)
             /\ \A i : CarriedAway(i, p) <=> Carried(ops, i, p)
  BY <1>2 DEF LeftBirthplace, Left, CarriedAway, Carried
<1> QED
  BY <1>1, <1>2, <1>3, Zenon DEF Undid

\* An undo leaves the nodes its operations did not change alone, and their files.
THEOREM UndoLeavesOthers == Spec => OthersStay
<1>1. ASSUME LogInv, [Next]_vars
      PROVE  [\A n \in Nodes : Undone(n) = {} /\ answer'.ops # {} =>
                /\ row'[n] = row[n]
                /\ row[n] # NoNode /\ ~LeftBirthplace(row[n].path)
                     => disk'[row[n].path] = disk[row[n].path]]_vars
  <2>1. CASE Undid
    <3> DEFINE ops == answer'.ops
               w == RestoreMany(ops, answer'.reverted)
    <3>1. Others(ops, w) /\ row' = w.row /\ disk' = w.disk
      BY <2>1, Zenon DEF Undid, UndoSofar
    <3>2. \A n : Undone(n) = Within(ops, n)
      BY <2>1 DEF Undid
    <3>3. \A p : LeftBirthplace(p) <=> Left(ops, p)
      BY <2>1 DEF Undid
    <3> HIDE DEF w
    <3> QED
      BY <3>1, <3>2, <3>3 DEF Others
  <2> QED
    BY <1>1, <2>1, UndoIs
<1> QED
  BY <1>1, InitLog, NextLog, PTL DEF Spec, OthersStay

\* What a user or another operation wrote after the operations stays: the hash of the
\* snapshot protects it, whatever else is taken back in the same undo.
THEOREM UndoSparesEdits == Spec => EditsSurvive
<1>1. ASSUME LogInv, [Next]_vars
      PROVE  [answer'.ok => \A n \in Nodes :
                /\ Undone(n) # {} /\ row[n] # NoNode /\ n \notin answer'.reverted
                /\ \A i \in Undone(n) : ~log[i].snaps[n].born /\ log[i].snaps[n].post \notin {NoHash, row[n].text}
                => row'[n] = row[n]]_vars
  <2>1. CASE Undid
    <3> DEFINE ops == answer'.ops
               w == RestoreMany(ops, answer'.reverted)
    <3>1. answer'.ok => Edits(ops, answer'.reverted, w) /\ row' = w.row
      BY <2>1, Zenon DEF Undid, UndoSofar
    <3>2. \A n : Undone(n) = Within(ops, n)
      BY <2>1 DEF Undid
    <3> HIDE DEF w
    <3> QED
      BY <3>1, <3>2 DEF Edits, Guarded
  <2>2. CASE answer'.ops = {}
    BY <2>2 DEF Undone
  <2> QED
    BY <1>1, <2>1, <2>2, UndoIs
<1> QED
  BY <1>1, InitLog, NextLog, PTL DEF Spec, EditsSurvive

\* The first of the operations with a snapshot of the node.
LEMMA FirstIs ==
  ASSUME LogInv, answer'.ops \in SUBSET DOMAIN log, NEW n, Undone(n) # {}
  PROVE  First(n) \in Undone(n) /\ \A j \in Undone(n) : First(n) <= j
<1>1. Undone(n) \in SUBSET Nat
  BY LogTyped DEF Undone
<1>2. \E i \in Undone(n) : \A j \in Undone(n) : i <= j
  BY <1>1, Least
<1> QED
  BY <1>2 DEF First

\* A node that an undo puts back has a file with its content.
THEOREM UndoRestoresFiles == Spec => RestoredHaveFiles
<1>1. ASSUME LogInv, [Next]_vars
      PROVE  [answer'.ok => \A n \in Nodes :
                Settled(n) /\ row'[n] # NoNode /\ ~CarriedAway(First(n), row'[n].path)
                  => disk'[row'[n].path] = row'[n].text]_vars
  <2>1. CASE Undid
    <3> DEFINE ops == answer'.ops
               w == RestoreMany(ops, answer'.reverted)
    <3>1. /\ answer'.ok => Filed(ops, 0, w)
          /\ row' = w.row /\ disk' = w.disk /\ answer'.conflicts = w.conflicts
      BY <2>1, Zenon DEF Undid, UndoSofar
    <3>2. /\ \A n : Undone(n) = Done(ops, 0, n)
          /\ \A i, p : CarriedAway(i, p) <=> Carried(ops, i, p)
      BY <2>1 DEF Undid
    <3> HIDE DEF w
    <3> SUFFICES ASSUME answer'.ok, NEW n \in Nodes, Settled(n), w.row[n] # NoNode,
                        ~CarriedAway(First(n), w.row[n].path)
                 PROVE  w.disk[w.row[n].path] = w.row[n].text
      BY <3>1
    <3>3. First(n) \in Done(ops, 0, n) /\ \A j \in Done(ops, 0, n) : First(n) <= j
      BY <1>1, <2>1, <3>2, FirstIs DEF Settled, Undid
    <3>4. \A j \in Done(ops, 0, n) : <<j, n>> \notin w.conflicts
      BY <3>1, <3>2 DEF Settled
    <3> HIDE DEF ops
    <3> QED
      BY <3>1, <3>2, <3>3, <3>4, Zenon DEF Filed
  <2>2. CASE answer'.ops = {}
    BY <2>2 DEF Undone, Settled
  <2> QED
    BY <1>1, <2>1, <2>2, UndoIs
<1> QED
  BY <1>1, InitLog, NextLog, PTL DEF Spec, RestoredHaveFiles

\* An undo that succeeds brings each node back to what it was before the first of its
\* operations, but for what it reports and for nodes moved away from a path where
\* something else is.
THEOREM UndoRestores == Spec => RestoresWhatWasThere
<1> DEFINE Brought(n) == LET there == log[First(n)].was[n] IN
                       Settled(n) => \/ row'[n] = there
                                     \/ Displaced(n) /\ Contested(n, there.path)
<1>1. ASSUME LogInv, [Next]_vars
      PROVE  [answer'.ok => \A n \in Nodes : Brought(n)]_vars
  <2>1. CASE Undid
    <3> SUFFICES ASSUME answer'.ok, NEW n \in Nodes, Settled(n) PROVE Brought(n)
      BY DEF Brought
    <3> DEFINE ops == answer'.ops
               w == RestoreMany(ops, answer'.reverted)
               i == First(n)
               there == log[i].was[n]
    <3>1. /\ Restored(ops, 0, w) /\ ops \in SUBSET DOMAIN log
          /\ row' = w.row /\ disk' = w.disk /\ answer'.conflicts = w.conflicts
      BY <2>1, Zenon DEF Undid, UndoSofar
    <3>2. Undone(n) = Done(ops, 0, n) /\ Undone(n) = Within(ops, n)
      BY <2>1 DEF Undid
    <3>3. i \in Undone(n) /\ \A j \in Undone(n) : i <= j
      BY <1>1, <3>1, FirstIs DEF Settled
    <3> HIDE DEF w
    <3>4. row'[n] = there \/ Elsewhere(ops, i, n)
      BY <3>1, <3>2, <3>3 DEF Restored, Settled
    <3>5. ASSUME Elsewhere(ops, i, n) PROVE Displaced(n) /\ Contested(n, there.path)
      BY <3>2, <3>5, Zenon DEF Elsewhere, Displaced, Contested
    <3> QED
      BY <3>4, <3>5
  <2>2. CASE answer'.ops = {}
    BY <2>2 DEF Undone, Settled
  <2> QED
    BY <1>1, <2>1, <2>2, UndoIs
<1> QED
  BY <1>1, InitLog, NextLog, PTL DEF Spec, RestoresWhatWasThere
=============================================================================
