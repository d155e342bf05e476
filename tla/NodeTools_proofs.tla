-------------------------- MODULE NodeTools_proofs --------------------------
(***************************************************************************)
(* Proofs about NodeTools.  Every writer of a row either raises its version *)
(* or leaves what callers see of it alone; hence a version that a caller    *)
(* remembers and that is still current names the state the caller has seen. *)
(* The three writers that break the rule are excluded by an assumption.     *)
(***************************************************************************)
EXTENDS NodeTools, TLAPS

\* The operations in use raise the version: neither the startup index, nor the
\* move, nor the undo of a deletion.
Raising == Ops \cap {"startup", "move", "undo"} = {}

Outcomes == {"ok", "noop", "stale", "error", "conflict"}

Worlds == [row : [Nodes -> Row \cup {NoRow}], disk : [Place -> Content \cup {NoFile}],
           out : Outcomes]

\* Between w and v, every row that is still there has a higher version or looks the same.
Later(w, v) ==
  \A n \in Nodes : Live(v, n) =>
    /\ Live(w, n)
    /\ \/ w.row[n].version < v.row[n].version
       \/ View(v.row[n]) = View(w.row[n])

\* No caller remembers more than there is, and nothing else of the present version.
Remembered ==
  \A c \in Clients, n \in Nodes :
    held[c][n] # None /\ row[n] # NoRow =>
      \/ held[c][n].version < row[n].version
      \/ held[c][n] = View(row[n])

Typed ==
  /\ row \in [Nodes -> Row \cup {NoRow}]
  /\ disk \in [Place -> Content \cup {NoFile}]
  /\ held \in [Clients -> [Nodes -> Seen \cup {None}]]

\* Nobody sends "unchecked" by accident: versions begin at 1 and only grow.
Numbered ==
  /\ \A n \in Nodes : row[n] # NoRow => row[n].version # Unchecked
  /\ \A c \in Clients, n \in Nodes : held[c][n] # None => held[c][n].version # Unchecked

VersionInv == Typed /\ Numbered /\ Remembered

-----------------------------------------------------------------------------
(* Steps of a tool *)

\* "Later" is transitive.
LEMMA LaterTransitive ==
  ASSUME NEW w \in Worlds, NEW v \in Worlds, NEW u \in Worlds, Later(w, v), Later(v, u)
  PROVE  Later(w, u)
<1> SUFFICES ASSUME NEW n \in Nodes, Live(u, n)
             PROVE  /\ Live(w, n)
                    /\ \/ w.row[n].version < u.row[n].version
                       \/ View(u.row[n]) = View(w.row[n])
  BY DEF Later
<1>1. Live(v, n) /\ Live(w, n) BY DEF Later
<1>2. w.row[n] \in Row /\ v.row[n] \in Row /\ u.row[n] \in Row BY <1>1 DEF Worlds, Live
<1>3. w.row[n].version \in Nat /\ v.row[n].version \in Nat /\ u.row[n].version \in Nat
  BY <1>2 DEF Row
<1>4. v.row[n].version < u.row[n].version \/ View(u.row[n]) = View(v.row[n]) BY DEF Later
<1>5. w.row[n].version < v.row[n].version \/ View(v.row[n]) = View(w.row[n]) BY <1>1 DEF Later
<1>6. View(u.row[n]) = View(v.row[n]) => u.row[n].version = v.row[n].version BY DEF View
<1>7. View(v.row[n]) = View(w.row[n]) => v.row[n].version = w.row[n].version BY DEF View
<1> QED BY <1>1, <1>3, <1>4, <1>5, <1>6, <1>7

\* Rows and files make a world.
LEMMA AfterIsWorld ==
  ASSUME NEW r \in [Nodes -> Row \cup {NoRow}], NEW d \in [Place -> Content \cup {NoFile}],
         NEW why \in Outcomes
  PROVE  /\ After(r, d, why) \in Worlds
         /\ After(r, d, why).row = r /\ After(r, d, why).disk = d /\ After(r, d, why).out = why
BY DEF After, Worlds

\* Nothing done is "Later".
LEMMA RefuseLater ==
  ASSUME NEW w \in Worlds, NEW why \in Outcomes
  PROVE  Refuse(w, why) \in Worlds /\ Refuse(w, why).row = w.row /\ Later(w, Refuse(w, why))
<1>1. w.row \in [Nodes -> Row \cup {NoRow}] /\ w.disk \in [Place -> Content \cup {NoFile}]
  BY DEF Worlds
<1>2. Refuse(w, why) \in Worlds /\ Refuse(w, why).row = w.row BY <1>1, AfterIsWorld DEF Refuse
<1> QED BY <1>2 DEF Later, Live

\* A world that differs from w in the row of n only, which has a higher version.
LEMMA RaisedLater ==
  ASSUME NEW w \in Worlds, NEW v \in Worlds, NEW n \in Nodes, Live(w, n),
         w.row[n].version < v.row[n].version,
         \A m \in Nodes \ {n} : v.row[m] = w.row[m]
  PROVE  Later(w, v)
<1> SUFFICES ASSUME NEW m \in Nodes, Live(v, m)
    PROVE  Live(w, m) /\ (w.row[m].version < v.row[m].version \/ View(v.row[m]) = View(w.row[m]))
  BY DEF Later
<1>1. CASE m = n BY <1>1
<1>2. CASE m # n BY <1>2 DEF Live
<1> QED BY <1>1, <1>2

\* Writing a node raises its version and touches no other row.
LEMMA WrittenRaises ==
  ASSUME NEW w \in Worlds, NEW n \in Nodes, Live(w, n), NEW c \in Content
  PROVE  /\ Written(w, n, c) \in Worlds
         /\ Later(w, Written(w, n, c))
         /\ Live(Written(w, n, c), n)
         /\ \A m \in Nodes \ {n} : Written(w, n, c).row[m] = w.row[m]
<1> DEFINE new == [version |-> w.row[n].version + 1, place |-> w.row[n].place,
                   content |-> c, hash |-> c]
<1>1. w.row[n] \in Row /\ NoRow \notin Row BY NodeToolsConstants DEF Worlds, Live
<1>2. new \in Row /\ w.row[n].version < new.version BY <1>1 DEF Row
<1>3. w.row \in [Nodes -> Row \cup {NoRow}] /\ w.disk \in [Place -> Content \cup {NoFile}]
  BY DEF Worlds
<1> DEFINE rows == [w.row EXCEPT ![n] = new]
           files == [w.disk EXCEPT ![w.row[n].place] = c]
<1>4. Written(w, n, c) = After(rows, files, "ok") BY DEF Written
<1> HIDE DEF new
<1>5. rows \in [Nodes -> Row \cup {NoRow}] /\ files \in [Place -> Content \cup {NoFile}]
  BY <1>2, <1>3
<1>6. Written(w, n, c) \in Worlds /\ Written(w, n, c).row = rows
  <2> HIDE DEF rows, files
  <2>1. "ok" \in Outcomes BY DEF Outcomes
  <2> QED BY <1>4, <1>5, <2>1, AfterIsWorld
<1>7. /\ Written(w, n, c).row[n] = new
      /\ \A m \in Nodes \ {n} : Written(w, n, c).row[m] = w.row[m]
  BY <1>3, <1>6
<1>8. Later(w, Written(w, n, c)) BY <1>2, <1>6, <1>7, RaisedLater
<1> QED BY <1>1, <1>2, <1>6, <1>7, <1>8 DEF Live

\* executeMutation either leaves the rows alone or writes the node.
LEMMA MutateLater ==
  ASSUME NEW w \in Worlds, NEW n \in Nodes, Live(w, n), NEW c \in Content, NEW e \in Nat
  PROVE  /\ Mutate(w, n, c, e) \in Worlds
         /\ Later(w, Mutate(w, n, c, e))
         /\ Live(Mutate(w, n, c, e), n)
         /\ \A m \in Nodes \ {n} : Mutate(w, n, c, e).row[m] = w.row[m]
<1>1. \/ \E why \in {"error", "noop", "stale"} : Mutate(w, n, c, e) = Refuse(w, why)
      \/ Mutate(w, n, c, e) = Written(w, n, c)
  BY DEF Mutate
<1>2. CASE Mutate(w, n, c, e) = Written(w, n, c) BY <1>2, WrittenRaises
<1>3. ASSUME NEW why \in {"error", "noop", "stale"}, Mutate(w, n, c, e) = Refuse(w, why)
      PROVE  /\ Mutate(w, n, c, e) \in Worlds
             /\ Later(w, Mutate(w, n, c, e))
             /\ Live(Mutate(w, n, c, e), n)
             /\ \A m \in Nodes \ {n} : Mutate(w, n, c, e).row[m] = w.row[m]
  <2>1. why \in Outcomes BY DEF Outcomes
  <2> QED BY <1>3, <2>1, RefuseLater DEF Live
<1> QED BY <1>1, <1>2, <1>3

\* A rename raises the version of the node and touches no other row.
LEMMA RenamedRaises ==
  ASSUME NEW w \in Worlds, NEW n \in Nodes, Live(w, n), NEW p \in Place
  PROVE  /\ Renamed(w, n, p) \in Worlds
         /\ Later(w, Renamed(w, n, p))
         /\ Live(Renamed(w, n, p), n)
         /\ \A m \in Nodes \ {n} : Renamed(w, n, p).row[m] = w.row[m]
<1> DEFINE new == [version |-> w.row[n].version + 1, place |-> p,
                   content |-> w.row[n].content, hash |-> w.row[n].hash]
           old == w.row[n].place
           files == IF p = old \/ w.disk[old] = NoFile THEN w.disk ELSE FileMoved(w.disk, old, p)
<1>1. w.row[n] \in Row /\ NoRow \notin Row BY NodeToolsConstants DEF Worlds, Live
<1>2. new \in Row /\ w.row[n].version < new.version BY <1>1 DEF Row
<1>3. w.row \in [Nodes -> Row \cup {NoRow}] /\ w.disk \in [Place -> Content \cup {NoFile}]
  BY DEF Worlds
<1> DEFINE rows == [w.row EXCEPT ![n] = new]
<1>4. Renamed(w, n, p) = After(rows, files, "ok") BY DEF Renamed
<1>5. files \in [Place -> Content \cup {NoFile}]
  <2>1. old \in Place BY <1>1 DEF Row
  <2> QED BY <1>3, <2>1 DEF FileMoved
<1> HIDE DEF new, files
<1>6. rows \in [Nodes -> Row \cup {NoRow}] BY <1>2, <1>3
<1>7. Renamed(w, n, p) \in Worlds /\ Renamed(w, n, p).row = rows
  <2> HIDE DEF rows
  <2>1. "ok" \in Outcomes BY DEF Outcomes
  <2> QED BY <1>4, <1>5, <1>6, <2>1, AfterIsWorld
<1>8. /\ Renamed(w, n, p).row[n] = new
      /\ \A m \in Nodes \ {n} : Renamed(w, n, p).row[m] = w.row[m]
  BY <1>3, <1>7
<1>9. Later(w, Renamed(w, n, p)) BY <1>2, <1>7, <1>8, RaisedLater
<1> QED BY <1>1, <1>2, <1>7, <1>8, <1>9 DEF Live

\* Rewriting the links of live nodes is "Later".
LEMMA RewrittenLater ==
  ASSUME NEW w \in Worlds, NEW refs \in SUBSET Nodes, \A m \in refs : Live(w, m),
         NEW t \in Titles
  PROVE  Rewritten(w, refs, t) \in Worlds /\ Later(w, Rewritten(w, refs, t))
<1> DEFINE rewritten(m) == Mutate(w, m, Relinked(w, m, t), Unchecked)
           rows  == [m \in Nodes |-> IF m \in refs THEN rewritten(m).row[m] ELSE w.row[m]]
           files == [p \in Place |->
                       IF \E m \in refs : w.row[m].place = p
                         THEN rewritten(CHOOSE m \in refs : w.row[m].place = p).disk[p]
                         ELSE w.disk[p]]
<1>1. w.row \in [Nodes -> Row \cup {NoRow}] /\ w.disk \in [Place -> Content \cup {NoFile}]
  BY DEF Worlds
<1>2. ASSUME NEW m \in refs
      PROVE  /\ rewritten(m) \in Worlds /\ Later(w, rewritten(m)) /\ Live(rewritten(m), m)
  <2>1. w.row[m] \in Row BY <1>1 DEF Live
  <2>2. w.row[m].content \in Content BY <2>1 DEF Row
  <2>3. Relinked(w, m, t) \in Content BY <2>2 DEF Relinked, Content
  <2> QED BY <2>3, MutateLater DEF Unchecked
<1>3. Rewritten(w, refs, t) = After(rows, files, "ok") BY DEF Rewritten
<1> HIDE DEF rewritten
<1>4. rows \in [Nodes -> Row \cup {NoRow}]
  <2>1. ASSUME NEW m \in refs PROVE rewritten(m).row[m] \in Row \cup {NoRow}
    BY <1>2 DEF Worlds
  <2> QED BY <1>1, <2>1
<1>5. files \in [Place -> Content \cup {NoFile}]
  <2>1. ASSUME NEW p \in Place, \E m \in refs : w.row[m].place = p
        PROVE  rewritten(CHOOSE m \in refs : w.row[m].place = p).disk[p] \in Content \cup {NoFile}
    <3>1. (CHOOSE m \in refs : w.row[m].place = p) \in refs BY <2>1
    <3>2. rewritten(CHOOSE m \in refs : w.row[m].place = p) \in Worlds BY <3>1, <1>2
    <3> QED BY <3>2 DEF Worlds
  <2> QED BY <1>1, <2>1
<1>7. Rewritten(w, refs, t) \in Worlds /\ Rewritten(w, refs, t).row = rows
  <2> HIDE DEF rows, files
  <2>1. "ok" \in Outcomes BY DEF Outcomes
  <2> QED BY <1>3, <1>4, <1>5, <2>1, AfterIsWorld
<1>8. ASSUME NEW m \in Nodes, Live(Rewritten(w, refs, t), m)
      PROVE  /\ Live(w, m)
             /\ \/ w.row[m].version < Rewritten(w, refs, t).row[m].version
                \/ View(Rewritten(w, refs, t).row[m]) = View(w.row[m])
  <2>1. CASE m \in refs
    <3>1. Rewritten(w, refs, t).row[m] = rewritten(m).row[m] BY <1>7, <2>1
    <3> QED BY <1>2, <2>1, <3>1 DEF Later
  <2>2. CASE m \notin refs
    <3>1. Rewritten(w, refs, t).row[m] = w.row[m] BY <1>7, <2>2
    <3> QED BY <1>8, <3>1 DEF Live
  <2> QED BY <2>1, <2>2
<1> QED BY <1>7, <1>8 DEF Later

\* The first half of a rename: the file and the row, and then the node is rendered.
LEMMA RenderedRaises ==
  ASSUME NEW w \in Worlds, NEW n \in Nodes, Live(w, n), NEW p \in Place
  PROVE  LET v == Mutate(Renamed(w, n, p), n, w.row[n].content, Unchecked) IN
         /\ v \in Worlds /\ Later(w, v) /\ Live(v, n)
         /\ \A m \in Nodes \ {n} : v.row[m] = w.row[m]
<1>1. w.row[n].content \in Content /\ Unchecked \in Nat
  BY DEF Worlds, Live, Row, Unchecked
<1> DEFINE moved == Renamed(w, n, p)
           v == Mutate(moved, n, w.row[n].content, Unchecked)
<1>2. /\ moved \in Worlds /\ Later(w, moved) /\ Live(moved, n)
      /\ \A m \in Nodes \ {n} : moved.row[m] = w.row[m]
  BY RenamedRaises
<1> HIDE DEF moved
<1>3. /\ v \in Worlds /\ Later(moved, v) /\ Live(v, n)
      /\ \A m \in Nodes \ {n} : v.row[m] = moved.row[m]
  BY <1>1, <1>2, MutateLater
<1>4. \A m \in Nodes \ {n} : v.row[m] = w.row[m]
  BY <1>2, <1>3
<1> HIDE DEF v
<1>5. Later(w, v)
  BY <1>2, <1>3, LaterTransitive
<1>6. v \in Worlds /\ Later(w, v) /\ Live(v, n) /\ \A m \in Nodes \ {n} : v.row[m] = w.row[m]
  BY <1>3, <1>4, <1>5
<1> QED
  BY <1>6 DEF v, moved

\* executeRename raises the node and rewrites those that refer to it.
LEMMA RenameLater ==
  ASSUME NEW w \in Worlds, NEW n \in Nodes, Live(w, n), NEW p \in Place
  PROVE  Rename(w, n, p) \in Worlds /\ Later(w, Rename(w, n, p))
<1> DEFINE renamed == Mutate(Renamed(w, n, p), n, w.row[n].content, Unchecked)
           done == Rewritten(renamed, Referrers(w, n), p.title)
<1>1. /\ renamed \in Worlds /\ Later(w, renamed)
      /\ \A m \in Nodes \ {n} : renamed.row[m] = w.row[m]
  BY RenderedRaises
<1> HIDE DEF renamed
<1>2. Referrers(w, n) \in SUBSET Nodes /\ \A m \in Referrers(w, n) : Live(renamed, m)
  BY <1>1 DEF Referrers, Live
<1>3. done \in Worlds /\ Later(renamed, done)
  BY <1>1, <1>2, RewrittenLater DEF Place
<1> HIDE DEF done
<1>4. Later(w, done)
  BY <1>1, <1>3, LaterTransitive
<1> QED
  BY <1>3, <1>4 DEF Rename, renamed, done

\* A rename that throws is in the middle of something.
LEMMA ThrownTyped ==
  ASSUME NEW w \in Worlds, NEW n \in Nodes, Live(w, n), NEW p \in Place, NEW v \in Thrown(w, n, p)
  PROVE  v \in Worlds
<1> DEFINE renamed == Mutate(Renamed(w, n, p), n, w.row[n].content, Unchecked)
           valid == {m \in Referrers(w, n) : w.row[m].content.text \notin Invalid}
<1>1. v = Renamed(w, n, p) \/ \E done \in SUBSET valid : v = Rewritten(renamed, done, p.title)
  BY DEF Thrown
<1>2. renamed \in Worlds /\ \A m \in Nodes \ {n} : renamed.row[m] = w.row[m]
  BY RenderedRaises
<1> HIDE DEF renamed
<1>3. valid \in SUBSET Nodes /\ \A m \in valid : Live(renamed, m)
  BY <1>2 DEF Referrers, Live
<1> HIDE DEF valid
<1>4. ASSUME NEW done \in SUBSET valid PROVE Rewritten(renamed, done, p.title) \in Worlds
  BY <1>2, <1>3, RewrittenLater DEF Place
<1> QED
  BY <1>1, <1>4, RenamedRaises

\* Putting the files back leaves files.
LEMMA UnwoundTyped ==
  ASSUME NEW w \in Worlds, NEW n \in Nodes, Live(w, n), NEW p \in Place, NEW v \in Thrown(w, n, p)
  PROVE  Unwound(w, n, p, v) \in [Place -> Content \cup {NoFile}]
<1>1. v \in Worlds /\ Renamed(w, n, p) \in Worlds
  BY ThrownTyped, RenamedRaises
<1> DEFINE d == WritesUndone(Renamed(w, n, p), v)
<1>2. d \in [Place -> Content \cup {NoFile}]
  BY <1>1 DEF WritesUndone, Worlds
<1>3. w.row[n].place \in Place
  BY DEF Worlds, Live, Row
<1> HIDE DEF d
<1>4. MovedBack(w, n, p, d) \in [Place -> Content \cup {NoFile}]
  BY <1>2, <1>3 DEF MovedBack, FileMoved
<1> QED
  BY <1>4 DEF Unwound, d

-----------------------------------------------------------------------------
(* The invariant *)

\* The present state is a world.
LEMMA WorldTyped ==
  ASSUME Typed
  PROVE  /\ World \in Worlds /\ World.row = row /\ World.disk = disk
         /\ \A n \in Nodes : Live(World, n) <=> row[n] # NoRow
<1>1. "ok" \in Outcomes BY DEF Outcomes
<1>2. World \in Worlds /\ World.row = row /\ World.disk = disk
  BY <1>1, AfterIsWorld DEF World, Typed
<1> QED BY <1>2 DEF Live

\* Versions in a later world are numbers that a caller can send.
LEMMA LaterNumbered ==
  ASSUME VersionInv, NEW w \in Worlds, Later(World, w), NEW n \in Nodes, w.row[n] # NoRow
  PROVE  w.row[n].version # Unchecked
<1>1. World.row = row /\ Live(World, n)
  BY WorldTyped DEF VersionInv, Later, Live
<1>2. row[n] \in Row /\ w.row[n] \in Row /\ row[n].version # Unchecked
  BY <1>1 DEF VersionInv, Typed, Numbered, Worlds, Live
<1>3. row[n].version \in Nat /\ w.row[n].version \in Nat
  BY <1>2 DEF Row
<1>4. row[n].version < w.row[n].version \/ View(w.row[n]) = View(row[n])
  BY <1>1 DEF Later, Live
<1>5. View(w.row[n]).version = w.row[n].version /\ View(row[n]).version = row[n].version
  BY DEF View
<1> QED BY <1>2, <1>3, <1>4, <1>5 DEF Unchecked

\* Without an answer, a later world preserves what clients rightly remember.
LEMMA QuietKeeps ==
  ASSUME VersionInv, NEW w \in Worlds, Later(World, w),
         row' = w.row, disk' = w.disk, held' = held
  PROVE  VersionInv'
<1>1. World.row = row /\ \A n \in Nodes : Live(World, n) <=> row[n] # NoRow
  BY WorldTyped DEF VersionInv
<1>2. Typed' BY DEF VersionInv, Typed, Worlds
<1>3. ASSUME NEW c \in Clients, NEW n \in Nodes, held'[c][n] # None, row'[n] # NoRow
      PROVE  held'[c][n].version < row'[n].version \/ held'[c][n] = View(row'[n])
  <2>1. /\ row[n] # NoRow
        /\ row[n].version < row'[n].version \/ View(row'[n]) = View(row[n])
    BY <1>1, <1>3 DEF Later, Live
  <2>2. held[c][n].version < row[n].version \/ held[c][n] = View(row[n])
    BY <1>3, <2>1 DEF VersionInv, Remembered
  <2>3. row[n] \in Row /\ row'[n] \in Row /\ held[c][n] \in Seen
    BY <1>2, <1>3, <2>1 DEF VersionInv, Typed
  <2>4. row[n].version \in Nat /\ row'[n].version \in Nat /\ held[c][n].version \in Nat
    BY <2>3 DEF Row, Seen
  <2>5. View(row[n]).version = row[n].version /\ View(row'[n]).version = row'[n].version
    BY DEF View
  <2>6. CASE row[n].version < row'[n].version BY <2>2, <2>4, <2>5, <2>6
  <2>7. CASE View(row'[n]) = View(row[n]) BY <2>2, <2>4, <2>5, <2>7
  <2> QED BY <2>1, <2>6, <2>7
<1>4. Numbered' BY LaterNumbered DEF VersionInv, Numbered
<1> QED BY <1>2, <1>3, <1>4 DEF VersionInv, Remembered

\* An answer tells its caller the present state, and otherwise changes nothing that is held.
LEMMA AnswerKeeps ==
  ASSUME VersionInv, NEW c \in Clients \cup {None}, NEW n \in Nodes, NEW e,
         NEW w \in Worlds, Later(World, w), Answer(c, n, e, w)
  PROVE  VersionInv'
<1>1. row' = w.row /\ disk' = w.disk BY DEF Answer
<1>2. CASE held' = held BY <1>1, <1>2, QuietKeeps
<1>3. CASE Live(w, n) /\ c \in Clients /\ held' = [held EXCEPT ![c][n] = View(w.row[n])]
  <2>1. World.row = row /\ \A m \in Nodes : Live(World, m) <=> row[m] # NoRow
    BY WorldTyped DEF VersionInv
  <2>2. row'[n] \in Row BY <1>1, <1>3 DEF Worlds, Live
  <2>3. View(row'[n]) \in Seen BY <2>2 DEF View, Row, Seen
  <2>4. /\ held'[c][n] = View(row'[n])
        /\ \A d \in Clients, m \in Nodes : d # c \/ m # n => held'[d][m] = held[d][m]
    BY <1>1, <1>3 DEF VersionInv, Typed
  <2>5. held' \in [Clients -> [Nodes -> Seen \cup {None}]]
    BY <1>1, <1>3, <2>3 DEF VersionInv, Typed
  <2>6. Typed' BY <1>1, <2>5 DEF Typed, Worlds
  <2>7. ASSUME NEW d \in Clients, NEW m \in Nodes, held'[d][m] # None, row'[m] # NoRow
        PROVE  held'[d][m].version < row'[m].version \/ held'[d][m] = View(row'[m])
    <3>1. CASE d = c /\ m = n BY <3>1, <2>4
    <3>2. CASE d # c \/ m # n
      <4>1. held'[d][m] = held[d][m] BY <3>2, <2>4
      <4>2. /\ row[m] # NoRow
            /\ row[m].version < row'[m].version \/ View(row'[m]) = View(row[m])
        BY <1>1, <2>1, <2>7 DEF Later, Live
      <4>3. held[d][m].version < row[m].version \/ held[d][m] = View(row[m])
        BY <2>7, <4>1, <4>2 DEF VersionInv, Remembered
      <4>4. row[m] \in Row /\ row'[m] \in Row /\ held[d][m] \in Seen
        BY <2>6, <2>7, <4>1, <4>2 DEF VersionInv, Typed
      <4>5. row[m].version \in Nat /\ row'[m].version \in Nat /\ held[d][m].version \in Nat
        BY <4>4 DEF Row, Seen
      <4>6. View(row[m]).version = row[m].version /\ View(row'[m]).version = row'[m].version
        BY DEF View
      <4>7. CASE row[m].version < row'[m].version BY <4>1, <4>3, <4>5, <4>6, <4>7
      <4>8. CASE View(row'[m]) = View(row[m]) BY <4>1, <4>3, <4>5, <4>6, <4>8
      <4> QED BY <4>2, <4>7, <4>8
    <3> QED BY <3>1, <3>2
  <2>8. Numbered'
    <3>1. \A m \in Nodes : row'[m] # NoRow => row'[m].version # Unchecked
      BY <1>1, LaterNumbered
    <3>2. held'[c][n].version # Unchecked
      <4>1. View(row'[n]).version = row'[n].version BY DEF View
      <4> QED BY <1>1, <1>3, <2>4, <3>1, <4>1 DEF Live
    <3>3. ASSUME NEW d \in Clients, NEW m \in Nodes, held'[d][m] # None
          PROVE  held'[d][m].version # Unchecked
      BY <2>4, <3>2, <3>3 DEF VersionInv, Numbered
    <3> QED BY <3>1, <3>3 DEF Numbered
  <2> QED BY <2>6, <2>7, <2>8 DEF VersionInv, Remembered
<1> QED BY <1>2, <1>3 DEF Answer

-----------------------------------------------------------------------------
(* One lemma per action *)

\* A call sends a number.
LEMMA ExpectedTyped ==
  ASSUME Typed, NEW c \in Clients \cup {None}, NEW n \in Nodes, NEW e \in Expected(c, n)
  PROVE  e \in Nat
<1>1. CASE c = None BY <1>1 DEF Expected, Unchecked
<1>2. CASE c # None
  <2>1. PICK d \in Clients : held[d][n] # None /\ e = held[d][n].version BY <1>2 DEF Expected
  <2>2. held[d][n] \in Seen BY <2>1 DEF Typed
  <2> QED BY <2>1, <2>2 DEF Seen
<1> QED BY <1>1, <1>2

\* What every call starts from.
LEMMA CallContext ==
  ASSUME VersionInv, NEW n \in Nodes, row[n] # NoRow
  PROVE  World \in Worlds /\ Live(World, n) /\ World.row = row /\ World.disk = disk
BY WorldTyped DEF VersionInv

\* Reading tells the present state.
LEMMA ReadKeeps ==
  ASSUME VersionInv, NEW c \in Clients, NEW n \in Nodes, Read(c, n)
  PROVE  VersionInv'
<1>1. row[n] \in Row BY DEF VersionInv, Typed, Read
<1>2. View(row[n]) \in Seen BY <1>1 DEF View, Row, Seen
<1>3. /\ held' \in [Clients -> [Nodes -> Seen \cup {None}]]
      /\ held'[c][n] = View(row[n])
      /\ \A d \in Clients, m \in Nodes : d # c \/ m # n => held'[d][m] = held[d][m]
  BY <1>2 DEF VersionInv, Typed, Read
<1>4. row' = row /\ disk' = disk BY DEF Read
<1>5. Typed' BY <1>3, <1>4 DEF VersionInv, Typed
<1>6. ASSUME NEW d \in Clients, NEW m \in Nodes, held'[d][m] # None, row[m] # NoRow
      PROVE  held'[d][m].version < row[m].version \/ held'[d][m] = View(row[m])
  <2>1. CASE d = c /\ m = n BY <1>3, <2>1
  <2>2. CASE d # c \/ m # n BY <1>3, <1>6, <2>2 DEF VersionInv, Remembered
  <2> QED BY <2>1, <2>2
<1>7. Numbered'
  <2>1. View(row[n]).version = row[n].version BY DEF View
  <2>2. row[n].version # Unchecked BY DEF VersionInv, Numbered, Read
  <2>3. ASSUME NEW d \in Clients, NEW m \in Nodes, held'[d][m] # None
        PROVE  held'[d][m].version # Unchecked
    BY <1>3, <2>1, <2>2, <2>3 DEF VersionInv, Numbered
  <2> QED BY <1>4, <2>3 DEF VersionInv, Numbered
<1> QED BY <1>4, <1>5, <1>6, <1>7 DEF VersionInv, Remembered

\* update-node with new content.
LEMMA UpdateKeeps ==
  ASSUME VersionInv, NEW c \in Clients \cup {None}, NEW n \in Nodes, NEW e \in Nat,
         NEW content \in Content, Update(c, n, content, e)
  PROVE  VersionInv'
<1>1. World \in Worlds /\ Live(World, n) BY CallContext DEF Update
<1>2. /\ Mutate(World, n, content, e) \in Worlds
      /\ Later(World, Mutate(World, n, content, e))
  BY <1>1, MutateLater
<1> QED BY <1>2, AnswerKeeps DEF Update

\* update-node with a new title: an update and a rename.
LEMMA UpdateTitleKeeps ==
  ASSUME VersionInv, NEW c \in Clients \cup {None}, NEW n \in Nodes, NEW e \in Nat,
         NEW content \in Content, NEW p \in Place, UpdateTitle(c, n, content, p, e)
  PROVE  VersionInv'
<1> DEFINE updated == Mutate(World, n, content, e)
           renamed == Rename(updated, n, p)
<1>1. World \in Worlds /\ Live(World, n) BY CallContext DEF UpdateTitle
<1>2. updated \in Worlds /\ Later(World, updated) /\ Live(updated, n) BY <1>1, MutateLater
<1>3. \/ Answer(c, n, e, Refuse(World, "conflict"))
      \/ Answer(c, n, e, updated)
      \/ Answer(c, n, e, renamed)
      \/ \E v \in Thrown(updated, n, p) : Answer(c, n, e, After(updated.row, v.disk, "error"))
  BY DEF UpdateTitle
<1> HIDE DEF updated
<1>4. CASE Answer(c, n, e, Refuse(World, "conflict"))
  <2>1. "conflict" \in Outcomes BY DEF Outcomes
  <2> QED BY <1>1, <1>4, <2>1, RefuseLater, AnswerKeeps
<1>5. CASE Answer(c, n, e, updated) BY <1>2, <1>5, AnswerKeeps
<1>6. CASE Answer(c, n, e, renamed)
  <2>2. renamed \in Worlds /\ Later(updated, renamed) BY <1>2, RenameLater
  <2> HIDE DEF renamed
  <2>3. Later(World, renamed) BY <1>1, <1>2, <2>2, LaterTransitive
  <2> QED BY <1>6, <2>2, <2>3, AnswerKeeps
<1>7. ASSUME NEW v \in Thrown(updated, n, p), Answer(c, n, e, After(updated.row, v.disk, "error"))
      PROVE  VersionInv'
  <2> DEFINE d == v.disk
  <2>1. d \in [Place -> Content \cup {NoFile}] BY <1>2, ThrownTyped DEF Worlds
  <2>2. updated.row \in [Nodes -> Row \cup {NoRow}] /\ "error" \in Outcomes
    BY <1>2 DEF Worlds, Outcomes
  <2>3. Answer(c, n, e, After(updated.row, d, "error")) BY <1>7
  <2> HIDE DEF d
  <2>4. After(updated.row, d, "error") \in Worlds /\ After(updated.row, d, "error").row = updated.row
    BY <2>1, <2>2, AfterIsWorld
  <2>5. Later(World, After(updated.row, d, "error")) BY <1>2, <2>4 DEF Later, Live
  <2> QED BY <2>3, <2>4, <2>5, AnswerKeeps
<1> QED BY <1>3, <1>4, <1>5, <1>6, <1>7

\* What rename-node answers.
LEMMA RenameNodeAnswers ==
  ASSUME NEW c, NEW n, NEW p, NEW e, RenameNode(c, n, p, e)
  PROVE  \/ \E why \in {"conflict", "stale"} : Answer(c, n, e, Refuse(World, why))
         \/ /\ p = row[n].place \/ ~Taken(World, p)
            /\ ~Stale(World, n, e)
            /\ \/ Answer(c, n, e, Rename(World, n, p))
               \/ \E v \in Thrown(World, n, p) :
                    Answer(c, n, e, After(row, Unwound(World, n, p, v), "error"))
BY DEF RenameNode

\* rename-node.
LEMMA RenameNodeKeeps ==
  ASSUME VersionInv, NEW c \in Clients \cup {None}, NEW n \in Nodes, NEW e \in Nat,
         NEW p \in Place, RenameNode(c, n, p, e)
  PROVE  VersionInv'
<1>1. World \in Worlds /\ Live(World, n) /\ World.row = row BY CallContext DEF RenameNode
<1>2. ASSUME NEW why \in {"conflict", "stale"}, Answer(c, n, e, Refuse(World, why))
      PROVE  VersionInv'
  <2>1. why \in Outcomes BY DEF Outcomes
  <2> QED BY <1>1, <1>2, <2>1, RefuseLater, AnswerKeeps
<1>3. CASE Answer(c, n, e, Rename(World, n, p))
  <2>1. Rename(World, n, p) \in Worlds /\ Later(World, Rename(World, n, p))
    BY <1>1, RenameLater
  <2> QED BY <1>3, <2>1, AnswerKeeps
<1>4. ASSUME NEW v \in Thrown(World, n, p),
             Answer(c, n, e, After(row, Unwound(World, n, p, v), "error"))
      PROVE  VersionInv'
  <2> DEFINE d == Unwound(World, n, p, v)
  <2>1. d \in [Place -> Content \cup {NoFile}] BY <1>1, UnwoundTyped
  <2>2. row \in [Nodes -> Row \cup {NoRow}] /\ "error" \in Outcomes
    BY DEF VersionInv, Typed, Outcomes
  <2>3. Answer(c, n, e, After(row, d, "error")) BY <1>4
  <2> HIDE DEF d
  <2>4. After(row, d, "error") \in Worlds /\ After(row, d, "error").row = row
    BY <2>1, <2>2, AfterIsWorld
  <2>5. Later(World, After(row, d, "error")) BY <1>1, <2>4 DEF Later, Live
  <2> QED BY <2>3, <2>4, <2>5, AnswerKeeps
<1> QED BY <1>2, <1>3, <1>4, RenameNodeAnswers

\* delete-node: the row is gone, and with it every claim about its version.
LEMMA DeleteNodeKeeps ==
  ASSUME VersionInv, NEW c \in Clients \cup {None}, NEW n \in Nodes, NEW e \in Nat,
         DeleteNode(c, n, e)
  PROVE  VersionInv'
<1> DEFINE rows == [row EXCEPT ![n] = NoRow]
           files == [disk EXCEPT ![row[n].place] = NoFile]
<1>1. World \in Worlds /\ Live(World, n) /\ World.row = row BY CallContext DEF DeleteNode
<1>2. "ok" \in Outcomes /\ "stale" \in Outcomes BY DEF Outcomes
<1>3. Refuse(World, "stale") \in Worlds /\ Later(World, Refuse(World, "stale"))
  BY <1>1, <1>2, RefuseLater
<1>4. rows \in [Nodes -> Row \cup {NoRow}] /\ files \in [Place -> Content \cup {NoFile}]
  BY DEF VersionInv, Typed
<1>5. Answer(c, n, e, Refuse(World, "stale")) \/ Answer(c, n, e, After(rows, files, "ok"))
  BY DEF DeleteNode
<1>6. After(rows, files, "ok") \in Worlds /\ After(rows, files, "ok").row = rows
  <2> HIDE DEF rows, files
  <2> QED BY <1>2, <1>4, AfterIsWorld
<1>7. ASSUME NEW m \in Nodes, Live(After(rows, files, "ok"), m)
      PROVE  Live(World, m) /\ After(rows, files, "ok").row[m] = World.row[m]
  <2>1. rows[m] # NoRow BY <1>6, <1>7 DEF Live
  <2>2. m # n /\ rows[m] = row[m] BY <2>1 DEF VersionInv, Typed
  <2> QED BY <1>1, <1>6, <2>1, <2>2 DEF Live
<1> HIDE DEF rows, files
<1>8. Later(World, After(rows, files, "ok")) BY <1>7 DEF Later
<1> QED BY <1>3, <1>5, <1>6, <1>8, AnswerKeeps

\* The watcher takes a user's text up under the next version.
LEMMA WatchKeeps ==
  ASSUME VersionInv, NEW n \in Nodes, Watch(n)
  PROVE  VersionInv'
<1> DEFINE w == After([row EXCEPT ![n] = Absorbed(n)], disk, "ok")
<1>1. World \in Worlds /\ Live(World, n) /\ World.row = row BY CallContext DEF Watch
<1>2. row[n] \in Row BY DEF Watch, VersionInv, Typed
<1>3. disk[row[n].place] \in Content
  BY <1>2 DEF Watch, Fresh, VersionInv, Typed, Row
<1>4. Absorbed(n) \in Row /\ row[n].version < Absorbed(n).version
  BY <1>2, <1>3 DEF Absorbed, Row
<1>5. [row EXCEPT ![n] = Absorbed(n)] \in [Nodes -> Row \cup {NoRow}]
  BY <1>4 DEF VersionInv, Typed
<1>6. /\ w \in Worlds /\ w.row = [row EXCEPT ![n] = Absorbed(n)] /\ w.disk = disk
  <2> DEFINE rows == [row EXCEPT ![n] = Absorbed(n)]
  <2>1. disk \in [Place -> Content \cup {NoFile}] /\ "ok" \in Outcomes
    BY DEF VersionInv, Typed, Outcomes
  <2>2. rows \in [Nodes -> Row \cup {NoRow}] BY <1>5
  <2> HIDE DEF rows
  <2>3. /\ After(rows, disk, "ok") \in Worlds
        /\ After(rows, disk, "ok").row = rows /\ After(rows, disk, "ok").disk = disk
    BY <2>1, <2>2, AfterIsWorld
  <2> QED BY <2>3 DEF rows
<1>7. w.row[n] = Absorbed(n) /\ \A m \in Nodes \ {n} : w.row[m] = row[m]
  BY <1>6 DEF VersionInv, Typed
<1>8. row' = w.row /\ disk' = w.disk /\ held' = held BY <1>6 DEF Watch, Quiet
<1> HIDE DEF w
<1>9. Later(World, w) BY <1>1, <1>4, <1>6, <1>7, RaisedLater
<1> QED BY <1>6, <1>8, <1>9, QuietKeeps

\* The invariant holds as long as nothing but the raising operations is used.
LEMMA VersionInductive ==
  ASSUME Raising
  PROVE  Spec => []VersionInv
<1>1. Init => VersionInv
  <2> SUFFICES ASSUME Init PROVE VersionInv
    OBVIOUS
  <2>1. row \in [Nodes -> Row \cup {NoRow}] BY NodeToolsConstants DEF Init
  <2>2. held \in [Clients -> [Nodes -> Seen \cup {None}]] BY DEF Init
  <2>3. ASSUME NEW p \in Place, \E n \in Nodes : Start[n] # NoRow /\ Start[n].place = p
        PROVE  (CHOOSE r \in {Start[n] : n \in Nodes} : r # NoRow /\ r.place = p).content \in Content
    <3> DEFINE r0 == CHOOSE r \in {Start[n] : n \in Nodes} : r # NoRow /\ r.place = p
    <3>1. r0 \in {Start[n] : n \in Nodes} /\ r0 # NoRow BY <2>3
    <3> HIDE DEF r0
    <3>2. r0 \in Row BY <3>1, NodeToolsConstants
    <3>3. r0.content \in Content BY <3>2 DEF Row
    <3> QED BY <3>3 DEF r0
  <2>4. disk \in [Place -> Content \cup {NoFile}] BY <2>3 DEF Init
  <2>5. Remembered /\ Numbered BY NodeToolsConstants DEF Init, Remembered, Numbered
  <2> QED BY <2>1, <2>2, <2>4, <2>5 DEF VersionInv, Typed
<1>2. ASSUME VersionInv, [Next]_vars PROVE VersionInv'
  <2>1. ASSUME NEW c \in Clients, NEW n \in Nodes, Read(c, n) PROVE VersionInv'
    BY <1>2, <2>1, ReadKeeps
  <2>2. ASSUME NEW c \in Clients \cup {None}, NEW n \in Nodes, Call(c, n) PROVE VersionInv'
    <3>1. PICK e \in Expected(c, n) :
            \/ \E content \in Inputs :
                 \/ Update(c, n, content, e)
                 \/ \E p \in Place : UpdateTitle(c, n, content, p, e)
                 \/ \E d \in Dirs : UpdateDirectory(c, n, content, d, e)
            \/ \E p \in Place : RenameNode(c, n, p, e)
            \/ DeleteNode(c, n, e)
      BY <2>2 DEF Call
    <3>2. e \in Nat BY <1>2, ExpectedTyped DEF VersionInv
    <3>3. ASSUME NEW content \in Inputs PROVE content \in Content BY NodeToolsConstants
    <3>4. CASE \E content \in Inputs : Update(c, n, content, e)
      BY <1>2, <3>2, <3>3, <3>4, UpdateKeeps
    <3>5. CASE \E content \in Inputs, p \in Place : UpdateTitle(c, n, content, p, e)
      BY <1>2, <3>2, <3>3, <3>5, UpdateTitleKeeps
    <3>6. CASE \E content \in Inputs, d \in Dirs : UpdateDirectory(c, n, content, d, e)
      BY <1>2, <3>6 DEF UpdateDirectory, Raising
    <3>7. CASE \E p \in Place : RenameNode(c, n, p, e)
      BY <1>2, <3>2, <3>7, RenameNodeKeeps
    <3>8. CASE DeleteNode(c, n, e) BY <1>2, <3>2, <3>8, DeleteNodeKeeps
    <3> QED BY <3>1, <3>4, <3>5, <3>6, <3>7, <3>8
  <2>3. ASSUME NEW n \in Nodes, UndoDelete(n) PROVE VersionInv'
    BY <2>3 DEF UndoDelete, Raising
  <2>4. ASSUME NEW n \in Nodes, Watch(n) PROVE VersionInv'
    BY <1>2, <2>4, WatchKeeps
  <2>5. ASSUME NEW n \in Nodes, StartIndex(n) PROVE VersionInv'
    BY <1>2, <2>5 DEF StartIndex, Raising
  <2>6. ASSUME NEW p \in Place, NEW c \in Inputs, Save(p, c) PROVE VersionInv'
    <3>1. row' = row /\ held' = held /\ disk' = [disk EXCEPT ![p] = c]
      BY <2>6 DEF Save, Quiet
    <3>2. disk' \in [Place -> Content \cup {NoFile}]
      BY <1>2, <3>1, NodeToolsConstants DEF VersionInv, Typed
    <3> QED BY <1>2, <3>1, <3>2 DEF VersionInv, Typed, Numbered, Remembered
  <2>7. CASE UNCHANGED vars
    BY <1>2, <2>7 DEF vars, VersionInv, Typed, Numbered, Remembered
  <2> QED BY <1>2, <2>1, <2>2, <2>3, <2>4, <2>5, <2>6, <2>7 DEF Next
<1> QED BY <1>1, <1>2, PTL DEF Spec

\* For every vault and every set of callers, as long as nothing but the raising
\* operations is used: a version names one state of a node.
THEOREM VersionsNameStates ==
  ASSUME Raising
  PROVE  Spec => []VersionNamesState
<1>1. VersionInv => VersionNamesState
  <2> SUFFICES ASSUME VersionInv, NEW c \in Clients, NEW n \in Nodes,
                      held[c][n] # None, row[n] # NoRow, held[c][n].version = row[n].version
               PROVE  held[c][n] = View(row[n])
    BY DEF VersionNamesState
  <2>1. row[n] \in Row BY DEF VersionInv, Typed
  <2>2. row[n].version \in Nat BY <2>1 DEF Row
  <2> QED BY <2>2 DEF VersionInv, Remembered
<1> QED BY <1>1, VersionInductive, PTL

-----------------------------------------------------------------------------
(* Places: types, one row for a path, a file for every row. *)

\* What OneRowPerPath and RowHasFile say of a world.
One(w)  == \A m, n \in Nodes : m # n /\ Live(w, m) /\ Live(w, n) => w.row[m].place # w.row[n].place
Full(w) == \A n \in Nodes : Live(w, n) => w.disk[w.row[n].place] # NoFile

\* No row but n's is at p.
Free(w, n, p) == \A m \in Nodes \ {n} : Live(w, m) => w.row[m].place # p

\* From w to v no row moves or appears, and no file disappears.
Stays(w, v) ==
  /\ \A n \in Nodes : Live(v, n) => Live(w, n) /\ v.row[n].place = w.row[n].place
  /\ \A p \in Place : w.disk[p] # NoFile => v.disk[p] # NoFile

\* Where nothing moves, no path is taken twice and no file is lost.
LEMMA StaysPlaces ==
  ASSUME NEW w \in Worlds, NEW v \in Worlds, Stays(w, v)
  PROVE  /\ One(w) => One(v)
         /\ Full(w) => Full(v)
         /\ \A n \in Nodes, p \in Place : Free(w, n, p) => Free(v, n, p)
<1>1. \A n \in Nodes : Live(v, n) => w.row[n].place \in Place
  BY DEF Stays, Worlds, Live, Row
<1> QED
  BY <1>1 DEF Stays, One, Full, Free

\* executeMutation moves nothing.
LEMMA MutateStays ==
  ASSUME NEW w \in Worlds, NEW n \in Nodes, Live(w, n), NEW c \in Content, NEW e
  PROVE  Stays(w, Mutate(w, n, c, e))
<1>1. \/ \E why : Mutate(w, n, c, e) = Refuse(w, why)
      \/ Mutate(w, n, c, e) = Written(w, n, c)
  BY DEF Mutate
<1>2. ASSUME NEW why PROVE Stays(w, Refuse(w, why))
  BY DEF Stays, Refuse, After, Live
<1>3. Stays(w, Written(w, n, c))
  <2> DEFINE new == [version |-> w.row[n].version + 1, place |-> w.row[n].place,
                     content |-> c, hash |-> c]
             v == Written(w, n, c)
  <2>1. v.row = [w.row EXCEPT ![n] = new] /\ v.disk = [w.disk EXCEPT ![w.row[n].place] = c]
    BY DEF Written, After
  <2>2. new.place = w.row[n].place
    OBVIOUS
  <2>3. w.row \in [Nodes -> Row \cup {NoRow}] /\ w.disk \in [Place -> Content \cup {NoFile}] /\ c # NoFile
    BY NodeToolsConstants DEF Worlds
  <2> HIDE DEF new, v
  <2>4. \A m \in Nodes : Live(v, m) => Live(w, m) /\ v.row[m].place = w.row[m].place
    BY <2>1, <2>2, <2>3 DEF Live
  <2>5. \A p \in Place : w.disk[p] # NoFile => v.disk[p] # NoFile
    BY <2>1, <2>3
  <2> QED
    BY <2>4, <2>5 DEF Stays, v
<1> QED
  BY <1>1, <1>2, <1>3

\* Rewriting links moves nothing.
LEMMA RewrittenStays ==
  ASSUME NEW w \in Worlds, NEW refs \in SUBSET Nodes, \A m \in refs : Live(w, m), NEW t \in Titles
  PROVE  Stays(w, Rewritten(w, refs, t))
<1> DEFINE rewritten(m) == Mutate(w, m, Relinked(w, m, t), Unchecked)
           v == Rewritten(w, refs, t)
<1>1. /\ v.row = [m \in Nodes |-> IF m \in refs THEN rewritten(m).row[m] ELSE w.row[m]]
      /\ v.disk = [p \in Place |->
           IF \E m \in refs : w.row[m].place = p
             THEN rewritten(CHOOSE m \in refs : w.row[m].place = p).disk[p]
             ELSE w.disk[p]]
  BY DEF Rewritten, After
<1>2. ASSUME NEW m \in refs PROVE Stays(w, rewritten(m))
  <2>1. w.row[m].content \in Content
    BY DEF Worlds, Live, Row
  <2>2. Relinked(w, m, t) \in Content
    BY <2>1 DEF Relinked, Content
  <2> QED
    BY <2>2, MutateStays
<1> HIDE DEF rewritten, v
<1>3. ASSUME NEW m \in Nodes, Live(v, m) PROVE Live(w, m) /\ v.row[m].place = w.row[m].place
  <2>1. CASE m \in refs
    BY <1>1, <1>2, <1>3, <2>1 DEF Stays, Live
  <2>2. CASE m \notin refs
    BY <1>1, <1>3, <2>2 DEF Live
  <2> QED
    BY <2>1, <2>2
<1>4. ASSUME NEW p \in Place, w.disk[p] # NoFile PROVE v.disk[p] # NoFile
  <2>1. CASE \E m \in refs : w.row[m].place = p
    <3> DEFINE m == CHOOSE m \in refs : w.row[m].place = p
    <3>1. m \in refs /\ v.disk[p] = rewritten(m).disk[p]
      BY <1>1, <2>1
    <3> HIDE DEF m
    <3> QED
      BY <1>2, <1>4, <3>1 DEF Stays
  <2>2. CASE ~ \E m \in refs : w.row[m].place = p
    BY <1>1, <1>4, <2>2
  <2> QED
    BY <2>1, <2>2
<1> QED
  BY <1>3, <1>4 DEF Stays, v

\* A row that moves to a free path, with its file if it has one.
LEMMA MovesPlaces ==
  ASSUME NEW w \in Worlds, NEW v \in Worlds, NEW n \in Nodes, NEW p \in Place, Live(w, n),
         Free(w, n, p), v.row[n].place = p, \A m \in Nodes \ {n} : v.row[m] = w.row[m],
         \/ v.disk = w.disk /\ (p = w.row[n].place \/ w.disk[w.row[n].place] = NoFile)
         \/ /\ p # w.row[n].place /\ w.disk[w.row[n].place] # NoFile
            /\ v.disk = FileMoved(w.disk, w.row[n].place, p)
  PROVE  /\ One(w) => One(v)
         /\ One(w) /\ Full(w) => Full(v)
<1> DEFINE old == w.row[n].place
<1>1. One(w) => One(v)
  BY DEF One, Free, Live
<1>2. ASSUME One(w), Full(w), NEW m \in Nodes, Live(v, m) PROVE v.disk[v.row[m].place] # NoFile
  <2>1. old \in Place /\ w.disk \in [Place -> Content \cup {NoFile}] /\ w.disk[old] # NoFile
    BY <1>2 DEF Worlds, Live, Row, Full
  <2>2. \A q \in Place : q # p /\ q # old => v.disk[q] = w.disk[q]
    BY <2>1 DEF FileMoved
  <2>3. v.disk[p] = w.disk[old]
    BY <2>1 DEF FileMoved
  <2>4. CASE m = n
    BY <2>1, <2>3, <2>4
  <2>5. CASE m # n
    <3>1. Live(w, m) /\ v.row[m] = w.row[m]
      BY <1>2, <2>5 DEF Live
    <3>2. w.row[m].place \in Place /\ w.row[m].place # p /\ w.row[m].place # old
      BY <1>2, <2>5, <3>1 DEF Free, One, Worlds, Live, Row
    <3> QED
      BY <1>2, <2>2, <3>1, <3>2 DEF Full
  <2> QED
    BY <2>4, <2>5
<1> QED
  BY <1>1, <1>2 DEF Full

\* A rename to a free path.
LEMMA RenamedPlaces ==
  ASSUME NEW w \in Worlds, NEW n \in Nodes, Live(w, n), NEW p \in Place, Free(w, n, p)
  PROVE  /\ One(w) => One(Renamed(w, n, p))
         /\ One(w) /\ Full(w) => Full(Renamed(w, n, p))
<1> DEFINE v == Renamed(w, n, p)
           old == w.row[n].place
           new == [version |-> w.row[n].version + 1, place |-> p,
                   content |-> w.row[n].content, hash |-> w.row[n].hash]
<1>1. v \in Worlds /\ \A m \in Nodes \ {n} : v.row[m] = w.row[m]
  BY RenamedRaises
<1>2. /\ v.row = [w.row EXCEPT ![n] = new]
      /\ v.disk = IF p = old \/ w.disk[old] = NoFile THEN w.disk ELSE FileMoved(w.disk, old, p)
  BY DEF Renamed, After
<1>3. new.place = p
  OBVIOUS
<1>4. w.row \in [Nodes -> Row \cup {NoRow}]
  BY DEF Worlds
<1> HIDE DEF v, new
<1>5. v.row[n].place = p
  BY <1>2, <1>3, <1>4
<1>6. /\ One(w) => One(v)
      /\ One(w) /\ Full(w) => Full(v)
  BY <1>1, <1>2, <1>5, MovesPlaces
<1> QED
  BY <1>6 DEF v

\* A rename moves its node to a place that is free.
LEMMA RenamePlaces ==
  ASSUME NEW w \in Worlds, NEW n \in Nodes, Live(w, n), NEW p \in Place, Free(w, n, p)
  PROVE  /\ One(w) => One(Rename(w, n, p))
         /\ One(w) /\ Full(w) => Full(Rename(w, n, p))
<1> DEFINE refs    == Referrers(w, n)
           moved   == Renamed(w, n, p)
           renamed == Mutate(moved, n, w.row[n].content, Unchecked)
           done    == Rewritten(renamed, refs, p.title)
<1>1. Rename(w, n, p) = done
  BY DEF Rename
<1>3. w.row[n].content \in Content /\ Unchecked \in Nat /\ p.title \in Titles
  BY DEF Worlds, Live, Row, Place, Unchecked
<1>4. /\ moved \in Worlds /\ Live(moved, n) /\ \A m \in Nodes \ {n} : moved.row[m] = w.row[m]
  BY RenamedRaises
<1>5. (One(w) => One(moved)) /\ (One(w) /\ Full(w) => Full(moved))
  BY RenamedPlaces
<1> HIDE DEF moved
<1>6. /\ renamed \in Worlds /\ Stays(moved, renamed)
      /\ \A m \in Nodes \ {n} : renamed.row[m] = moved.row[m]
  BY <1>3, <1>4, MutateLater, MutateStays
<1> HIDE DEF renamed
<1>7. refs \in SUBSET Nodes /\ \A m \in refs : Live(renamed, m)
  BY <1>4, <1>6 DEF Referrers, Live
<1> HIDE DEF refs
<1>8. done \in Worlds /\ Stays(renamed, done)
  BY <1>3, <1>6, <1>7, RewrittenLater, RewrittenStays
<1> HIDE DEF done
<1>9. (One(w) => One(done)) /\ (One(w) /\ Full(w) => Full(done))
  BY <1>4, <1>5, <1>6, <1>8, StaysPlaces
<1> QED
  BY <1>1, <1>9

-----------------------------------------------------------------------------
(* The undo steps of a rename that throws put every file back. *)

\* From "before" to v, with rows where they are: a file that differs is that of a row
\* that differs, and holds what that row says.
Recorded(before, v) ==
  /\ \A m \in Nodes : Live(v, m) => v.row[m].place \in Place
  /\ \A q \in Place : v.disk[q] # before.disk[q] =>
       \E m \in Nodes : /\ Live(v, m) /\ v.row[m] # before.row[m]
                        /\ v.row[m].place = q /\ v.row[m].content = v.disk[q]

\* executeMutation records what it writes.
LEMMA MutateRecorded ==
  ASSUME NEW w \in Worlds, NEW n \in Nodes, Live(w, n), NEW c \in Content
  PROVE  /\ Recorded(w, Mutate(w, n, c, Unchecked))
         /\ \A q \in Place \ {w.row[n].place} : Mutate(w, n, c, Unchecked).disk[q] = w.disk[q]
<1> DEFINE v == Mutate(w, n, c, Unchecked)
           new == [version |-> w.row[n].version + 1, place |-> w.row[n].place,
                   content |-> c, hash |-> c]
<1>1. /\ w.row \in [Nodes -> Row \cup {NoRow}] /\ w.disk \in [Place -> Content \cup {NoFile}]
      /\ w.row[n] \in Row /\ \A m \in Nodes : Live(w, m) => w.row[m].place \in Place
  BY DEF Worlds, Live, Row
<1>2. \/ v.row = w.row /\ v.disk = w.disk
      \/ v.row = [w.row EXCEPT ![n] = new] /\ v.disk = [w.disk EXCEPT ![w.row[n].place] = c]
  BY DEF Mutate, Refuse, Written, After
<1>3. new \in Row /\ new # NoRow /\ new # w.row[n] /\ new.place = w.row[n].place /\ new.content = c
  BY <1>1, NodeToolsConstants DEF Row
<1> HIDE DEF v, new
<1>4. CASE v.row = w.row /\ v.disk = w.disk
  <2>1. Recorded(w, v)
    BY <1>1, <1>4 DEF Recorded, Live
  <2> QED
    BY <1>4, <2>1 DEF v
<1>5. CASE v.row = [w.row EXCEPT ![n] = new] /\ v.disk = [w.disk EXCEPT ![w.row[n].place] = c]
  <2>1. v.row[n] = new /\ \A m \in Nodes \ {n} : v.row[m] = w.row[m]
    BY <1>1, <1>5
  <2>2. /\ v.disk[w.row[n].place] = c
        /\ \A q \in Place \ {w.row[n].place} : v.disk[q] = w.disk[q]
    BY <1>1, <1>5 DEF Row
  <2>3. \A m \in Nodes : Live(v, m) => v.row[m].place \in Place
    BY <1>1, <1>3, <2>1 DEF Live
  <2>4. Recorded(w, v)
    BY <1>3, <2>1, <2>2, <2>3 DEF Recorded, Live
  <2> QED
    BY <2>2, <2>4 DEF v
<1> QED
  BY <1>2, <1>4, <1>5

\* So does the rewriting of links.
LEMMA RewrittenRecorded ==
  ASSUME NEW w \in Worlds, NEW refs \in SUBSET Nodes, \A m \in refs : Live(w, m), NEW t \in Titles
  PROVE  /\ Recorded(w, Rewritten(w, refs, t))
         /\ \A m \in Nodes \ refs : Rewritten(w, refs, t).row[m] = w.row[m]
         /\ \A q \in Place : (\A m \in refs : w.row[m].place # q)
                               => Rewritten(w, refs, t).disk[q] = w.disk[q]
<1> DEFINE rewritten(m) == Mutate(w, m, Relinked(w, m, t), Unchecked)
           v == Rewritten(w, refs, t)
<1>1. /\ v.row = [m \in Nodes |-> IF m \in refs THEN rewritten(m).row[m] ELSE w.row[m]]
      /\ v.disk = [p \in Place |->
           IF \E m \in refs : w.row[m].place = p
             THEN rewritten(CHOOSE m \in refs : w.row[m].place = p).disk[p]
             ELSE w.disk[p]]
  BY DEF Rewritten, After
<1>2. ASSUME NEW m \in refs
      PROVE  /\ Recorded(w, rewritten(m)) /\ Stays(w, rewritten(m))
             /\ \A k \in Nodes \ {m} : rewritten(m).row[k] = w.row[k]
  <2>1. w.row[m].content \in Content
    BY DEF Worlds, Live, Row
  <2>2. Relinked(w, m, t) \in Content /\ Unchecked \in Nat
    BY <2>1 DEF Relinked, Content, Unchecked
  <2> QED
    BY <2>2, MutateRecorded, MutateLater, MutateStays
<1> HIDE DEF rewritten, v
<1>3. \A m \in Nodes : Live(v, m) => v.row[m].place \in Place
  BY <1>1, <1>2 DEF Recorded, Live, Worlds, Row
<1>4. ASSUME NEW q \in Place, v.disk[q] # w.disk[q]
      PROVE  \E m \in Nodes : /\ Live(v, m) /\ v.row[m] # w.row[m]
                              /\ v.row[m].place = q /\ v.row[m].content = v.disk[q]
  <2>1. \E m \in refs : w.row[m].place = q
    BY <1>1, <1>4
  <2> DEFINE k == CHOOSE m \in refs : w.row[m].place = q
  <2>2. k \in refs /\ w.row[k].place = q /\ v.disk[q] = rewritten(k).disk[q]
    BY <1>1, <2>1
  <2> HIDE DEF k
  <2>3. PICK m \in Nodes : /\ Live(rewritten(k), m) /\ rewritten(k).row[m] # w.row[m]
                           /\ rewritten(k).row[m].place = q
                           /\ rewritten(k).row[m].content = rewritten(k).disk[q]
    BY <1>2, <1>4, <2>2 DEF Recorded
  <2>4. m = k /\ v.row[m] = rewritten(k).row[m]
    BY <1>1, <1>2, <2>2, <2>3
  <2> QED
    BY <2>2, <2>3, <2>4 DEF Live
<1>5. Recorded(w, v)
  BY <1>3, <1>4 DEF Recorded
<1>6. \A m \in Nodes \ refs : v.row[m] = w.row[m]
  BY <1>1
<1>7. \A q \in Place : (\A m \in refs : w.row[m].place # q) => v.disk[q] = w.disk[q]
  BY <1>1
<1> QED
  BY <1>5, <1>6, <1>7 DEF v

\* What a rename that throws has written is recorded: the node's own file, and those of
\* nodes that refer to it, which are other files.
LEMMA ThrownRecorded ==
  ASSUME NEW w \in Worlds, NEW n \in Nodes, Live(w, n), NEW p \in Place, One(w), Free(w, n, p),
         NEW v \in Thrown(w, n, p)
  PROVE  Recorded(Renamed(w, n, p), v)
<1> DEFINE moved   == Renamed(w, n, p)
           renamed == Mutate(moved, n, w.row[n].content, Unchecked)
           valid   == {m \in Referrers(w, n) : w.row[m].content.text \notin Invalid}
<1>1. v = moved \/ \E done \in SUBSET valid : v = Rewritten(renamed, done, p.title)
  BY DEF Thrown
<1>2. w.row[n].content \in Content /\ Unchecked \in Nat /\ p.title \in Titles
  BY DEF Worlds, Live, Row, Place, Unchecked
<1>3. moved \in Worlds /\ Live(moved, n) /\ \A m \in Nodes \ {n} : moved.row[m] = w.row[m]
  BY RenamedRaises
<1>4. moved.row[n].place = p
  BY DEF Renamed, After, Worlds
<1> HIDE DEF moved
<1>5. /\ renamed \in Worlds /\ Live(renamed, n) /\ Recorded(moved, renamed)
      /\ \A m \in Nodes \ {n} : renamed.row[m] = moved.row[m]
      /\ \A q \in Place \ {p} : renamed.disk[q] = moved.disk[q]
  <2>1. /\ renamed \in Worlds /\ Live(renamed, n)
        /\ \A m \in Nodes \ {n} : renamed.row[m] = moved.row[m]
    BY <1>2, <1>3, MutateLater
  <2>2. /\ Recorded(moved, renamed)
        /\ \A q \in Place \ {moved.row[n].place} : renamed.disk[q] = moved.disk[q]
    BY <1>2, <1>3, MutateRecorded
  <2> QED
    BY <1>4, <2>1, <2>2
<1> HIDE DEF renamed
<1>6. CASE v = moved
  <2>1. \A m \in Nodes : Live(moved, m) => moved.row[m].place \in Place
    BY <1>3 DEF Worlds, Live, Row
  <2> QED
    BY <1>6, <2>1 DEF Recorded, moved
<1>7. ASSUME NEW done \in SUBSET valid, v = Rewritten(renamed, done, p.title)
      PROVE  Recorded(moved, v)
  <2>1. done \in SUBSET Nodes /\ n \notin done
        /\ \A m \in done : Live(renamed, m) /\ renamed.row[m] = w.row[m] /\ w.row[m].place # p
    BY <1>3, <1>5 DEF Referrers, Live, Free
  <2> HIDE DEF valid
  <2>2. /\ Recorded(renamed, v)
        /\ \A m \in Nodes \ done : v.row[m] = renamed.row[m]
        /\ \A q \in Place : (\A m \in done : renamed.row[m].place # q) => v.disk[q] = renamed.disk[q]
    <3> DEFINE u == Rewritten(renamed, done, p.title)
    <3>1. /\ Recorded(renamed, u)
          /\ \A m \in Nodes \ done : u.row[m] = renamed.row[m]
          /\ \A q \in Place : (\A m \in done : renamed.row[m].place # q) => u.disk[q] = renamed.disk[q]
      BY <1>2, <1>5, <2>1, RewrittenRecorded
    <3> QED
      BY <1>7, <3>1
  <2>3. ASSUME NEW q \in Place, v.disk[q] # moved.disk[q]
        PROVE  \E m \in Nodes : /\ Live(v, m) /\ v.row[m] # moved.row[m]
                                /\ v.row[m].place = q /\ v.row[m].content = v.disk[q]
    <3>1. CASE q = p
      <4>1. v.disk[q] = renamed.disk[q] /\ v.row[n] = renamed.row[n]
        BY <2>1, <2>2, <3>1
      <4>2. PICK m \in Nodes : /\ Live(renamed, m) /\ renamed.row[m] # moved.row[m]
                               /\ renamed.row[m].place = q
                               /\ renamed.row[m].content = renamed.disk[q]
        BY <1>5, <2>3, <4>1 DEF Recorded
      <4>3. m = n
        BY <1>5, <4>2
      <4> QED
        BY <4>1, <4>2, <4>3 DEF Live
    <3>2. CASE q # p
      <4>1. v.disk[q] # renamed.disk[q]
        BY <1>5, <2>3, <3>2
      <4>2. PICK m \in Nodes : /\ Live(v, m) /\ v.row[m] # renamed.row[m]
                               /\ v.row[m].place = q /\ v.row[m].content = v.disk[q]
        BY <2>2, <4>1 DEF Recorded
      <4>3. m \in done /\ renamed.row[m] = moved.row[m]
        BY <1>5, <2>1, <2>2, <4>2
      <4> QED
        BY <4>2, <4>3
    <3> QED
      BY <3>1, <3>2
  <2> QED
    BY <2>2, <2>3 DEF Recorded
<1> QED
  BY <1>1, <1>6, <1>7 DEF moved

\* After the undo steps every file is where it was, with what it held, an edit of its user
\* included, if the new path was free in the rows and on the disk.
LEMMA UnwoundRestores ==
  ASSUME NEW w \in Worlds, NEW n \in Nodes, Live(w, n), NEW p \in Place, One(w), Free(w, n, p),
         p = w.row[n].place \/ w.disk[p] = NoFile, NEW v \in Thrown(w, n, p)
  PROVE  Unwound(w, n, p, v) = w.disk
<1> DEFINE moved == Renamed(w, n, p)
           old == w.row[n].place
<1>1. /\ v \in Worlds /\ moved \in Worlds /\ Recorded(moved, v) /\ old \in Place
      /\ w.disk \in [Place -> Content \cup {NoFile}]
  BY ThrownTyped, RenamedRaises, ThrownRecorded DEF Worlds, Live, Row
<1>2. moved.disk = IF p = old \/ w.disk[old] = NoFile THEN w.disk ELSE FileMoved(w.disk, old, p)
  BY DEF Renamed, After
<1> HIDE DEF moved
<1>3. WritesUndone(moved, v) = moved.disk
  BY <1>1 DEF WritesUndone, Recorded, Worlds
<1>4. MovedBack(w, n, p, moved.disk) = w.disk
  <2>1. CASE p = old \/ w.disk[old] = NoFile
    BY <1>2, <2>1 DEF MovedBack
  <2>2. CASE p # old /\ w.disk[old] # NoFile
    <3>1. moved.disk = [w.disk EXCEPT ![p] = w.disk[old], ![old] = NoFile] /\ w.disk[p] = NoFile
      BY <1>2, <2>2 DEF FileMoved
    <3>2. moved.disk[p] = w.disk[old] /\ moved.disk[old] = NoFile
      BY <1>1, <2>2, <3>1
    <3>3. MovedBack(w, n, p, moved.disk) = [moved.disk EXCEPT ![old] = moved.disk[p], ![p] = NoFile]
      BY <2>2, <3>2 DEF MovedBack, FileMoved
    <3> QED
      BY <1>1, <2>2, <3>1, <3>2, <3>3
  <2> QED
    BY <2>1, <2>2
<1> QED
  BY <1>3, <1>4 DEF Unwound, moved

-----------------------------------------------------------------------------
(* Every action keeps the places. *)

\* moveNodeFile, to a free path.
LEMMA MovedPlaces ==
  ASSUME NEW w \in Worlds, NEW n \in Nodes, Live(w, n), NEW p \in Place, Free(w, n, p),
         p # w.row[n].place, w.disk[w.row[n].place] # NoFile
  PROVE  /\ Moved(w, n, p) \in Worlds /\ Live(Moved(w, n, p), n)
         /\ One(w) => One(Moved(w, n, p))
         /\ One(w) /\ Full(w) => Full(Moved(w, n, p))
<1> DEFINE new == [version |-> w.row[n].version, place |-> p, content |-> w.row[n].content, hash |-> None]
           old == w.row[n].place
           rows == [w.row EXCEPT ![n] = new]
           files == FileMoved(w.disk, old, p)
           v == Moved(w, n, p)
<1>1. w.row[n] \in Row /\ old \in Place
  BY DEF Worlds, Live, Row
<1>2. new \in Row /\ new # NoRow /\ new.place = p
  BY <1>1, NodeToolsConstants DEF Row
<1>3. w.row \in [Nodes -> Row \cup {NoRow}] /\ w.disk \in [Place -> Content \cup {NoFile}]
  BY DEF Worlds
<1>4. v = After(rows, files, "ok")
  BY DEF Moved
<1> HIDE DEF new
<1>5. rows \in [Nodes -> Row \cup {NoRow}] /\ files \in [Place -> Content \cup {NoFile}]
  BY <1>1, <1>2, <1>3 DEF FileMoved
<1>6. rows[n] = new /\ \A m \in Nodes \ {n} : rows[m] = w.row[m]
  BY <1>3
<1> HIDE DEF rows, files, v
<1>7. v \in Worlds /\ v.row = rows /\ v.disk = files
  BY <1>4, <1>5, AfterIsWorld DEF Outcomes
<1>8. (One(w) => One(v)) /\ (One(w) /\ Full(w) => Full(v))
  BY <1>2, <1>6, <1>7, MovesPlaces DEF files
<1> QED
  BY <1>2, <1>6, <1>7, <1>8 DEF Live, v

\* The files are all there unless renames by title are in use, which lose them.
PlacesInv == NodeTypeOK /\ OneRowPerPath /\ ("title" \notin Ops => RowHasFile)
Good(w)   == One(w) /\ ("title" \notin Ops => Full(w))

\* The world of the present state is in order.
LEMMA GoodWorld ==
  ASSUME PlacesInv
  PROVE  /\ World \in Worlds /\ World.row = row /\ World.disk = disk /\ Good(World) /\ Typed
         /\ \A n \in Nodes : Live(World, n) <=> row[n] # NoRow
<1>1. Typed
  BY DEF PlacesInv, NodeTypeOK, Typed
<1>2. /\ World \in Worlds /\ World.row = row /\ World.disk = disk
      /\ \A n \in Nodes : Live(World, n) <=> row[n] # NoRow
  BY <1>1, WorldTyped
<1> QED
  BY <1>1, <1>2 DEF PlacesInv, OneRowPerPath, RowHasFile, Good, One, Full

\* An answer makes a good world the present state.
LEMMA AnswerPlaces ==
  ASSUME PlacesInv, NEW c \in Clients \cup {None}, NEW n \in Nodes, NEW e \in Nat,
         NEW w \in Worlds, Good(w), Answer(c, n, e, w), trash' \in [Nodes -> Seen \cup {None}]
  PROVE  PlacesInv'
<1>1. /\ row' = w.row /\ disk' = w.disk /\ UNCHANGED saves
      /\ reply' = [by |-> c, node |-> n, expected |-> e, outcome |-> w.out]
  BY DEF Answer
<1>2. /\ w.row \in [Nodes -> Row \cup {NoRow}] /\ w.disk \in [Place -> Content \cup {NoFile}]
      /\ w.out \in Outcomes
  BY DEF Worlds
<1>3. held' \in [Clients -> [Nodes -> Seen \cup {None}]]
  <2>1. CASE held' = held
    BY <2>1 DEF PlacesInv, NodeTypeOK
  <2>2. CASE Live(w, n) /\ c \in Clients /\ held' = [held EXCEPT ![c][n] = View(w.row[n])]
    <3>1. View(w.row[n]) \in Seen
      BY <1>2, <2>2 DEF Live, View, Row, Seen
    <3> QED
      BY <2>2, <3>1 DEF PlacesInv, NodeTypeOK
  <2> QED
    BY <2>1, <2>2 DEF Answer
<1>4. reply' \in [by : Clients \cup {None}, node : Nodes \cup {None}, expected : Nat,
                  outcome : {"none", "ok", "noop", "stale", "error", "conflict"}]
  BY <1>1, <1>2 DEF Outcomes
<1>5. NodeTypeOK'
  BY <1>1, <1>2, <1>3, <1>4 DEF PlacesInv, NodeTypeOK
<1> QED
  BY <1>1, <1>5 DEF PlacesInv, OneRowPerPath, RowHasFile, Good, One, Full, Live

\* Steps that are no answers.
LEMMA QuietPlaces ==
  ASSUME PlacesInv, Quiet, NEW w \in Worlds, Good(w), row' = w.row, disk' = w.disk,
         trash' \in [Nodes -> Seen \cup {None}], saves' \in 0 .. MaxSaves
  PROVE  PlacesInv'
<1>1. NodeTypeOK'
  BY DEF PlacesInv, NodeTypeOK, Worlds, Quiet, NoReply, Unchecked
<1> QED
  BY <1>1 DEF PlacesInv, OneRowPerPath, RowHasFile, Good, One, Full, Live

\* A world in which nothing has moved is as good.
LEMMA StaysGood ==
  ASSUME NEW w \in Worlds, NEW v \in Worlds, Stays(w, v), Good(w)
  PROVE  Good(v)
BY StaysPlaces DEF Good

\* A refused call leaves it so.
LEMMA RefuseGood ==
  ASSUME PlacesInv, NEW why \in Outcomes
  PROVE  Refuse(World, why) \in Worlds /\ Good(Refuse(World, why))
<1>1. World \in Worlds /\ Good(World)
  BY GoodWorld
<1>2. Refuse(World, why) \in Worlds
  BY <1>1, RefuseLater
<1>3. Stays(World, Refuse(World, why))
  BY DEF Stays, Refuse, After, Live
<1> QED
  BY <1>1, <1>2, <1>3, StaysGood

\* A path that is not taken is free.
LEMMA NotTakenFree ==
  ASSUME NEW n \in Nodes, NEW p \in Place, ~Taken(World, p)
  PROVE  Free(World, n, p)
BY DEF Taken, Free

\* An update leaves the node where it is.
LEMMA UpdatePlaces ==
  ASSUME PlacesInv, NEW c \in Clients \cup {None}, NEW n \in Nodes, NEW e \in Nat,
         NEW content \in Content, Update(c, n, content, e)
  PROVE  PlacesInv'
<1> DEFINE v == Mutate(World, n, content, e)
<1>1. World \in Worlds /\ Live(World, n) /\ Good(World) /\ trash' \in [Nodes -> Seen \cup {None}]
  BY GoodWorld DEF Update, PlacesInv, NodeTypeOK
<1>2. v \in Worlds /\ Stays(World, v)
  BY <1>1, MutateLater, MutateStays
<1>3. Answer(c, n, e, v)
  BY DEF Update
<1> HIDE DEF v
<1> QED
  BY <1>1, <1>2, <1>3, StaysGood, AnswerPlaces

\* An update with a title renames.
LEMMA UpdateTitlePlaces ==
  ASSUME PlacesInv, NEW c \in Clients \cup {None}, NEW n \in Nodes, NEW e \in Nat,
         NEW content \in Content, NEW p \in Place, UpdateTitle(c, n, content, p, e)
  PROVE  PlacesInv'
<1> DEFINE updated == Mutate(World, n, content, e)
           renamed == Rename(updated, n, p)
<1>1. /\ World \in Worlds /\ Live(World, n) /\ Good(World) /\ trash' \in [Nodes -> Seen \cup {None}]
      /\ "title" \in Ops
  BY GoodWorld DEF UpdateTitle, PlacesInv, NodeTypeOK
<1>2. updated \in Worlds /\ Stays(World, updated) /\ Live(updated, n)
  BY <1>1, MutateLater, MutateStays
<1>3. \/ Answer(c, n, e, Refuse(World, "conflict"))
      \/ Answer(c, n, e, updated)
      \/ ~Taken(World, p) /\ Answer(c, n, e, renamed)
      \/ \E v \in Thrown(updated, n, p) : Answer(c, n, e, After(updated.row, v.disk, "error"))
  BY DEF UpdateTitle
<1> HIDE DEF updated
<1>4. Good(updated) /\ One(updated)
  BY <1>1, <1>2, StaysGood DEF Good
<1>5. CASE Answer(c, n, e, Refuse(World, "conflict"))
  BY <1>1, <1>5, RefuseGood, AnswerPlaces DEF Outcomes
<1>6. CASE Answer(c, n, e, updated)
  BY <1>1, <1>2, <1>4, <1>6, AnswerPlaces
<1>7. CASE ~Taken(World, p) /\ Answer(c, n, e, renamed)
  <2>1. renamed \in Worlds
    BY <1>2, RenameLater
  <2>2. Free(updated, n, p)
    BY <1>1, <1>2, <1>7, NotTakenFree, StaysPlaces
  <2>3. One(renamed)
    BY <1>2, <1>4, <2>2, RenamePlaces
  <2> HIDE DEF renamed
  <2>4. Good(renamed)
    BY <1>1, <2>3 DEF Good
  <2> QED
    BY <1>1, <1>7, <2>1, <2>4, AnswerPlaces
<1>8. ASSUME NEW u \in Thrown(updated, n, p), Answer(c, n, e, After(updated.row, u.disk, "error"))
      PROVE  PlacesInv'
  <2> DEFINE d == u.disk
             v == After(updated.row, d, "error")
  <2>1. d \in [Place -> Content \cup {NoFile}]
    BY <1>2, ThrownTyped DEF Worlds
  <2>2. updated.row \in [Nodes -> Row \cup {NoRow}] /\ "error" \in Outcomes
    BY <1>2 DEF Worlds, Outcomes
  <2>3. Answer(c, n, e, v)
    BY <1>8
  <2> HIDE DEF d
  <2>4. v \in Worlds /\ v.row = updated.row
    BY <2>1, <2>2, AfterIsWorld
  <2> HIDE DEF v
  <2>5. Good(v)
    BY <1>1, <1>4, <2>4 DEF Good, One, Live
  <2> QED
    BY <1>1, <2>3, <2>4, <2>5, AnswerPlaces
<1> QED
  BY <1>3, <1>5, <1>6, <1>7, <1>8

\* An update with a directory moves.
LEMMA UpdateDirectoryPlaces ==
  ASSUME PlacesInv, NEW c \in Clients \cup {None}, NEW n \in Nodes, NEW e \in Nat,
         NEW content \in Content, NEW d \in Dirs, UpdateDirectory(c, n, content, d, e)
  PROVE  PlacesInv'
<1> DEFINE p == [row[n].place EXCEPT !.dir = d]
           moved == Moved(World, n, p)
           v == Mutate(moved, n, content, e)
<1>1. /\ World \in Worlds /\ Live(World, n) /\ Good(World) /\ trash' \in [Nodes -> Seen \cup {None}]
      /\ World.row = row /\ World.disk = disk /\ row[n] \in Row
  BY GoodWorld DEF UpdateDirectory, PlacesInv, NodeTypeOK
<1>2. p \in Place /\ p # row[n].place
  BY <1>1 DEF Row, Place, UpdateDirectory
<1>3. \/ Answer(c, n, e, Refuse(World, "conflict"))
      \/ Answer(c, n, e, Refuse(World, "error"))
      \/ ~Taken(World, p) /\ disk[row[n].place] # NoFile /\ Answer(c, n, e, v)
  BY DEF UpdateDirectory
<1> HIDE DEF p
<1>4. CASE Answer(c, n, e, Refuse(World, "conflict"))
  BY <1>1, <1>4, RefuseGood, AnswerPlaces DEF Outcomes
<1>5. CASE Answer(c, n, e, Refuse(World, "error"))
  BY <1>1, <1>5, RefuseGood, AnswerPlaces DEF Outcomes
<1>6. CASE ~Taken(World, p) /\ disk[row[n].place] # NoFile /\ Answer(c, n, e, v)
  <2>1. Free(World, n, p)
    BY <1>2, <1>6, NotTakenFree
  <2>2. /\ moved \in Worlds /\ Live(moved, n)
        /\ One(World) => One(moved)
        /\ One(World) /\ Full(World) => Full(moved)
    BY <1>1, <1>2, <1>6, <2>1, MovedPlaces
  <2> HIDE DEF moved
  <2>3. Good(moved)
    BY <1>1, <2>2 DEF Good
  <2>4. v \in Worlds /\ Stays(moved, v)
    BY <2>2, MutateLater, MutateStays
  <2> HIDE DEF v
  <2> QED
    BY <1>1, <1>6, <2>2, <2>3, <2>4, StaysGood, AnswerPlaces
<1> QED
  BY <1>3, <1>4, <1>5, <1>6

\* A rename that throws, after its undo steps, has no effect.
LEMMA RenameNodeUnwound ==
  ASSUME PlacesInv, NEW n \in Nodes, NEW p \in Place, row[n] # NoRow,
         p = row[n].place \/ ~Taken(World, p), NEW v \in Thrown(World, n, p)
  PROVE  Free(World, n, p) /\ Unwound(World, n, p, v) = disk
<1>1. /\ World \in Worlds /\ Live(World, n) /\ One(World) /\ World.row = row /\ World.disk = disk
  BY GoodWorld DEF Good
<1>2. Free(World, n, p)
  <2>1. CASE p = row[n].place
    BY <1>1, <2>1 DEF One, Free
  <2> QED
    BY <2>1, NotTakenFree
<1>3. p = World.row[n].place \/ World.disk[p] = NoFile
  BY <1>1 DEF Taken
<1> QED
  BY <1>1, <1>2, <1>3, UnwoundRestores

\* A rename checks that its place is free.
LEMMA RenameNodePlaces ==
  ASSUME PlacesInv, NEW c \in Clients \cup {None}, NEW n \in Nodes, NEW e \in Nat,
         NEW p \in Place, RenameNode(c, n, p, e)
  PROVE  PlacesInv'
<1>1. /\ World \in Worlds /\ Live(World, n) /\ Good(World) /\ trash' \in [Nodes -> Seen \cup {None}]
      /\ World.row = row /\ World.disk = disk /\ row[n] # NoRow
  BY GoodWorld DEF RenameNode, PlacesInv, NodeTypeOK
<1>2. ASSUME NEW why \in {"conflict", "stale"}, Answer(c, n, e, Refuse(World, why))
      PROVE  PlacesInv'
  BY <1>1, <1>2, RefuseGood, AnswerPlaces DEF Outcomes
<1>3. CASE p = row[n].place \/ ~Taken(World, p)
  <2>1. ASSUME NEW v \in Thrown(World, n, p),
               Answer(c, n, e, After(row, Unwound(World, n, p, v), "error"))
        PROVE  PlacesInv'
    <3>1. Unwound(World, n, p, v) = disk
      BY <1>1, <1>3, RenameNodeUnwound
    <3>2. After(row, Unwound(World, n, p, v), "error") = Refuse(World, "error")
      BY <1>1, <3>1 DEF Refuse
    <3> QED
      BY <1>1, <2>1, <3>2, RefuseGood, AnswerPlaces DEF Outcomes
  <2>2. CASE Answer(c, n, e, Rename(World, n, p))
    <3> DEFINE w == Rename(World, n, p)
    <3>1. Free(World, n, p)
      <4>1. CASE p = row[n].place
        BY <1>1, <4>1 DEF Good, One, Free
      <4> QED
        BY <1>3, <4>1, NotTakenFree
    <3>2. w \in Worlds
      BY <1>1, RenameLater
    <3>3. (One(World) => One(w)) /\ (One(World) /\ Full(World) => Full(w))
      BY <1>1, <3>1, RenamePlaces
    <3> HIDE DEF w
    <3>4. Good(w)
      BY <1>1, <3>3 DEF Good
    <3> QED
      BY <1>1, <2>2, <3>2, <3>4, AnswerPlaces DEF w
  <2> QED
    BY <1>2, <2>1, <2>2, RenameNodeAnswers
<1> QED
  BY <1>2, <1>3, RenameNodeAnswers

\* A deletion takes the file along.
LEMMA DeleteNodePlaces ==
  ASSUME PlacesInv, NEW c \in Clients \cup {None}, NEW n \in Nodes, NEW e \in Nat, DeleteNode(c, n, e)
  PROVE  PlacesInv'
<1> DEFINE rows == [row EXCEPT ![n] = NoRow]
           files == [disk EXCEPT ![row[n].place] = NoFile]
           v == After(rows, files, "ok")
<1>1. /\ World \in Worlds /\ Good(World) /\ World.row = row /\ World.disk = disk
      /\ \A m \in Nodes : Live(World, m) <=> row[m] # NoRow
      /\ row \in [Nodes -> Row \cup {NoRow}] /\ disk \in [Place -> Content \cup {NoFile}]
      /\ trash \in [Nodes -> Seen \cup {None}] /\ row[n] # NoRow
  BY GoodWorld DEF DeleteNode, PlacesInv, NodeTypeOK
<1>2. View(row[n]) \in Seen
  BY <1>1 DEF View, Row, Seen
<1>3. trash' \in [Nodes -> Seen \cup {None}]
  BY <1>1, <1>2 DEF DeleteNode
<1>4. CASE Answer(c, n, e, Refuse(World, "stale"))
  BY <1>3, <1>4, RefuseGood, AnswerPlaces DEF Outcomes
<1>5. CASE Answer(c, n, e, v)
  <2>1. rows \in [Nodes -> Row \cup {NoRow}] /\ files \in [Place -> Content \cup {NoFile}]
    BY <1>1
  <2>2. \A m \in Nodes : rows[m] # NoRow => m # n /\ rows[m] = row[m] /\ row[m].place \in Place
    BY <1>1 DEF Row
  <2>3. \A q \in Place : q # row[n].place => files[q] = disk[q]
    BY <1>1
  <2> HIDE DEF rows, files
  <2>4. v \in Worlds /\ v.row = rows /\ v.disk = files
    BY <2>1, AfterIsWorld DEF Outcomes
  <2> HIDE DEF v
  <2>5. One(v)
    BY <1>1, <2>2, <2>4 DEF Good, One, Live
  <2>6. "title" \notin Ops => Full(v)
    <3> SUFFICES ASSUME "title" \notin Ops, NEW m \in Nodes, Live(v, m)
                 PROVE  v.disk[v.row[m].place] # NoFile
      BY DEF Full
    <3>1. m # n /\ rows[m] = row[m] /\ row[m].place \in Place /\ row[m] # NoRow
      BY <2>2, <2>4 DEF Live
    <3>2. row[m].place # row[n].place
      BY <1>1, <3>1 DEF PlacesInv, OneRowPerPath
    <3>3. disk[row[m].place] # NoFile
      BY <3>1 DEF PlacesInv, RowHasFile
    <3> QED
      BY <2>3, <2>4, <3>1, <3>2, <3>3
  <2> QED
    BY <1>3, <1>5, <2>4, <2>5, <2>6, AnswerPlaces DEF Good
<1> QED
  BY <1>4, <1>5 DEF DeleteNode

\* A deleted node comes back where no row is, with its file.
LEMMA UndoDeletePlaces ==
  ASSUME PlacesInv, NEW n \in Nodes, UndoDelete(n)
  PROVE  PlacesInv'
<1>1. /\ row \in [Nodes -> Row \cup {NoRow}] /\ disk \in [Place -> Content \cup {NoFile}]
      /\ trash \in [Nodes -> Seen \cup {None}] /\ trash[n] # None /\ Quiet
      /\ saves' \in 0 .. MaxSaves /\ World \in Worlds /\ Good(World)
      /\ World.row = row /\ World.disk = disk
  BY GoodWorld DEF UndoDelete, PlacesInv, NodeTypeOK
<1>2. trash' \in [Nodes -> Seen \cup {None}]
  BY <1>1 DEF UndoDelete
<1>3. CASE ~Restored(n)
  <2>1. row' = World.row /\ disk' = World.disk
    BY <1>1, <1>3 DEF UndoDelete
  <2> QED
    BY <1>1, <1>2, <2>1, QuietPlaces
<1>4. CASE Restored(n)
  <2> DEFINE q == trash[n].place
             new == [version |-> 1, place |-> q, content |-> trash[n].content, hash |-> trash[n].content]
             rows == [row EXCEPT ![n] = new]
             files == [disk EXCEPT ![q] = trash[n].content]
             v == After(rows, files, "ok")
  <2>1. trash[n] \in Seen /\ q \in Place /\ trash[n].content \in Content /\ trash[n].content # NoFile
    BY <1>1, NodeToolsConstants DEF Seen
  <2>2. new \in Row /\ new.place = q
    BY <2>1 DEF Row
  <2>3. row' = rows /\ disk' = files
    BY <1>4 DEF UndoDelete
  <2> HIDE DEF q, new
  <2>4. rows \in [Nodes -> Row \cup {NoRow}] /\ files \in [Place -> Content \cup {NoFile}]
    BY <1>1, <2>1, <2>2
  <2>5. rows[n] = new /\ \A m \in Nodes \ {n} : rows[m] = row[m]
    BY <1>1
  <2>6. /\ files[q] # NoFile /\ \A p \in Place \ {q} : files[p] = disk[p]
    BY <1>1, <2>1
  <2>7. \A m \in Nodes \ {n} : row[m] # NoRow => row[m].place # q /\ row[m].place \in Place
    BY <1>1, <1>4 DEF Restored, q, Row
  <2> HIDE DEF rows, files
  <2>8. v \in Worlds /\ v.row = rows /\ v.disk = files
    BY <2>4, AfterIsWorld DEF Outcomes
  <2> HIDE DEF v
  <2>9. One(v)
    BY <1>1, <2>2, <2>5, <2>7, <2>8 DEF PlacesInv, OneRowPerPath, One, Live
  <2>10. "title" \notin Ops => Full(v)
    <3> SUFFICES ASSUME "title" \notin Ops, NEW m \in Nodes, Live(v, m)
                 PROVE  v.disk[v.row[m].place] # NoFile
      BY DEF Full
    <3>1. CASE m = n
      BY <2>2, <2>5, <2>6, <2>8, <3>1
    <3>2. CASE m # n
      <4>1. row[m] # NoRow /\ rows[m] = row[m]
        BY <2>5, <2>8, <3>2 DEF Live
      <4>2. disk[row[m].place] # NoFile
        BY <4>1 DEF PlacesInv, RowHasFile
      <4> QED
        BY <2>6, <2>7, <2>8, <3>2, <4>1, <4>2
    <3> QED
      BY <3>1, <3>2
  <2> QED
    BY <1>1, <1>2, <2>3, <2>8, <2>9, <2>10, QuietPlaces DEF Good
<1> QED
  BY <1>3, <1>4

\* Whoever takes up a file writes the row of that file.
LEMMA TakenUpPlaces ==
  ASSUME PlacesInv, NEW n \in Nodes, Watch(n) \/ StartIndex(n)
  PROVE  PlacesInv'
<1>1. PICK r : row' = [row EXCEPT ![n] = r] /\ (r = Absorbed(n) \/ r = Reindexed(n))
  BY DEF Watch, StartIndex
<1>2. /\ row \in [Nodes -> Row \cup {NoRow}] /\ disk \in [Place -> Content \cup {NoFile}]
      /\ trash' \in [Nodes -> Seen \cup {None}] /\ saves' \in 0 .. MaxSaves /\ Quiet /\ disk' = disk
      /\ row[n] # NoRow /\ disk[row[n].place] # NoFile
      /\ World \in Worlds /\ Good(World) /\ World.row = row /\ World.disk = disk
  BY GoodWorld DEF Watch, StartIndex, Fresh, PlacesInv, NodeTypeOK
<1>3. row[n] \in Row /\ disk[row[n].place] \in Content
  BY <1>2 DEF Row
<1>4. r \in Row /\ r.place = row[n].place
  BY <1>1, <1>3 DEF Absorbed, Reindexed, Row
<1> DEFINE v == After(row', disk, "ok")
<1>5. row' \in [Nodes -> Row \cup {NoRow}]
  BY <1>1, <1>2, <1>4
<1>6. v \in Worlds /\ v.row = row' /\ v.disk = disk
  BY <1>2, <1>5, AfterIsWorld DEF Outcomes
<1>7. \A m \in Nodes : row'[m] # NoRow => row[m] # NoRow /\ row'[m].place = row[m].place
  BY <1>1, <1>2, <1>4
<1> HIDE DEF v
<1>8. Stays(World, v)
  BY <1>2, <1>6, <1>7 DEF Stays, Live
<1>9. Good(v)
  BY <1>2, <1>6, <1>8, StaysGood
<1> QED
  BY <1>2, <1>6, <1>9, QuietPlaces

\* Reading moves nothing.
LEMMA ReadPlaces ==
  ASSUME PlacesInv, NEW c \in Clients, NEW n \in Nodes, Read(c, n)
  PROVE  PlacesInv'
<1>1. row[n] \in Row
  BY DEF Read, PlacesInv, NodeTypeOK
<1>2. View(row[n]) \in Seen
  BY <1>1 DEF View, Row, Seen
<1>3. held' \in [Clients -> [Nodes -> Seen \cup {None}]]
  BY <1>2 DEF Read, PlacesInv, NodeTypeOK
<1> QED
  BY <1>3 DEF Read, PlacesInv, NodeTypeOK, OneRowPerPath, RowHasFile, NoReply, Unchecked

\* A save replaces a file that is there.
LEMMA SavePlaces ==
  ASSUME PlacesInv, NEW p \in Place, NEW c \in Inputs, Save(p, c)
  PROVE  PlacesInv'
<1>1. c \in Content /\ c # NoFile /\ MaxSaves \in Nat
  BY NodeToolsConstants
<1>2. disk' = [disk EXCEPT ![p] = c] /\ row' = row /\ trash' = trash /\ Quiet /\ saves' = saves + 1 /\ saves < MaxSaves
  BY DEF Save
<1>3. disk \in [Place -> Content \cup {NoFile}] /\ saves \in 0 .. MaxSaves
  BY DEF PlacesInv, NodeTypeOK
<1>4. disk' \in [Place -> Content \cup {NoFile}] /\ saves' \in 0 .. MaxSaves
  BY <1>1, <1>2, <1>3
<1>5. NodeTypeOK'
  BY <1>2, <1>4 DEF PlacesInv, NodeTypeOK, Quiet, NoReply, Unchecked
<1>6. \A n \in Nodes : row[n] # NoRow => row[n].place \in Place
  BY DEF PlacesInv, NodeTypeOK, Row
<1>7. RowHasFile => RowHasFile'
  BY <1>1, <1>2, <1>3, <1>6 DEF RowHasFile
<1> QED
  BY <1>2, <1>5, <1>7 DEF PlacesInv, OneRowPerPath

\* In the vault of the start every row has a place of its own.
LEMMA InitPlaces == Init => PlacesInv
<1> SUFFICES ASSUME Init PROVE PlacesInv
  OBVIOUS
<1>1. /\ row \in [Nodes -> Row \cup {NoRow}] /\ held \in [Clients -> [Nodes -> Seen \cup {None}]]
      /\ trash \in [Nodes -> Seen \cup {None}] /\ saves \in 0 .. MaxSaves
  BY NodeToolsConstants DEF Init
<1> DEFINE r0(p) == CHOOSE r \in {Start[n] : n \in Nodes} : r # NoRow /\ r.place = p
           has(p) == \E n \in Nodes : Start[n] # NoRow /\ Start[n].place = p
<1>2. ASSUME NEW p \in Place, has(p) PROVE r0(p).content \in Content
  <2>1. r0(p) \in {Start[n] : n \in Nodes} /\ r0(p) # NoRow
    BY <1>2
  <2> HIDE DEF r0
  <2>2. r0(p) \in Row
    BY <2>1, NodeToolsConstants
  <2> QED
    BY <2>2 DEF Row
<1>3. disk = [p \in Place |-> IF has(p) THEN r0(p).content ELSE NoFile]
  BY DEF Init
<1> HIDE DEF r0
<1>4. disk \in [Place -> Content \cup {NoFile}]
  BY <1>2, <1>3
<1>5. reply = NoReply /\ row = Start
  BY DEF Init
<1>6. NodeTypeOK
  BY <1>1, <1>4, <1>5 DEF NodeTypeOK, NoReply, Unchecked
<1>7. OneRowPerPath
  BY <1>5, NodeToolsConstants DEF OneRowPerPath
<1>8. RowHasFile
  <2> SUFFICES ASSUME NEW n \in Nodes, row[n] # NoRow PROVE disk[row[n].place] # NoFile
    BY DEF RowHasFile
  <2>1. row[n].place \in Place /\ has(row[n].place)
    BY <1>1, <1>5 DEF Row
  <2>2. r0(row[n].place).content # NoFile
    BY <1>2, <2>1, NodeToolsConstants
  <2> QED
    BY <1>3, <2>1, <2>2
<1> QED
  BY <1>6, <1>7, <1>8 DEF PlacesInv

\* What a call is, and what it sends.
LEMMA CallCases ==
  ASSUME Typed, NEW c \in Clients \cup {None}, NEW n \in Nodes, Call(c, n)
  PROVE  \E e \in Expected(c, n) : e \in Nat /\
           \/ \E content \in Inputs : content \in Content /\
                \/ Update(c, n, content, e)
                \/ \E p \in Place : UpdateTitle(c, n, content, p, e)
                \/ \E d \in Dirs : UpdateDirectory(c, n, content, d, e)
           \/ \E p \in Place : RenameNode(c, n, p, e)
           \/ DeleteNode(c, n, e)
BY ExpectedTyped, NodeToolsConstants DEF Call

\* No call puts two rows in one place.
LEMMA CallPlaces ==
  ASSUME PlacesInv, NEW c \in Clients \cup {None}, NEW n \in Nodes, Call(c, n)
  PROVE  PlacesInv'
<1>1. Typed
  BY GoodWorld
<1>2. PICK e \in Nat :
        \/ \E content \in Content :
             \/ Update(c, n, content, e)
             \/ \E p \in Place : UpdateTitle(c, n, content, p, e)
             \/ \E d \in Dirs : UpdateDirectory(c, n, content, d, e)
        \/ \E p \in Place : RenameNode(c, n, p, e)
        \/ DeleteNode(c, n, e)
  BY <1>1, CallCases
<1> QED
  BY <1>2, UpdatePlaces, UpdateTitlePlaces, UpdateDirectoryPlaces, RenameNodePlaces, DeleteNodePlaces

\* The invariant of the places, from the start on.
LEMMA PlacesInductive == Spec => []PlacesInv
<1>1. PlacesInv /\ [Next]_vars => PlacesInv'
  <2> SUFFICES ASSUME PlacesInv, [Next]_vars PROVE PlacesInv'
    OBVIOUS
  <2>1. CASE UNCHANGED vars
    BY <2>1 DEF vars, PlacesInv, NodeTypeOK, OneRowPerPath, RowHasFile
  <2> QED
    BY <2>1, ReadPlaces, CallPlaces, UndoDeletePlaces, TakenUpPlaces, SavePlaces DEF Next
<1> QED
  BY <1>1, InitPlaces, PTL DEF Spec

\* The tools' variables keep their types, whatever operations are in use.
THEOREM NodesTyped == Spec => []NodeTypeOK
<1>1. PlacesInv => NodeTypeOK
  BY DEF PlacesInv
<1> QED
  BY <1>1, PlacesInductive, PTL

\* No two nodes claim one path, in every vault and whatever is renamed, moved, deleted,
\* restored and saved: the tools look at rows and files before they take a path.
THEOREM PathsAreUnique == Spec => []OneRowPerPath
<1>1. PlacesInv => OneRowPerPath
  BY DEF PlacesInv
<1> QED
  BY <1>1, PlacesInductive, PTL

\* Every row keeps its file, as long as update-node renames nothing: its rename is the
\* one that does not put the files back when a referring node cannot be written.
THEOREM RowsHaveFiles ==
  ASSUME "title" \notin Ops
  PROVE  Spec => []RowHasFile
<1>1. PlacesInv => RowHasFile
  BY DEF PlacesInv
<1> QED
  BY <1>1, PlacesInductive, PTL

-----------------------------------------------------------------------------
(* What a single call may do. *)

\* The three tools that only their own checks and transactions protect: neither the
\* rename nor the move of update-node, which break what follows.
Checked == Ops \cap {"title", "move"} = {}

\* What the answer to such a call is, and what is true of it when it is not a refusal.
LEMMA CheckedCall ==
  ASSUME Checked, PlacesInv, NEW c, NEW n \in Nodes, Call(c, n)
  PROVE  \E e \in Expected(c, n) :
           /\ reply'.by = c /\ reply'.node = n /\ reply'.expected = e
           /\ \/ UNCHANGED <<row, disk>>
              \/ reply'.outcome = "ok" /\ ~Stale(World, n, e)
<1>1. PICK e \in Expected(c, n) :
        \/ \E content : Update(c, n, content, e)
        \/ \E p \in Place : RenameNode(c, n, p, e)
        \/ DeleteNode(c, n, e)
  BY DEF Call, Checked, UpdateTitle, UpdateDirectory
<1>2. ASSUME NEW w, Answer(c, n, e, w),
             \/ \E why : w = Refuse(World, why)
             \/ w.out = "ok" /\ ~Stale(World, n, e)
      PROVE  /\ reply'.by = c /\ reply'.node = n /\ reply'.expected = e
             /\ UNCHANGED <<row, disk>> \/ (reply'.outcome = "ok" /\ ~Stale(World, n, e))
  <2>1. /\ reply'.by = c /\ reply'.node = n /\ reply'.expected = e /\ reply'.outcome = w.out
        /\ row' = w.row /\ disk' = w.disk
    BY <1>2 DEF Answer
  <2>2. \A why : Refuse(World, why).row = row /\ Refuse(World, why).disk = disk
    BY DEF Refuse, World, After
  <2> QED
    BY <1>2, <2>1, <2>2
<1>3. CASE \E content : Update(c, n, content, e)
  <2>1. PICK content : Answer(c, n, e, Mutate(World, n, content, e))
    BY <1>3 DEF Update
  <2>2. \/ \E why : Mutate(World, n, content, e) = Refuse(World, why)
        \/ Mutate(World, n, content, e).out = "ok" /\ ~Stale(World, n, e)
    BY DEF Mutate, Written, After
  <2> QED
    BY <1>2, <2>1, <2>2
<1>4. CASE \E p \in Place : RenameNode(c, n, p, e)
  <2>1. PICK p \in Place : RenameNode(c, n, p, e)
    BY <1>4
  <2>2. Rename(World, n, p).out = "ok"
    BY DEF Rename, Rewritten, After
  <2>3. ASSUME NEW v \in Thrown(World, n, p), p = row[n].place \/ ~Taken(World, p)
        PROVE  After(row, Unwound(World, n, p, v), "error") = Refuse(World, "error")
    <3>1. row[n] # NoRow
      BY <2>1 DEF RenameNode
    <3>2. Unwound(World, n, p, v) = disk
      BY <2>3, <3>1, RenameNodeUnwound
    <3> QED
      BY <3>2 DEF Refuse, World, After
  <2> QED
    BY <1>2, <2>1, <2>2, <2>3, RenameNodeAnswers
<1>5. CASE DeleteNode(c, n, e)
  <2> DEFINE v == After([row EXCEPT ![n] = NoRow], [disk EXCEPT ![row[n].place] = NoFile], "ok")
  <2>1. v.out = "ok"
    BY DEF After
  <2> HIDE DEF v
  <2>2. \/ Answer(c, n, e, Refuse(World, "stale"))
        \/ ~Stale(World, n, e) /\ Answer(c, n, e, v)
    BY <1>5 DEF DeleteNode, v
  <2> QED
    BY <1>2, <2>1, <2>2
<1> QED
  BY <1>1, <1>3, <1>4, <1>5

\* Whatever is no call answers nobody.
LEMMA OthersAnswerNobody ==
  ASSUME [Next]_vars
  PROVE  \/ \E c \in Clients \cup {None}, n \in Nodes : Call(c, n)
         \/ reply' = NoReply
         \/ UNCHANGED vars
BY DEF Next, Read, UndoDelete, Watch, StartIndex, Save, Quiet

\* A call that reports a failure has changed nothing: the undo steps of a rename that
\* throws put back every file that it has moved or written by then.
THEOREM RefusalsChangeNothing ==
  ASSUME Checked
  PROVE  Spec => RefusedChangesNothing
<1>1. ASSUME PlacesInv, [Next]_vars
      PROVE  [reply'.outcome \in {"stale", "error", "conflict"} => UNCHANGED <<row, disk>>]_vars
  <2>1. CASE reply' = NoReply
    BY <2>1 DEF NoReply
  <2>2. CASE \E c \in Clients \cup {None}, n \in Nodes : Call(c, n)
    BY <1>1, <2>2, CheckedCall
  <2> QED
    BY <1>1, <2>1, <2>2, OthersAnswerNobody
<1> QED
  BY <1>1, PlacesInductive, PTL DEF Spec, RefusedChangesNothing

\* A call whose version is stale has changed nothing, also when it is told of success.
THEOREM StaleCallsChangeNothing ==
  ASSUME Checked
  PROVE  Spec => StaleChangesNothing
<1> DEFINE A == \A n \in Nodes :
                  /\ reply'.node = n /\ row[n] # NoRow /\ reply'.expected \notin {Unchecked, row[n].version}
                  => UNCHANGED <<row, disk>>
<1>1. ASSUME PlacesInv, [Next]_vars PROVE [A]_vars
  <2>1. CASE reply' = NoReply
    BY <2>1 DEF NoReply
  <2>2. CASE \E c \in Clients \cup {None}, n \in Nodes : Call(c, n)
    <3>1. PICK c \in Clients \cup {None}, n \in Nodes : Call(c, n)
      BY <2>2
    <3>2. World.row = row
      BY DEF World, After
    <3>3. \A e : Stale(World, n, e) <=> e \notin {Unchecked, row[n].version}
      BY <3>2 DEF Stale
    <3> QED
      BY <1>1, <3>1, <3>3, CheckedCall
  <2> QED
    BY <1>1, <2>1, <2>2, OthersAnswerNobody
<1> QED
  BY <1>1, PlacesInductive, PTL DEF Spec, StaleChangesNothing

\* A call that names a version replaces the state its caller has seen and no other:
\* no update is lost, whoever writes in between, users and the watcher included.
THEOREM NoLostUpdate ==
  ASSUME Raising, Checked
  PROVE  Spec => OverwritesOnlyWhatWasRead
<1> DEFINE A == \A c \in Clients, n \in Nodes :
                  reply'.by = c /\ reply'.node = n /\ row'[n] # row[n]
                  => held[c][n] = View(row[n])
<1>1. ASSUME VersionInv, PlacesInv, [Next]_vars PROVE [A]_vars
  <2>1. CASE reply' = NoReply
    BY <2>1, NodeToolsConstants DEF NoReply
  <2>2. CASE \E c \in Clients \cup {None}, n \in Nodes : Call(c, n)
    <3>1. PICK c \in Clients \cup {None}, n \in Nodes : Call(c, n)
      BY <2>2
    <3>2. PICK e \in Expected(c, n) :
            /\ reply'.by = c /\ reply'.node = n
            /\ row' = row \/ ~Stale(World, n, e)
      BY <1>1, <3>1, CheckedCall
    <3>3. ASSUME c \in Clients, row' # row PROVE held[c][n] = View(row[n])
      <4>1. held[c][n] # None /\ e = held[c][n].version
        BY <3>2, <3>3, NodeToolsConstants DEF Expected
      <4>2. row[n] # NoRow
        BY <3>1 DEF Call, Update, UpdateTitle, UpdateDirectory, RenameNode, DeleteNode
      <4>3. World.row = row
        BY DEF World, After
      <4>4. held[c][n].version # Unchecked
        BY <1>1, <3>3, <4>1 DEF VersionInv, Numbered
      <4>5. e = row[n].version
        BY <3>2, <3>3, <4>1, <4>3, <4>4 DEF Stale
      <4>6. row[n].version \in Nat
        BY <1>1, <4>2 DEF VersionInv, Typed, Row
      <4>7. held[c][n].version < row[n].version \/ held[c][n] = View(row[n])
        BY <1>1, <3>3, <4>1, <4>2 DEF VersionInv, Remembered
      <4>8. ~(held[c][n].version < row[n].version)
        BY <4>1, <4>5, <4>6
      <4> QED
        BY <4>7, <4>8
    <3> QED
      BY <3>2, <3>3, NodeToolsConstants
  <2> QED
    BY <1>1, <2>1, <2>2, OthersAnswerNobody
<1> QED
  BY <1>1, VersionInductive, PlacesInductive, PTL DEF Spec, OverwritesOnlyWhatWasRead
=============================================================================
