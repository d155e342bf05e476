---------------------- MODULE EmbeddingIndexer_proofs ----------------------
(***************************************************************************)
(* What holds of the rows of the search index whatever is queued, retried, *)
(* answered late or lost.                                                  *)
(***************************************************************************)
EXTENDS EmbeddingIndexer, SequenceFacts

\* The tables are functions on the groups, the nodes a function on the ids.
IndexType ==
  /\ meta = [g \in Groups |-> meta[g]] /\ vecs = [g \in Groups |-> vecs[g]]
  /\ text = [n \in Nodes |-> text[n]]

RowsInv == IndexType /\ NoGhosts /\ RowsHaveVectors

\* Dropping rows leaves fewer rows, and vectors for those that are left.
LEMMA DropRowsKeeps ==
  ASSUME RowsInv, NEW gs, DropRows(gs)
  PROVE  /\ meta' = [g \in Groups |-> meta'[g]] /\ vecs' = [g \in Groups |-> vecs'[g]]
         /\ \A g \in Groups : meta'[g] = meta[g] \/ meta'[g] = None
         /\ RowsHaveVectors'
  BY DEF RowsInv, IndexType, RowsHaveVectors, DropRows

\* Fewer rows, of no fewer nodes: still no rows of a node that is not there.
LEMMA FewerRows ==
  ASSUME NoGhosts,
         \A g \in Groups : meta'[g] = meta[g] \/ meta'[g] = None,
         \A n \in Nodes : Live(n) => Live(n)'
  PROVE  NoGhosts'
  BY DEF NoGhosts, GroupsOf

\* A step that changes no row and kills no node preserves the invariant.
LEMMA RowsUnchanged ==
  ASSUME RowsInv, UNCHANGED index, text' = [n \in Nodes |-> text'[n]],
         \A n \in Nodes : Live(n) => Live(n)'
  PROVE  RowsInv'
<1>1. meta' = meta /\ vecs' = vecs
  BY DEF index
<1>2. NoGhosts'
  BY <1>1, FewerRows DEF RowsInv
<1> QED
  BY <1>1, <1>2 DEF RowsInv, IndexType, RowsHaveVectors

\* The case of most steps: neither nodes nor rows change.
LEMMA NodesAndRowsUnchanged ==
  ASSUME RowsInv, UNCHANGED <<text, index>>
  PROVE  RowsInv'
<1>1. text' = text /\ UNCHANGED index
  OBVIOUS
<1>2. /\ text' = [n \in Nodes |-> text'[n]]
      /\ \A n \in Nodes : Live(n) => Live(n)'
  BY <1>1 DEF RowsInv, IndexType, Live
<1> QED
  BY <1>1, <1>2, RowsUnchanged

\* A start removes rows only.
LEMMA StartKeeps ==
  ASSUME RowsInv, NEW clear \in BOOLEAN, Start(clear)
  PROVE  RowsInv'
<1> DEFINE pruned == UNION {Pruned(n, text[n]) : n \in {m \in Nodes : Live(m)}}
<1>1. text' = text
  BY DEF Start
<1>2. \A n \in Nodes : Live(n) => Live(n)'
  BY <1>1 DEF Live
<1>3. CASE clear
  <2>1. meta' = [g \in Groups |-> None] /\ vecs' = [g \in Groups |-> {}]
    BY <1>3 DEF Start
  <2> QED
    BY <1>1, <2>1 DEF RowsInv, IndexType, NoGhosts, RowsHaveVectors, GroupsOf
<1>4. CASE ~clear
  <2>1. DropRows(pruned)
    BY <1>4 DEF Start
  <2> HIDE DEF pruned
  <2> QED
    BY <1>1, <1>2, <2>1, DropRowsKeeps, FewerRows DEF RowsInv, IndexType
<1> QED
  BY <1>3, <1>4

\* So does the watcher at a new text.
LEMMA WatchKeeps ==
  ASSUME RowsInv, NEW n \in Nodes, NEW t \in Texts, NEW w \in Watchers, Watch(n, t, w)
  PROVE  RowsInv'
<1>1. text' = [text EXCEPT ![n] = t] /\ DropRows(Pruned(n, t))
  BY DEF Watch
<1>2. /\ text' = [m \in Nodes |-> text'[m]]
      /\ \A m \in Nodes : Live(m) => Live(m)'
  BY <1>1 DEF RowsInv, IndexType, Live
<1> QED
  BY <1>1, <1>2, DropRowsKeeps, FewerRows DEF RowsInv, IndexType

\* A deletion removes all rows of its node.
LEMMA DeleteKeeps ==
  ASSUME RowsInv, NEW n \in Nodes, Delete(n)
  PROVE  RowsInv'
<1> DEFINE rows == [g \in Groups |-> IF g[1] = n THEN None ELSE meta[g]]
<1>1. /\ text' = [text EXCEPT ![n] = "deleted"] /\ meta' = rows
      /\ vecs' = [g \in Groups |-> IF g[1] = n THEN vecs[g] \ {rows[g]} ELSE vecs[g]]
  BY DEF Delete
<1>2. IndexType'
  BY <1>1 DEF RowsInv, IndexType
<1>3. NoGhosts'
  <2> SUFFICES ASSUME NEW m \in Nodes, ~Live(m)', NEW g \in Groups, g[1] = m
               PROVE  meta'[g] = None
    BY DEF NoGhosts, GroupsOf
  <2>1. m # n => ~Live(m)
    BY <1>1 DEF RowsInv, IndexType, Live
  <2>2. m # n => meta[g] = None
    BY <2>1 DEF RowsInv, NoGhosts, GroupsOf
  <2> QED
    BY <1>1, <2>2
<1>4. RowsHaveVectors'
  BY <1>1 DEF RowsInv, RowsHaveVectors
<1> QED
  BY <1>2, <1>3, <1>4 DEF RowsInv

\* The foreign key lets a result in for a node that is there, and no other.
LEMMA AnswerKeeps ==
  ASSUME RowsInv, NEW w \in Callers, Answer(w)
  PROVE  RowsInv'
<1> DEFINE g == job[w].item.group
<1>1. CASE ~Referenced(g[1])
  <2>1. UNCHANGED <<text, index>>
    BY <1>1 DEF Answer
  <2> QED
    BY <2>1, NodesAndRowsUnchanged
<1>2. CASE Referenced(g[1])
  <2>1. /\ text' = text /\ meta' = [meta EXCEPT ![g] = job[w].text]
        /\ vecs' = [vecs EXCEPT ![g] = (@ \ {meta[g]}) \cup {job[w].text}]
    BY <1>2 DEF Answer
  <2>2. Live(g[1])
    BY <1>2 DEF Referenced
  <2> HIDE DEF g
  <2>3. IndexType'
    BY <2>1 DEF RowsInv, IndexType
  <2>4. NoGhosts'
    <3> SUFFICES ASSUME NEW m \in Nodes, ~Live(m)', NEW h \in Groups, h[1] = m
                 PROVE  meta'[h] = None
      BY DEF NoGhosts, GroupsOf
    <3>1. ~Live(m) /\ h # g
      BY <2>1, <2>2 DEF Live
    <3>2. meta[h] = None
      BY <3>1 DEF RowsInv, NoGhosts, GroupsOf
    <3> QED
      BY <2>1, <3>1, <3>2 DEF RowsInv, IndexType
  <2>5. RowsHaveVectors'
    BY <2>1 DEF RowsInv, IndexType, RowsHaveVectors
  <2> QED
    BY <2>3, <2>4, <2>5 DEF RowsInv
<1> QED
  BY <1>1, <1>2

\* Tools and restarts give a node another text.
LEMMA NewTextKeeps ==
  ASSUME RowsInv, NEW n \in Nodes, NEW t \in Texts, Tool(n, t) \/ Restart(n, t)
  PROVE  RowsInv'
<1>1. UNCHANGED index /\ (text' = text \/ text' = [text EXCEPT ![n] = t])
  BY DEF Tool, Restart
<1>2. /\ text' = [m \in Nodes |-> text'[m]]
      /\ \A m \in Nodes : Live(m) => Live(m)'
  BY <1>1 DEF RowsInv, IndexType, Live
<1> QED
  BY <1>1, <1>2, RowsUnchanged

\* No step makes a row of a node that is gone, or one without its vectors.
LEMMA NextKeepsRows == RowsInv /\ [Next]_vars => RowsInv'
<1> SUFFICES ASSUME RowsInv, [Next]_vars
             PROVE  RowsInv'
  OBVIOUS
<1>1. CASE \E clear \in BOOLEAN : Start(clear)
  BY <1>1, StartKeeps
<1>2. CASE LoopNext \/ ChildReady \/ ChildExits \/ ForkFails \/ IdleKill
  BY <1>2, NodesAndRowsUnchanged DEF LoopNext, ChildReady, ChildExits, ForkFails, IdleKill
<1>3. CASE \E n \in Nodes : Delete(n)
  BY <1>3, DeleteKeeps
<1>4. CASE \E n \in Nodes, t \in Texts : Tool(n, t) \/ Restart(n, t)
  BY <1>4, NewTextKeeps
<1>5. CASE \E n \in Nodes, t \in Texts, w \in Watchers : Watch(n, t, w)
  BY <1>5, WatchKeeps
<1>6. CASE \E w \in Callers : Answer(w)
  BY <1>6, AnswerKeeps
<1>7. CASE \E w \in Callers : Extracted(w) \/ ExtractFails(w) \/ AnswerError(w) \/ Failed(w)
  BY <1>7, NodesAndRowsUnchanged DEF Extracted, ExtractFails, AnswerError, Failed
<1>8. CASE UNCHANGED vars
  BY <1>8, NodesAndRowsUnchanged DEF vars, index
<1> QED
  BY <1>1, <1>2, <1>3, <1>4, <1>5, <1>6, <1>7, <1>8 DEF Next

\* The rows invariant holds in every reachable state.
THEOREM RowsInvInductive == Spec => []RowsInv
<1>1. Init => RowsInv
  BY DEF Init, RowsInv, IndexType, NoGhosts, RowsHaveVectors, GroupsOf
<1> QED
  BY <1>1, NextKeepsRows, PTL DEF Spec

\* Whatever overlaps, fails and comes late, the index holds no row of a node that
\* is not there: the foreign key of embedding_meta stops writeGroup.
THEOREM GhostsKeptOut == Spec => []NoGhosts
<1>1. RowsInv => NoGhosts
  BY DEF RowsInv
<1> QED
  BY <1>1, RowsInvInductive, PTL

\* Every row has the vectors it stands for, which the hash check of processOne
\* relies on.
THEOREM RowsStandForVectors == Spec => []RowsHaveVectors
<1>1. RowsInv => RowsHaveVectors
  BY DEF RowsInv
<1> QED
  BY <1>1, RowsInvInductive, PTL

-----------------------------------------------------------------------------
(* The queue.  An item is of a node that is or was there. *)

Known(tx)   == {n \in Nodes : tx[n] # "unborn"}
ItemsOf(K)  == {it \in Item : it.group[1] \in K}
Keys(q)     == {q[i].group : i \in DOMAIN q}
Wants(n, t) == {<<n, Own>>} \cup {<<n, f>> : f \in Embeds[t]}

\* A longer list of nodes has the items of a shorter one.
LEMMA MoreItems ==
  ASSUME NEW K, NEW L, K \subseteq L, NEW q \in Seq(ItemsOf(K))
  PROVE  q \in Seq(ItemsOf(L))
<1>1. ItemsOf(K) \subseteq ItemsOf(L)
  BY DEF ItemsOf
<1>2. Len(q) \in Nat /\ q \in [1 .. Len(q) -> ItemsOf(K)]
  BY LenProperties
<1>3. q \in [1 .. Len(q) -> ItemsOf(L)]
  BY <1>1, <1>2
<1> QED
  BY <1>2, <1>3, SeqDef

\* Push adds one group to a queue and loses none.
LEMMA PushAdds ==
  ASSUME NEW K \in SUBSET Nodes, NEW q \in Seq(ItemsOf(K)), NEW g \in Groups, g[1] \in K
  PROVE  Push(q, g) \in Seq(ItemsOf(K)) /\ Keys(q) \cup {g} \subseteq Keys(Push(q, g))
<1> DEFINE it == [group |-> g, retries |-> 0]
<1>1. CASE Queued(q, g)
  BY <1>1 DEF Push, Queued, Keys
<1>2. CASE ~Queued(q, g)
  <2>1. it \in ItemsOf(K)
    BY DEF ItemsOf, Item, Attempts
  <2>2. Push(q, g) = Append(q, it)
    BY <1>2 DEF Push
  <2>3. it.group = g
    OBVIOUS
  <2> HIDE DEF it
  <2>4. /\ Append(q, it) \in Seq(ItemsOf(K)) /\ Len(Append(q, it)) = Len(q) + 1
        /\ \A i \in 1 .. Len(q) : Append(q, it)[i] = q[i]
        /\ Append(q, it)[Len(q) + 1] = it
    BY <2>1, AppendProperties
  <2>5. DOMAIN q = 1 .. Len(q) /\ Len(q) \in Nat /\ DOMAIN Append(q, it) = 1 .. Len(q) + 1
    BY <2>4, LenProperties
  <2>6. \A i \in DOMAIN q : i \in DOMAIN Append(q, it) /\ Append(q, it)[i] = q[i]
    BY <2>4, <2>5
  <2>7. Len(q) + 1 \in DOMAIN Append(q, it)
    BY <2>5
  <2> QED
    BY <2>2, <2>3, <2>4, <2>6, <2>7 DEF Keys
<1> QED
  BY <1>1, <1>2

\* The function that the fold of Push chooses.
PushFold(q, s) ==
  CHOOSE it : it = [t \in SUBSET DOMAIN s |->
    IF t = {} THEN q ELSE Push(it[t \ {Max(t)}], s[Max(t)])]

\* A fold of Push adds all its groups and loses none.
LEMMA PushAll ==
  ASSUME NEW K \in SUBSET Nodes, NEW q \in Seq(ItemsOf(K)), NEW n \in Nat,
         NEW G \in SUBSET Groups, \A x \in G : x[1] \in K, NEW s \in [1 .. n -> G]
  PROVE  /\ FoldLeft(Push, q, s) \in Seq(ItemsOf(K))
         /\ Keys(q) \cup {s[i] : i \in 1 .. n} \subseteq Keys(FoldLeft(Push, q, s))
<1> DEFINE I == Seq(ItemsOf(K))
           Is(it) == it = [t \in SUBSET DOMAIN s |->
                             IF t = {} THEN q ELSE Push(it[t \ {Max(t)}], s[Max(t)])]
           g    == [x \in I \X G |-> Push(x[1], x[2])]
           has  == [x \in I |-> Keys(x)]
           adds == [x \in G |-> {x}]
           fold == PushFold(q, s)
<1>1. DOMAIN s = 1 .. n
  OBVIOUS
<1>2. \A x \in I, y \in G : Push(x, y) \in I /\ Keys(x) \cup {y} \subseteq Keys(Push(x, y))
  BY PushAdds
<1>3. g \in [I \X G -> I] /\ \A x \in I, y \in G : g[<<x, y>>] = Push(x, y)
  BY <1>2
<1>4. Adding(g, I, G, has, adds)
  <2>1. \A x \in I, y \in G : has[x] \cup adds[y] \subseteq has[g[<<x, y>>]]
    BY <1>2, <1>3
  <2> QED
    BY <2>1 DEF Adding
<1>10. q \in I
  OBVIOUS
<1> HIDE DEF g, I
<1>5. \E it : Is(it)
  <2>1. PICK it \in [SUBSET (1 .. n) -> I] : IsFold(it, g, q, n, s)
    BY <1>3, <1>10, FoldExists
  <2>2. ASSUME NEW t \in SUBSET (1 .. n)
        PROVE  it[t] = IF t = {} THEN q ELSE Push(it[t \ {Max(t)}], s[Max(t)])
    <3>1. CASE t # {}
      <4>1. Max(t) \in t
        BY <3>1, MaxIsMember
      <4>2. it[t \ {Max(t)}] \in I /\ s[Max(t)] \in G
        BY <2>1, <4>1
      <4> QED
        BY <1>3, <2>1, <3>1, <4>2 DEF IsFold
    <3> QED
      BY <2>1, <3>1 DEF IsFold
  <2> QED
    BY <1>1, <2>1, <2>2
<1>6. Is(fold)
  BY <1>5 DEF PushFold
<1>7. FoldLeft(Push, q, s) = fold[1 .. n]
  BY <1>1 DEF FoldLeft, MapThenFoldSet, PushFold
<1> HIDE DEF fold
<1>8. IsFoldWithin(fold, g, q, n, s, I)
  <2>1. fold[{}] = q
    BY <1>6
  <2>2. ASSUME NEW t \in SUBSET (1 .. n), t # {}, fold[t \ {Max(t)}] \in I
        PROVE  fold[t] = g[<<fold[t \ {Max(t)}], s[Max(t)]>>]
    <3>1. fold[t] = Push(fold[t \ {Max(t)}], s[Max(t)])
      BY <1>1, <1>6, <2>2
    <3>2. s[Max(t)] \in G
      BY <2>2, MaxIsMember
    <3> QED
      BY <1>3, <2>2, <3>1, <3>2
  <2> QED
    BY <2>1, <2>2 DEF IsFoldWithin
<1> HIDE DEF has, adds
<1>9. /\ fold[1 .. n] \in I
      /\ has[q] \subseteq has[fold[1 .. n]]
      /\ \A i \in 1 .. n : adds[s[i]] \subseteq has[fold[1 .. n]]
  BY <1>3, <1>4, <1>8, <1>10, FoldGathers
<1> QED
  BY <1>7, <1>9 DEF has, adds, I

\* enqueue adds the group of the node and those of the files its text embeds.
LEMMA EnqueuedAdds ==
  ASSUME NEW K \in SUBSET Nodes, NEW q \in Seq(ItemsOf(K)), NEW n \in K, NEW t \in Texts
  PROVE  /\ Enqueued(q, n, t) \in Seq(ItemsOf(K))
         /\ Keys(q) \cup Wants(n, t) \subseteq Keys(Enqueued(q, n, t))
<1> DEFINE G == {<<n, f>> : f \in Embeds[t]}
           f == [x \in Embeds[t] |-> <<n, x>>]
           p == Push(q, <<n, Own>>)
           s == SetToSeq(G)
<1>1. Embeds[t] \subseteq Files /\ IsFiniteSet(Embeds[t])
  BY EmbeddingConstants, FS_Subset
<1>2. f \in Surjection(Embeds[t], G)
  BY DEF Surjection
<1>3. IsFiniteSet(G)
  BY <1>1, <1>2, FS_Surjection
<1>4. G \in SUBSET Groups /\ \A x \in G : x[1] \in K
  BY <1>1 DEF Groups
<1>5. <<n, Own>> \in Groups /\ <<n, Own>>[1] \in K
  BY DEF Groups
<1>6. p \in Seq(ItemsOf(K)) /\ Keys(q) \cup {<<n, Own>>} \subseteq Keys(p)
  BY <1>5, PushAdds
<1> HIDE DEF G, p
<1>7. /\ Cardinality(G) \in Nat /\ s \in [1 .. Cardinality(G) -> G]
      /\ \A x \in G : \E i \in 1 .. Cardinality(G) : s[i] = x
  BY <1>3, ListOfSet
<1> HIDE DEF s
<1>8. /\ FoldLeft(Push, p, s) \in Seq(ItemsOf(K))
      /\ Keys(p) \cup {s[i] : i \in 1 .. Cardinality(G)} \subseteq Keys(FoldLeft(Push, p, s))
  BY <1>4, <1>6, <1>7, PushAll
<1>9. G \subseteq Keys(FoldLeft(Push, p, s))
  BY <1>7, <1>8
<1>10. Enqueued(q, n, t) = FoldLeft(Push, p, s)
  BY DEF Enqueued, G, p, s
<1> QED
  BY <1>6, <1>8, <1>9, <1>10 DEF Wants, G

\* The queue of the startup, and the function that its fold chooses.
StartQueue(tx, s) == FoldLeft(LAMBDA q, n : Enqueued(q, n, tx[n]), <<>>, s)

StartFold(tx, s) ==
  CHOOSE it : it = [t \in SUBSET DOMAIN s |->
    IF t = {} THEN <<>> ELSE Enqueued(it[t \ {Max(t)}], s[Max(t)], tx[s[Max(t)]])]

\* The startup queues every node it lists, with what its text embeds.
LEMMA StartQueues ==
  ASSUME NEW L \in SUBSET Nodes, NEW tx, \A m \in L : tx[m] \in Texts,
         NEW n \in Nat, NEW s \in [1 .. n -> L]
  PROVE  /\ StartQueue(tx, s) \in Seq(ItemsOf(L))
         /\ \A i \in 1 .. n : Wants(s[i], tx[s[i]]) \subseteq Keys(StartQueue(tx, s))
<1> DEFINE I == Seq(ItemsOf(L))
           Is(it) == it = [t \in SUBSET DOMAIN s |->
                             IF t = {} THEN <<>>
                             ELSE Enqueued(it[t \ {Max(t)}], s[Max(t)], tx[s[Max(t)]])]
           g    == [x \in I \X L |-> Enqueued(x[1], x[2], tx[x[2]])]
           has  == [x \in I |-> Keys(x)]
           adds == [x \in L |-> Wants(x, tx[x])]
           fold == StartFold(tx, s)
<1>1. DOMAIN s = 1 .. n
  OBVIOUS
<1>2. \A x \in I, y \in L : /\ Enqueued(x, y, tx[y]) \in I
                            /\ Keys(x) \cup Wants(y, tx[y]) \subseteq Keys(Enqueued(x, y, tx[y]))
  BY EnqueuedAdds
<1>3. g \in [I \X L -> I] /\ \A x \in I, y \in L : g[<<x, y>>] = Enqueued(x, y, tx[y])
  BY <1>2
<1>4. Adding(g, I, L, has, adds)
  <2>1. \A x \in I, y \in L : has[x] \cup adds[y] \subseteq has[g[<<x, y>>]]
    BY <1>2, <1>3
  <2> QED
    BY <2>1 DEF Adding
<1>10. <<>> \in I
  OBVIOUS
<1> HIDE DEF g, I
<1>5. \E it : Is(it)
  <2>1. PICK it \in [SUBSET (1 .. n) -> I] : IsFold(it, g, <<>>, n, s)
    BY <1>3, <1>10, FoldExists
  <2>2. ASSUME NEW t \in SUBSET (1 .. n)
        PROVE  it[t] = IF t = {} THEN <<>>
                       ELSE Enqueued(it[t \ {Max(t)}], s[Max(t)], tx[s[Max(t)]])
    <3>1. CASE t # {}
      <4>1. Max(t) \in t
        BY <3>1, MaxIsMember
      <4>2. it[t \ {Max(t)}] \in I /\ s[Max(t)] \in L
        BY <2>1, <4>1
      <4> QED
        BY <1>3, <2>1, <3>1, <4>2 DEF IsFold
    <3> QED
      BY <2>1, <3>1 DEF IsFold
  <2> QED
    BY <1>1, <2>1, <2>2
<1>6. Is(fold)
  BY <1>5 DEF StartFold
<1>7. StartQueue(tx, s) = fold[1 .. n]
  BY <1>1 DEF StartQueue, FoldLeft, MapThenFoldSet, StartFold
<1> HIDE DEF fold
<1>8. IsFoldWithin(fold, g, <<>>, n, s, I)
  <2>1. fold[{}] = <<>>
    BY <1>6
  <2>2. ASSUME NEW t \in SUBSET (1 .. n), t # {}, fold[t \ {Max(t)}] \in I
        PROVE  fold[t] = g[<<fold[t \ {Max(t)}], s[Max(t)]>>]
    <3>1. fold[t] = Enqueued(fold[t \ {Max(t)}], s[Max(t)], tx[s[Max(t)]])
      BY <1>1, <1>6, <2>2
    <3>2. s[Max(t)] \in L
      BY <2>2, MaxIsMember
    <3> QED
      BY <1>3, <2>2, <3>1, <3>2
  <2> QED
    BY <2>1, <2>2 DEF IsFoldWithin
<1> HIDE DEF has, adds
<1>9. /\ fold[1 .. n] \in I
      /\ \A i \in 1 .. n : adds[s[i]] \subseteq has[fold[1 .. n]]
  BY <1>3, <1>4, <1>8, <1>10, FoldGathers
<1> QED
  BY <1>7, <1>9 DEF has, adds, I

-----------------------------------------------------------------------------
(* What is queued, at work, embedded or given up. *)

SourceIn(tx, g) == IF g[2] = Own THEN tx[g[1]] ELSE g[2]

\* A call at work is on a node that is or was there.  While it waits for the child
\* it has the text of its node, unless the node has changed or gone since.
JobOK(j, tx, gone) ==
  \/ j = Idle
  \/ /\ j.pc \in {"extract", "embed", "failed"} /\ j.item \in ItemsOf(Known(tx))
     /\ j.text \in Texts \cup Files \cup {Empty, None}
     /\ j.pc = "extract" => j.item.group[2] # Own
     /\ j.pc = "embed" =>
          \/ /\ j.text \in Texts \cup Files
             /\ tx[j.item.group[1]] \in Texts /\ j.item.group[1] \notin gone
                => j.text = SourceIn(tx, j.item.group)
          \/ j.text = Empty /\ tx[j.item.group[1]] = "deleted"

Job == [pc   : {"idle", "extract", "embed", "failed"}, item : Item \cup {None},
        text : Texts \cup Files \cup {Empty, None}]

Shapes ==
  /\ text \in [Nodes -> Texts \cup {"unborn", "deleted"}]
  /\ meta \in [Groups -> Texts \cup Files \cup {None}]
  /\ vecs \in [Groups -> SUBSET (Texts \cup Files)]
  /\ job \in [Callers -> Job]
  /\ loop \in {"off", "running", "done"}
  /\ child \in {"none", "starting", "ready", "broken"} /\ idle \in BOOLEAN
  /\ overtaken \subseteq Nodes /\ unseen \subseteq Nodes /\ dropped \subseteq Groups
  /\ edits \in 0..MaxEdits /\ faults \in 0..MaxFaults

Waiting ==
  /\ queue \in Seq(ItemsOf(Known(text)))
  /\ \A w \in Callers : JobOK(job[w], text, overtaken)
  /\ loop = "off" => \A w \in Callers : job[w] = Idle

ListInv == Shapes /\ Waiting /\ NothingForgotten

\* The invariant has the types.
LEMMA ListsAreTyped == ListInv => EmbedTypeOK
<1> SUFFICES ASSUME ListInv PROVE EmbedTypeOK
  OBVIOUS
<1>1. ItemsOf(Known(text)) \subseteq Item
  BY DEF ItemsOf
<1>2. queue \in Seq(Item)
  <2>1. Len(queue) \in Nat /\ queue \in [1 .. Len(queue) -> ItemsOf(Known(text))]
    BY LenProperties DEF ListInv, Waiting
  <2>2. queue \in [1 .. Len(queue) -> Item]
    BY <1>1, <2>1
  <2> QED
    BY <2>1, <2>2, SeqDef
<1>3. \A w \in Callers :
       \/ job[w] = Idle
       \/ /\ job[w].pc \in {"extract", "embed", "failed"} /\ job[w].item \in Item
          /\ job[w].text \in Texts \cup Files \cup {Empty, None}
  BY <1>1 DEF ListInv, Waiting, JobOK
<1> QED
  BY <1>2, <1>3 DEF ListInv, Shapes, EmbedTypeOK

\* Initially nothing is listed and nothing needs to be.
LEMMA InitLists == Init => ListInv
<1> SUFFICES ASSUME Init PROVE ListInv
  OBVIOUS
<1>1. Shapes
  <2>1. job \in [Callers -> Job]
    BY DEF Init, Job, Idle
  <2>2. edits \in 0..MaxEdits /\ faults \in 0..MaxFaults
    BY EmbeddingConstants DEF Init
  <2> QED
    BY <2>1, <2>2 DEF Init, Shapes
<1>2. Waiting
  BY DEF Init, Waiting, JobOK
<1>3. NothingForgotten
  BY DEF Init, NothingForgotten
<1> QED
  BY <1>1, <1>2, <1>3 DEF ListInv

\* Somebody takes care of a group, or nobody has to any more.
Accounted(g) ==
  meta[g] = SourceIn(text, g) \/ g \in Keys(queue) \/ AtWork(g) \/ g \in dropped

\* What the property says, with these names.
LEMMA Forgotten ==
  NothingForgotten <=>
    (loop # "off" => \A n \in Nodes : Live(n) /\ n \notin overtaken \cup unseen =>
       \A g \in Wants(n, text[n]) : Accounted(g))
<1>1. \A g : Queued(queue, g) <=> g \in Keys(queue)
  BY DEF Queued, Keys
<1>2. \A g : Source(g) = SourceIn(text, g)
  BY DEF Source, SourceIn
<1>3. \A n : Wanted(n) = Wants(n, text[n])
  BY DEF Wanted, Wants
<1> QED
  BY <1>1, <1>2, <1>3 DEF NothingForgotten, Accounted

\* The same of the next state.
LEMMA ForgottenNext ==
  NothingForgotten' <=>
    (loop' # "off" => \A n \in Nodes : Live(n)' /\ n \notin overtaken' \cup unseen' =>
       \A g \in Wants(n, text'[n]) : Accounted(g)')
<1>1. (NothingForgotten <=>
        (loop # "off" => \A n \in Nodes : Live(n) /\ n \notin overtaken \cup unseen =>
           \A g \in Wants(n, text[n]) : Accounted(g)))'
  BY Forgotten, PTL
<1> QED
  BY <1>1

\* What a text wants are groups.
LEMMA WantsGroups ==
  ASSUME NEW n \in Nodes, NEW t \in Texts
  PROVE  /\ Wants(n, t) \subseteq Groups /\ \A g \in Wants(n, t) : g[1] = n
         /\ \A tx, g \in Wants(n, t) : g \notin Pruned(n, t)
  BY EmbeddingConstants DEF Wants, Groups, Pruned, GroupsOf

\* A caller of the invariant is idle or at work on an item.
LEMMA JobCases ==
  ASSUME ListInv, NEW w \in Callers
  PROVE  /\ job[w] \in Job /\ (job[w].pc = "idle" => job[w] = Idle)
         /\ job[w].pc # "idle" => job[w].item \in ItemsOf(Known(text)) /\ job[w].item \in Item
  BY DEF ListInv, Shapes, Waiting, JobOK, ItemsOf, Idle

\* Calls that go on, fail, or end where there is nothing to do.
LEMMA JobsMove ==
  ASSUME ListInv, UNCHANGED <<text, index, queue, loop, hist, edits>>, loop # "off",
         faults' \in 0..MaxFaults, idle' \in BOOLEAN,
         child' \in {"none", "starting", "ready", "broken"}, job' \in [Callers -> Job],
         \A v \in Callers :
           \/ job'[v] = job[v]
           \/ /\ JobOK(job'[v], text, overtaken)
              /\ job'[v].pc # "idle" /\ job'[v].item = job[v].item
           \/ job'[v] = Idle /\ meta[job[v].item.group] = SourceIn(text, job[v].item.group)
  PROVE  ListInv'
<1>1. Shapes'
  BY DEF ListInv, Shapes, index, hist
<1>2. Waiting'
  <2>1. \A v \in Callers : JobOK(job'[v], text, overtaken)
    BY DEF ListInv, Waiting, JobOK
  <2> QED
    BY <2>1 DEF ListInv, Waiting, hist
<1>3. ASSUME NEW g, Accounted(g) PROVE Accounted(g)'
  <2>1. CASE AtWork(g)
    <3>1. PICK v \in Callers : job[v].pc # "idle" /\ job[v].item.group = g
      BY <2>1 DEF AtWork
    <3>2. CASE job'[v].pc # "idle" /\ job'[v].item = job[v].item
      BY <3>1, <3>2 DEF Accounted, AtWork
    <3>3. CASE meta[g] = SourceIn(text, g)
      BY <3>3 DEF Accounted, index
    <3> QED
      BY <3>1, <3>2, <3>3
  <2>2. CASE ~AtWork(g)
    BY <1>3, <2>2 DEF Accounted, index, hist
  <2> QED
    BY <2>1, <2>2
<1>4. NothingForgotten'
  <2>1. \A n : Live(n)' <=> Live(n)
    BY DEF Live
  <2>2. \A n \in Nodes : Live(n) /\ n \notin overtaken \cup unseen =>
          \A g \in Wants(n, text[n]) : Accounted(g)
    BY Forgotten DEF ListInv
  <2> QED
    BY <1>3, <2>1, <2>2, ForgottenNext DEF hist
<1> QED
  BY <1>1, <1>2, <1>4 DEF ListInv

\* The calls that wait for the child fail.
LEMMA Rejected ==
  ASSUME ListInv, Reject, Settled, UNCHANGED <<text, index, queue, loop, hist, edits>>,
         faults' \in 0..MaxFaults, idle' \in BOOLEAN, child' \in {"none", "broken"}
  PROVE  ListInv'
<1>1. ASSUME NEW v \in Callers
      PROVE  \/ job'[v] = job[v]
             \/ /\ JobOK(job'[v], text, overtaken) /\ job'[v] \in Job
                /\ job'[v].pc # "idle" /\ job'[v].item = job[v].item
  <2>1. CASE v \in Pending
    <3>1. job'[v] = [job[v] EXCEPT !.pc = "failed"]
      BY <2>1 DEF Reject
    <3>2. job[v] \in Job /\ job[v].item \in ItemsOf(Known(text))
      BY <2>1, JobCases DEF Pending
    <3>3. /\ job'[v] \in Job /\ job'[v].pc = "failed" /\ job'[v].item = job[v].item
          /\ job'[v].text = job[v].text /\ job[v].text \in Texts \cup Files \cup {Empty, None}
      BY <3>1, <3>2 DEF Job
    <3> QED
      BY <3>2, <3>3 DEF JobOK
  <2>2. CASE v \notin Pending
    BY <2>2 DEF Reject
  <2> QED
    BY <2>1, <2>2
<1>2. job' \in [Callers -> Job]
  BY <1>1 DEF Reject, ListInv, Shapes
<1> QED
  BY <1>1, <1>2, JobsMove DEF Settled

\* A request is sent, or fails at once when the child is broken.
LEMMA Asked ==
  ASSUME ListInv, NEW w \in Callers, NEW it \in Item, NEW t \in Texts \cup Files \cup {Empty}, Ask(w, it, t)
  PROVE  /\ job' \in [Callers -> Job] /\ \A v \in Callers \ {w} : job'[v] = job[v]
         /\ job'[w].pc \in {"embed", "failed"} /\ job'[w].item = it /\ job'[w].text = t
         /\ child' \in {"none", "starting", "ready", "broken"}
<1> DEFINE j == [pc |-> IF child = "broken" THEN "failed" ELSE "embed", item |-> it, text |-> t]
<1>1. j \in Job /\ j.pc \in {"embed", "failed"} /\ j.item = it /\ j.text = t
  BY DEF Job
<1>2. job' = [job EXCEPT ![w] = j]
  BY DEF Ask
<1> HIDE DEF j
<1>3. child' \in {"none", "starting", "ready", "broken"}
  BY DEF Ask, ListInv, Shapes
<1> QED
  BY <1>1, <1>2, <1>3 DEF ListInv, Shapes

\* A text that was extracted is looked at: the call waits for the child, or is done.
LEMMA ExtractedKeeps ==
  ASSUME ListInv, NEW w \in Callers, Extracted(w)
  PROVE  ListInv'
<1> DEFINE it == job[w].item
           g  == it.group
<1>1. /\ UNCHANGED <<text, index, queue, loop, hist, edits>> /\ loop # "off"
      /\ job[w].pc = "extract" /\ idle' = idle /\ faults' = faults
  BY DEF Extracted, Settled, hist
<1>2. it \in ItemsOf(Known(text)) /\ it \in Item /\ g[2] # Own /\ g \in Groups
  BY <1>1, JobCases DEF ListInv, Waiting, JobOK, Idle, Item
<1>3. g[2] \in Files /\ SourceIn(text, g) = g[2]
  BY <1>2 DEF Groups, SourceIn
<1>4. faults' \in 0..MaxFaults /\ idle' \in BOOLEAN
  BY <1>1 DEF ListInv, Shapes
<1>5. CASE meta[g] = g[2]
  <2>1. job' = [job EXCEPT ![w] = Idle] /\ child' = child
    BY <1>5 DEF Extracted
  <2>2. Idle \in Job
    BY DEF Idle, Job
  <2>3. /\ job' \in [Callers -> Job] /\ child' \in {"none", "starting", "ready", "broken"}
        /\ job'[w] = Idle /\ \A v \in Callers \ {w} : job'[v] = job[v]
    BY <2>1, <2>2 DEF ListInv, Shapes
  <2> QED
    BY <1>1, <1>3, <1>4, <1>5, <2>3, JobsMove
<1>6. CASE meta[g] # g[2]
  <2>1. Ask(w, it, g[2])
    BY <1>6 DEF Extracted
  <2> HIDE DEF it
  <2>2. /\ job' \in [Callers -> Job] /\ \A v \in Callers \ {w} : job'[v] = job[v]
        /\ job'[w].pc \in {"embed", "failed"} /\ job'[w].item = it /\ job'[w].text = g[2]
        /\ child' \in {"none", "starting", "ready", "broken"}
    BY <1>2, <1>3, <2>1, Asked
  <2>3. JobOK(job'[w], text, overtaken)
    BY <1>2, <1>3, <2>2 DEF JobOK
  <2> QED
    BY <1>1, <1>4, <2>2, <2>3, JobsMove DEF it
<1> QED
  BY <1>5, <1>6

\* A call fails.
LEMMA OneFails ==
  ASSUME ListInv, NEW w \in Callers, job[w].pc # "idle", job' = [job EXCEPT ![w].pc = "failed"],
         UNCHANGED <<text, index, queue, loop, hist, edits>>, loop # "off",
         faults' \in 0..MaxFaults, idle' \in BOOLEAN, child' = child
  PROVE  ListInv'
<1>1. job[w] \in Job /\ job[w].item \in ItemsOf(Known(text))
  BY JobCases
<1> DEFINE j == [job[w] EXCEPT !.pc = "failed"]
<1>2. /\ j \in Job /\ j.pc = "failed" /\ j.item = job[w].item /\ j.text = job[w].text
      /\ job[w].text \in Texts \cup Files \cup {Empty, None}
  BY <1>1 DEF Job
<1>3. job' = [job EXCEPT ![w] = j]
  BY DEF ListInv, Shapes
<1> HIDE DEF j
<1>4. JobOK(j, text, overtaken)
  BY <1>1, <1>2 DEF JobOK
<1>5. job' \in [Callers -> Job] /\ job'[w] = j /\ \A v \in Callers \ {w} : job'[v] = job[v]
  BY <1>2, <1>3 DEF ListInv, Shapes
<1>6. child' \in {"none", "starting", "ready", "broken"}
  BY DEF ListInv, Shapes
<1> QED
  BY <1>2, <1>4, <1>5, <1>6, JobsMove

\* A fault keeps its counter within the bound.
LEMMA FaultCounted ==
  ASSUME ListInv, Fault \/ faults' = faults
  PROVE  faults' \in 0..MaxFaults
BY EmbeddingConstants DEF ListInv, Shapes, Fault

\* The extractor and the child answer with an error.
LEMMA ErrorsKeep ==
  ASSUME ListInv, NEW w \in Callers, ExtractFails(w) \/ AnswerError(w)
  PROVE  ListInv'
<1>1. /\ job[w].pc # "idle" /\ job' = [job EXCEPT ![w].pc = "failed"] /\ loop # "off" /\ child' = child
      /\ UNCHANGED <<text, index, queue, loop, hist, edits>> /\ Fault /\ (idle' = idle \/ idle' = TRUE)
  BY DEF ExtractFails, AnswerError, Settled, host
<1>2. idle' \in BOOLEAN
  BY <1>1 DEF ListInv, Shapes
<1> QED
  BY <1>1, <1>2, FaultCounted, OneFails

\* The child comes up, and it goes.
LEMMA ChildKeeps ==
  ASSUME ListInv, ChildReady \/ ChildExits \/ ForkFails \/ IdleKill
  PROVE  ListInv'
<1>1. CASE ChildReady
  <2>1. /\ UNCHANGED <<text, index, queue, loop, hist, edits>> /\ loop # "off" /\ faults' = faults
        /\ job' = job /\ idle' = idle /\ child' = "ready"
    BY <1>1 DEF ChildReady, Settled
  <2>2. job' \in [Callers -> Job] /\ idle' \in BOOLEAN
    BY <2>1 DEF ListInv, Shapes
  <2> QED
    BY <2>1, <2>2, FaultCounted, JobsMove
<1>2. CASE ChildExits \/ ForkFails \/ IdleKill
  <2>1. /\ Settled /\ Reject /\ (Fault \/ faults' = faults) /\ (idle' = idle \/ idle' = FALSE)
        /\ child' \in {"none", "broken"} /\ UNCHANGED <<text, index, queue, loop, hist, edits>>
    BY <1>2 DEF ChildExits, ForkFails, IdleKill
  <2>2. idle' \in BOOLEAN
    BY <2>1 DEF ListInv, Shapes
  <2> QED
    BY <2>1, <2>2, FaultCounted, Rejected
<1> QED
  BY <1>1, <1>2

\* The answer to a call is what its node says now, unless the node has changed or
\* gone meanwhile.
LEMMA AnswerKeepsLists ==
  ASSUME ListInv, NEW w \in Callers, Answer(w)
  PROVE  ListInv'
<1> DEFINE g == job[w].item.group
<1>1. /\ UNCHANGED <<text, queue, loop, hist, edits, faults>> /\ loop # "off" /\ idle' = TRUE
      /\ job[w].pc = "embed" /\ child' = child
  BY DEF Answer, Settled
<1>2. g \in Groups /\ job[w].item \in ItemsOf(Known(text))
  BY <1>1, JobCases DEF Item, ItemsOf
<1>3. CASE ~Referenced(g[1])
  <2>1. job' = [job EXCEPT ![w].pc = "failed"] /\ UNCHANGED index
    BY <1>3 DEF Answer
  <2> QED
    BY <1>1, <2>1, FaultCounted, OneFails
<1>4. CASE Referenced(g[1])
  <2>1. /\ meta' = [meta EXCEPT ![g] = job[w].text] /\ job' = [job EXCEPT ![w] = Idle]
        /\ vecs' = [vecs EXCEPT ![g] = (@ \ {meta[g]}) \cup {job[w].text}]
    BY <1>4 DEF Answer
  <2>2. text[g[1]] \in Texts
    BY <1>4 DEF Referenced, Live
  <2>3. /\ job[w].text \in Texts \cup Files
        /\ g[1] \notin overtaken => job[w].text = SourceIn(text, g)
    BY <1>1, <2>2, EmbeddingConstants DEF ListInv, Waiting, JobOK, Idle
  <2> HIDE DEF g
  <2>4. Idle \in Job
    BY DEF Idle, Job
  <2>5. Shapes'
    <3>1. meta' \in [Groups -> Texts \cup Files \cup {None}] /\ vecs' \in [Groups -> SUBSET (Texts \cup Files)]
      BY <1>2, <2>1, <2>3 DEF ListInv, Shapes
    <3> QED
      BY <1>1, <2>1, <2>4, <3>1 DEF ListInv, Shapes, hist
  <2>6. Waiting'
    <3>1. \A v \in Callers : job'[v] = Idle \/ job'[v] = job[v]
      BY <2>1 DEF ListInv, Shapes
    <3> QED
      BY <1>1, <3>1 DEF ListInv, Waiting, JobOK, hist
  <2>7. ASSUME NEW h \in Groups, h[1] \notin overtaken, Accounted(h) PROVE Accounted(h)'
    <3>1. CASE h = g
      BY <1>1, <1>2, <2>1, <2>3, <2>7, <3>1 DEF Accounted, ListInv, Shapes
    <3>2. CASE h # g
      <4>1. meta'[h] = meta[h]
        BY <2>1, <3>2 DEF ListInv, Shapes
      <4>2. ASSUME AtWork(h) PROVE AtWork(h)'
        <5>1. PICK v \in Callers : job[v].pc # "idle" /\ job[v].item.group = h
          BY <4>2 DEF AtWork
        <5>2. job'[v] = job[v]
          BY <2>1, <3>2, <5>1 DEF ListInv, Shapes, g
        <5> QED
          BY <5>1, <5>2 DEF AtWork
      <4> QED
        BY <1>1, <2>7, <4>1, <4>2 DEF Accounted, hist
    <3> QED
      BY <3>1, <3>2
  <2>8. NothingForgotten'
    <3>1. \A n : Live(n)' <=> Live(n)
      BY <1>1 DEF Live
    <3>2. \A n \in Nodes : Live(n) /\ n \notin overtaken \cup unseen =>
            \A h \in Wants(n, text[n]) : Accounted(h)
      BY <1>1, Forgotten DEF ListInv
    <3>3. \A n \in Nodes : Live(n) => \A h \in Wants(n, text[n]) : h \in Groups /\ h[1] = n
      BY WantsGroups DEF Live
    <3> QED
      BY <1>1, <2>7, <3>1, <3>2, <3>3, ForgottenNext DEF hist
  <2> QED
    BY <2>5, <2>6, <2>8 DEF ListInv
<1> QED
  BY <1>3, <1>4

\* A call that fails is tried again, or its group is given up.
LEMMA FailedKeeps ==
  ASSUME ListInv, NEW w \in Callers, Failed(w)
  PROVE  ListInv'
<1> DEFINE it == job[w].item
           new == Counted(it)
<1>1. /\ UNCHANGED <<text, meta, vecs, loop, child, idle, overtaken, unseen, edits, faults>>
      /\ job[w].pc = "failed" /\ job' = [job EXCEPT ![w] = Idle]
  BY DEF Failed, index, host
<1>2. it \in ItemsOf(Known(text)) /\ it \in Item /\ it.group \in Groups
  BY <1>1, JobCases DEF Item
<1>3. \/ /\ new \in ItemsOf(Known(text)) /\ new.group = it.group
         /\ queue' = Append(queue, new) /\ dropped' = dropped
      \/ dropped' = dropped \cup {it.group} /\ queue' = queue
  <2>1. CASE Requeued(it)
    <3>1. it.retries \in 0..Attempts - 1 /\ it.retries + 1 < Attempts
      BY <1>2, <2>1 DEF Requeued, Item
    <3>2. it.retries + 1 \in 0..Attempts - 1
      BY <3>1 DEF Attempts
    <3>3. new \in Item /\ new.group = it.group
      BY <1>2, <3>2 DEF Counted, Item
    <3>4. queue' = Append(queue, new) /\ dropped' = dropped
      BY <2>1 DEF Failed
    <3> QED
      BY <1>2, <3>3, <3>4 DEF ItemsOf
  <2>2. CASE ~Requeued(it)
    BY <2>2 DEF Failed
  <2> QED
    BY <2>1, <2>2
<1> HIDE DEF new, it
<1>4. /\ queue' \in Seq(ItemsOf(Known(text))) /\ Keys(queue) \subseteq Keys(queue')
      /\ it.group \in Keys(queue') \cup dropped'
  <2>1. CASE queue' = queue /\ dropped' = dropped \cup {it.group}
    BY <2>1 DEF ListInv, Waiting
  <2>2. CASE queue' = Append(queue, new) /\ new \in ItemsOf(Known(text)) /\ new.group = it.group
    <3>1. queue \in Seq(ItemsOf(Known(text)))
      BY DEF ListInv, Waiting
    <3>2. /\ Append(queue, new) \in Seq(ItemsOf(Known(text)))
          /\ Len(Append(queue, new)) = Len(queue) + 1
          /\ \A i \in 1 .. Len(queue) : Append(queue, new)[i] = queue[i]
          /\ Append(queue, new)[Len(queue) + 1] = new
      BY <2>2, <3>1, AppendProperties
    <3>3. DOMAIN queue = 1 .. Len(queue) /\ Len(queue) \in Nat /\ DOMAIN queue' = 1 .. Len(queue) + 1
      BY <2>2, <3>1, <3>2, LenProperties
    <3>4. \A i \in DOMAIN queue : i \in DOMAIN queue' /\ queue'[i] = queue[i]
      BY <2>2, <3>2, <3>3
    <3>5. Len(queue) + 1 \in DOMAIN queue' /\ queue'[Len(queue) + 1].group = it.group
      BY <2>2, <3>2, <3>3
    <3> QED
      BY <2>2, <3>2, <3>4, <3>5 DEF Keys
  <2> QED
    BY <1>3, <2>1, <2>2
<1>5. Idle \in Job /\ dropped' \subseteq Groups /\ dropped \subseteq dropped'
  BY <1>2, <1>3 DEF Idle, Job, ListInv, Shapes
<1>6. Shapes'
  BY <1>1, <1>5 DEF ListInv, Shapes
<1>7. Waiting'
  <2>1. \A v \in Callers : job'[v] = Idle \/ job'[v] = job[v]
    BY <1>1 DEF ListInv, Shapes
  <2> QED
    BY <1>1, <1>4, <2>1 DEF ListInv, Waiting, JobOK
<1>8. ASSUME NEW g, Accounted(g) PROVE Accounted(g)'
  <2>1. CASE AtWork(g)
    <3>1. PICK v \in Callers : job[v].pc # "idle" /\ job[v].item.group = g
      BY <2>1 DEF AtWork
    <3>2. CASE v = w
      BY <1>4, <3>1, <3>2 DEF Accounted, it
    <3>3. CASE v # w
      <4>1. job'[v] = job[v]
        BY <1>1, <3>3 DEF ListInv, Shapes
      <4> QED
        BY <3>1, <4>1 DEF Accounted, AtWork
    <3> QED
      BY <3>2, <3>3
  <2>2. CASE ~AtWork(g)
    BY <1>1, <1>4, <1>5, <1>8, <2>2 DEF Accounted
  <2> QED
    BY <2>1, <2>2
<1>9. NothingForgotten'
  <2>1. \A n : Live(n)' <=> Live(n)
    BY <1>1 DEF Live
  <2> QED
    BY <1>1, <1>8, <2>1, Forgotten, ForgottenNext DEF ListInv
<1> QED
  BY <1>6, <1>7, <1>9 DEF ListInv

\* A call takes the first item of a queue.  Its group is then at work, unless its
\* rows are those of the present text.
LEMMA TakeDoes ==
  ASSUME ListInv, NEW w \in Callers, job[w].pc = "idle",
         NEW tx \in [Nodes -> Texts \cup {"unborn", "deleted"}],
         NEW q \in Seq(ItemsOf(Known(tx))), Take(w, q, tx), NEW gone
  PROVE  /\ queue' \in Seq(ItemsOf(Known(tx)))
         /\ job' \in [Callers -> Job] /\ \A v \in Callers \ {w} : job'[v] = job[v]
         /\ JobOK(job'[w], tx, gone)
         /\ child' \in {"none", "starting", "ready", "broken"}
         /\ \A g \in Keys(q) : \/ g \in Keys(queue')
                               \/ job'[w].pc # "idle" /\ job'[w].item.group = g
                               \/ g[2] = Own /\ meta[g] = Assembled(tx[g[1]])
<1> DEFINE S  == ItemsOf(Known(tx))
           it == Head(q)
           g  == it.group
           t  == Assembled(tx[g[1]])
<1>0. job[w] = Idle /\ job \in [Callers -> Job] /\ child \in {"none", "starting", "ready", "broken"}
  BY JobCases DEF ListInv, Shapes
<1>1. CASE q = <<>>
  <2>1. queue' = q /\ job' = job /\ child' = child
    BY <1>1 DEF Take
  <2> QED
    BY <1>0, <1>1, <2>1 DEF JobOK, Keys
<1>2. CASE q # <<>>
  <2>1. /\ it \in S /\ Tail(q) \in Seq(S)
        /\ \A i \in DOMAIN q : i = 1 \/ (i - 1 \in DOMAIN Tail(q) /\ q[i] = Tail(q)[i - 1])
        /\ it = q[1]
    BY <1>2, HeadTail
  <2>2. queue' = Tail(q)
    BY <1>2 DEF Take
  <2>3. \A h \in Keys(q) : h = g \/ h \in Keys(queue')
    <3> SUFFICES ASSUME NEW i \in DOMAIN q PROVE q[i].group = g \/ q[i].group \in Keys(queue')
      BY DEF Keys
    <3>1. CASE i = 1
      BY <2>1, <3>1
    <3>2. CASE i - 1 \in DOMAIN queue' /\ q[i] = queue'[i - 1]
      BY <3>2 DEF Keys
    <3> QED
      BY <2>1, <2>2, <3>1, <3>2
  <2>4. it \in Item /\ g \in Groups /\ tx[g[1]] # "unborn" /\ g[1] \in Nodes
    BY <2>1 DEF ItemsOf, Item, Known, Groups
  <2>5. t \in Texts \cup {Empty}
    BY DEF Assembled
  <2>6. CASE g[2] = Own /\ meta[g] = t
    <3>1. job' = job /\ child' = child
      BY <1>2, <2>6 DEF Take
    <3> QED
      BY <1>0, <2>1, <2>2, <2>3, <2>6, <3>1 DEF JobOK
  <2>7. CASE g[2] = Own /\ meta[g] # t
    <3>1. Ask(w, it, t)
      BY <1>2, <2>7, EmbeddingConstants DEF Take
    <3> HIDE DEF it, t
    <3>2. /\ job' \in [Callers -> Job] /\ \A v \in Callers \ {w} : job'[v] = job[v]
          /\ job'[w].pc \in {"embed", "failed"} /\ job'[w].item = it /\ job'[w].text = t
          /\ child' \in {"none", "starting", "ready", "broken"}
      BY <2>4, <2>5, <3>1, Asked
    <3>3. tx[g[1]] \in Texts => t = SourceIn(tx, g)
      BY <2>7 DEF t, Assembled, SourceIn
    <3>4. tx[g[1]] \notin Texts => t = Empty /\ tx[g[1]] = "deleted"
      BY <2>4 DEF t, Assembled
    <3>6. JobOK(job'[w], tx, gone)
      <4>1. it \in ItemsOf(Known(tx)) /\ job'[w].item.group = g /\ job'[w].text \in Texts \cup {Empty}
        BY <2>1, <2>5, <3>2
      <4>2. CASE tx[g[1]] \in Texts
        <5>1. t \in Texts
          BY <4>2 DEF t, Assembled
        <5> HIDE DEF g
        <5> QED
          BY <3>2, <3>3, <4>1, <4>2, <5>1 DEF JobOK
      <4>3. CASE tx[g[1]] \notin Texts
        <5> HIDE DEF g
        <5> QED
          BY <3>2, <3>4, <4>1, <4>3 DEF JobOK
      <4> QED
        BY <4>2, <4>3
    <3> QED
      BY <2>1, <2>2, <2>3, <3>2, <3>6
  <2>8. CASE g[2] # Own
    <3>1. job' = [job EXCEPT ![w] = [pc |-> "extract", item |-> it, text |-> None]] /\ child' = child
      BY <1>2, <2>8 DEF Take
    <3> HIDE DEF it
    <3>2. [pc |-> "extract", item |-> it, text |-> None] \in Job
      BY <2>4 DEF Job
    <3>3. /\ job' \in [Callers -> Job] /\ \A v \in Callers \ {w} : job'[v] = job[v]
          /\ job'[w] = [pc |-> "extract", item |-> it, text |-> None]
      BY <1>0, <3>1, <3>2
    <3>4. job'[w].pc = "extract" /\ job'[w].item = it /\ job'[w].text = None
      BY <3>3
    <3>5. JobOK(job'[w], tx, gone)
      <4>1. it \in ItemsOf(Known(tx)) /\ it.group[2] # Own
        BY <2>1, <2>8
      <4> QED
        BY <3>4, <4>1 DEF JobOK
    <3> QED
      BY <1>0, <2>1, <2>2, <2>3, <3>1, <3>3, <3>4, <3>5
  <2> QED
    BY <2>6, <2>7, <2>8
<1> QED
  BY <1>1, <1>2

\* The loop of the startup takes an item.
LEMMA LoopKeeps ==
  ASSUME ListInv, LoopNext
  PROVE  ListInv'
<1>1. /\ UNCHANGED <<text, index, idle, hist, edits, faults>> /\ job[Loop].pc = "idle" /\ Loop \in Callers
      /\ loop = "running" /\ loop' \in {"done", "running"} /\ Take(Loop, queue, text)
  BY DEF LoopNext, Callers
<1>2. /\ queue \in Seq(ItemsOf(Known(text))) /\ text \in [Nodes -> Texts \cup {"unborn", "deleted"}]
  BY DEF ListInv, Shapes, Waiting
<1>3. /\ queue' \in Seq(ItemsOf(Known(text)))
      /\ job' \in [Callers -> Job] /\ \A v \in Callers \ {Loop} : job'[v] = job[v]
      /\ JobOK(job'[Loop], text, overtaken)
      /\ child' \in {"none", "starting", "ready", "broken"}
      /\ \A g \in Keys(queue) : \/ g \in Keys(queue')
                                \/ job'[Loop].pc # "idle" /\ job'[Loop].item.group = g
                                \/ g[2] = Own /\ meta[g] = Assembled(text[g[1]])
  BY <1>1, <1>2, TakeDoes
<1>4. Shapes'
  BY <1>1, <1>3 DEF ListInv, Shapes, index, hist
<1>5. Waiting'
  <2>1. \A v \in Callers : JobOK(job'[v], text, overtaken)
    BY <1>3 DEF ListInv, Waiting
  <2> QED
    BY <1>1, <1>3, <2>1 DEF Waiting, hist
<1>6. ASSUME NEW g, text[g[1]] \in Texts, Accounted(g) PROVE Accounted(g)'
  <2>1. CASE g \in Keys(queue)
    BY <1>1, <1>3, <1>6, <2>1 DEF Accounted, AtWork, index, Assembled, SourceIn
  <2>2. CASE AtWork(g)
    <3>1. PICK v \in Callers : job[v].pc # "idle" /\ job[v].item.group = g
      BY <2>2 DEF AtWork
    <3>2. job'[v] = job[v]
      BY <1>1, <1>3, <3>1
    <3> QED
      BY <3>1, <3>2 DEF Accounted, AtWork
  <2>3. CASE g \notin Keys(queue) /\ ~AtWork(g)
    BY <1>1, <1>6, <2>3 DEF Accounted, index, hist
  <2> QED
    BY <2>1, <2>2, <2>3
<1>7. NothingForgotten'
  <2>1. \A n : Live(n)' <=> Live(n)
    BY <1>1 DEF Live
  <2>2. \A n \in Nodes : Live(n) /\ n \notin overtaken \cup unseen =>
          \A g \in Wants(n, text[n]) : Accounted(g)
    BY <1>1, Forgotten DEF ListInv
  <2>3. \A n \in Nodes : Live(n) => \A g \in Wants(n, text[n]) : text[g[1]] \in Texts
    BY WantsGroups DEF Live
  <2> QED
    BY <1>1, <1>6, <2>1, <2>2, <2>3, ForgottenNext DEF hist
<1> QED
  BY <1>4, <1>5, <1>7 DEF ListInv

\* Dropping rows keeps the types of the tables, and the rows of other groups.
LEMMA DroppedRows ==
  ASSUME Shapes, NEW gs, DropRows(gs)
  PROVE  /\ meta' \in [Groups -> Texts \cup Files \cup {None}]
         /\ vecs' \in [Groups -> SUBSET (Texts \cup Files)]
         /\ \A g \in Groups : g \notin gs => meta'[g] = meta[g]
BY DEF Shapes, DropRows

\* A step that changes the text of one node, and notes that it overtakes the calls
\* at work on it.
LEMMA OthersJobs ==
  ASSUME ListInv, NEW n \in Nodes, NEW t \in Texts \cup {"deleted"}, NEW gone,
         text[n] # "deleted", t = "deleted" \/ t = text[n] \/ n \in gone \/ ~Busy(n),
         \A m \in overtaken : m \in gone \/ (m = n /\ ~Busy(n)),
         NEW w \in Callers, NEW tx, tx = [text EXCEPT ![n] = t]
  PROVE  JobOK(job[w], tx, gone)
<1> DEFINE it == job[w].item
           m  == it.group[1]
<1>1. CASE job[w].pc = "idle"
  BY <1>1, JobCases DEF JobOK
<1>2. CASE job[w].pc # "idle"
  <2>1. /\ it \in ItemsOf(Known(text)) /\ JobOK(job[w], text, overtaken) /\ job[w] # Idle
        /\ m \in Nodes /\ text[m] # "unborn"
    BY <1>2, JobCases DEF ListInv, Waiting, Idle, ItemsOf, Known
  <2>2. \A k \in Nodes : tx[k] = IF k = n THEN t ELSE text[k]
    BY DEF ListInv, Shapes
  <2>3. t # "unborn"
    BY EmbeddingConstants
  <2>4. it \in ItemsOf(Known(tx))
    BY <2>1, <2>2, <2>3 DEF ItemsOf, Known
  <2>5. m = n => Busy(n)
    BY <1>2 DEF Busy
  <2>6. ASSUME job[w].pc = "embed"
        PROVE  \/ /\ job[w].text \in Texts \cup Files
                  /\ tx[m] \in Texts /\ m \notin gone => job[w].text = SourceIn(tx, it.group)
               \/ job[w].text = Empty /\ tx[m] = "deleted"
    <3>1. \/ /\ job[w].text \in Texts \cup Files
             /\ text[m] \in Texts /\ m \notin overtaken => job[w].text = SourceIn(text, it.group)
          \/ job[w].text = Empty /\ text[m] = "deleted"
      BY <2>1, <2>6 DEF JobOK
    <3>2. CASE m # n
      BY <2>1, <2>2, <3>1, <3>2 DEF SourceIn
    <3>3. CASE m = n
      <4>1. job[w].text \in Texts \cup Files
        BY <3>1, <3>3
      <4>2. tx[m] \in Texts /\ m \notin gone => t = text[n] /\ m \notin overtaken
        BY <2>1, <2>2, <2>5, <3>3, EmbeddingConstants
      <4>3. t = text[n] => tx[m] = text[m] /\ SourceIn(tx, it.group) = SourceIn(text, it.group)
        BY <2>1, <2>2, <3>3 DEF SourceIn
      <4> QED
        BY <3>1, <4>1, <4>2, <4>3, <3>3
    <3> QED
      BY <3>2, <3>3
  <2> QED
    BY <2>1, <2>4, <2>6 DEF JobOK
<1> QED
  BY <1>1, <1>2

\* The watcher takes a text in.
LEMMA WatchKeepsLists ==
  ASSUME ListInv, NEW n \in Nodes, NEW t \in Texts, NEW w \in Watchers, Watch(n, t, w)
  PROVE  ListInv'
<1> DEFINE tx == [text EXCEPT ![n] = t]
           q  == Enqueued(queue, n, t)
           K  == Known(tx)
<1>1. /\ text' = tx /\ loop' = loop /\ loop # "off" /\ UNCHANGED <<idle, faults>>
      /\ w \in Callers /\ job[w].pc = "idle" /\ text[n] # "deleted"
      /\ Take(w, q, tx) /\ DropRows(Pruned(n, t))
      /\ unseen' = unseen \ {n} /\ dropped' = dropped \ GroupsOf(n)
      /\ edits < MaxEdits /\ edits' = edits + 1
      /\ overtaken' = CASE ~Busy(n)               -> overtaken \ {n}
                        [] Busy(n) /\ text[n] # t -> overtaken \cup {n}
                        [] OTHER                  -> overtaken
  BY DEF Watch, Settled, Callers
<1>2. /\ tx \in [Nodes -> Texts \cup {"unborn", "deleted"}] /\ K \in SUBSET Nodes /\ n \in K
      /\ Known(text) \subseteq K /\ \A m \in Nodes : tx[m] = IF m = n THEN t ELSE text[m]
  BY EmbeddingConstants DEF ListInv, Shapes, Known
<1>3. queue \in Seq(ItemsOf(K))
  BY <1>2, MoreItems DEF ListInv, Waiting
<1>4. q \in Seq(ItemsOf(K)) /\ Keys(queue) \cup Wants(n, t) \subseteq Keys(q)
  BY <1>2, <1>3, EnqueuedAdds
<1> HIDE DEF q, tx
<1>5. /\ queue' \in Seq(ItemsOf(K))
      /\ job' \in [Callers -> Job] /\ \A v \in Callers \ {w} : job'[v] = job[v]
      /\ JobOK(job'[w], tx, overtaken')
      /\ child' \in {"none", "starting", "ready", "broken"}
      /\ \A g \in Keys(q) : \/ g \in Keys(queue')
                            \/ job'[w].pc # "idle" /\ job'[w].item.group = g
                            \/ g[2] = Own /\ meta[g] = Assembled(tx[g[1]])
  BY <1>1, <1>2, <1>4, TakeDoes
<1>6. /\ meta' \in [Groups -> Texts \cup Files \cup {None}]
      /\ vecs' \in [Groups -> SUBSET (Texts \cup Files)]
      /\ \A g \in Groups : g \notin Pruned(n, t) => meta'[g] = meta[g]
  BY <1>1, DroppedRows DEF ListInv
<1>7. /\ overtaken' \subseteq Nodes /\ \A m \in overtaken : m \in overtaken' \/ (m = n /\ ~Busy(n))
      /\ t = text[n] \/ n \in overtaken' \/ ~Busy(n)
      /\ \A m : m # n => (m \in overtaken' <=> m \in overtaken)
  BY <1>1 DEF ListInv, Shapes
<1>8. Shapes'
  <2>1. edits' \in 0..MaxEdits
    BY <1>1, EmbeddingConstants DEF ListInv, Shapes
  <2> QED
    BY <1>1, <1>2, <1>5, <1>6, <1>7, <2>1 DEF ListInv, Shapes
<1>9. Waiting'
  <2>1. \A v \in Callers : JobOK(job[v], tx, overtaken')
    BY <1>1, <1>7, OthersJobs DEF tx
  <2>2. \A v \in Callers : JobOK(job'[v], tx, overtaken')
    BY <1>5, <2>1
  <2> QED
    BY <1>1, <1>5, <2>2 DEF Waiting
<1>10. ASSUME NEW g \in Groups, g \in Keys(q), g \notin Pruned(n, t), tx[g[1]] \in Texts
       PROVE  Accounted(g)'
  BY <1>1, <1>5, <1>6, <1>10 DEF Accounted, AtWork, Assembled, SourceIn
<1>11. ASSUME NEW g \in Groups, g[1] # n, Accounted(g), text[g[1]] \in Texts PROVE Accounted(g)'
  <2>1. g \notin Pruned(n, t) /\ g \notin GroupsOf(n) /\ g[1] \in Nodes
    BY <1>11 DEF Pruned, GroupsOf, Groups
  <2>2. tx[g[1]] = text[g[1]]
    BY <1>2, <1>11, <2>1
  <2>3. CASE g \in Keys(queue)
    BY <1>4, <1>10, <1>11, <2>1, <2>2, <2>3
  <2>4. CASE AtWork(g)
    <3>1. PICK v \in Callers : job[v].pc # "idle" /\ job[v].item.group = g
      BY <2>4 DEF AtWork
    <3>2. job'[v] = job[v]
      BY <1>1, <1>5, <3>1
    <3> QED
      BY <3>1, <3>2 DEF Accounted, AtWork
  <2>5. CASE meta[g] = SourceIn(text, g) \/ g \in dropped
    BY <1>1, <1>6, <2>1, <2>2, <2>5 DEF Accounted, SourceIn
  <2> QED
    BY <1>11, <2>3, <2>4, <2>5 DEF Accounted
<1>12. NothingForgotten'
  <2> SUFFICES ASSUME NEW m \in Nodes, Live(m)', m \notin overtaken' \cup unseen',
                      NEW g \in Wants(m, text'[m])
               PROVE  Accounted(g)'
    BY ForgottenNext
  <2>1. tx[m] \in Texts
    BY <1>1 DEF Live
  <2>2. g \in Groups /\ g[1] = m /\ g \in Wants(m, tx[m])
    BY <1>1, <2>1, WantsGroups
  <2>3. CASE m = n
    <3>1. g \in Wants(n, t)
      BY <1>2, <2>2, <2>3
    <3>2. g \notin Pruned(n, t)
      BY <3>1, WantsGroups
    <3> QED
      BY <1>4, <1>10, <2>1, <2>2, <3>1, <3>2
  <2>4. CASE m # n
    <3>1. text[m] = tx[m] /\ m \notin overtaken \cup unseen
      BY <1>1, <1>2, <1>7, <2>4
    <3>2. Accounted(g)
      BY <1>1, <2>1, <2>2, <3>1, Forgotten DEF ListInv, Live
    <3> QED
      BY <1>11, <2>1, <2>2, <2>4, <3>1, <3>2
  <2> QED
    BY <2>3, <2>4
<1> QED
  BY <1>8, <1>9, <1>12 DEF ListInv

\* A tool changes a node behind the index's back, or the node is deleted.
LEMMA ToolAndDeleteKeep ==
  ASSUME ListInv, NEW n \in Nodes, Delete(n) \/ \E t \in Texts : Tool(n, t)
  PROVE  ListInv'
<1>1. PICK t \in Texts \cup {"deleted"} :
        /\ text' = [text EXCEPT ![n] = t]
        /\ \/ t \in Texts /\ meta' = meta /\ unseen' = unseen \cup {n}
              /\ overtaken' = (IF Busy(n) THEN overtaken \cup {n} ELSE overtaken)
           \/ t = "deleted" /\ UNCHANGED <<overtaken, unseen>>
  BY DEF Tool, Delete, index, hist
<1>2. /\ UNCHANGED <<queue, job, loop, host, dropped, faults>> /\ loop # "off" /\ Live(n)
      /\ edits < MaxEdits /\ edits' = edits + 1
      /\ \A g \in Groups : g[1] # n => meta'[g] = meta[g]
  BY DEF Tool, Delete, index, hist, Settled, ListInv, Shapes
<1>3. /\ meta' \in [Groups -> Texts \cup Files \cup {None}]
      /\ vecs' \in [Groups -> SUBSET (Texts \cup Files)]
  <2>1. CASE Delete(n)
    BY <2>1 DEF Delete, ListInv, Shapes
  <2>2. CASE \E x \in Texts : Tool(n, x)
    BY <2>2 DEF Tool, index, ListInv, Shapes
  <2> QED
    BY <2>1, <2>2
<1>4. /\ text' \in [Nodes -> Texts \cup {"unborn", "deleted"}]
      /\ text[n] # "deleted" /\ text[n] \in Texts
      /\ \A m \in Nodes : text'[m] = IF m = n THEN t ELSE text[m]
  BY <1>1, <1>2, EmbeddingConstants DEF Live, ListInv, Shapes
<1>5. Known(text) \subseteq Known(text')
  BY <1>4, EmbeddingConstants DEF Known
<1>6. Shapes'
  <2>1. edits' \in 0..MaxEdits
    BY <1>2, EmbeddingConstants DEF ListInv, Shapes
  <2> QED
    BY <1>1, <1>2, <1>3, <1>4, <2>1 DEF ListInv, Shapes, host
<1>7. Waiting'
  <2>1. queue \in Seq(ItemsOf(Known(text')))
    BY <1>5, MoreItems DEF ListInv, Waiting
  <2>2. \A v \in Callers : JobOK(job[v], text', overtaken')
    <3>1. t = "deleted" \/ t = text[n] \/ n \in overtaken' \/ ~Busy(n)
      BY <1>1
    <3>2. \A m \in overtaken : m \in overtaken'
      BY <1>1
    <3> QED
      BY <1>1, <1>4, <3>1, <3>2, OthersJobs
  <2> QED
    BY <1>2, <2>1, <2>2 DEF Waiting
<1>8. NothingForgotten'
  <2> SUFFICES ASSUME NEW m \in Nodes, Live(m)', m \notin overtaken' \cup unseen',
                      NEW g \in Wants(m, text'[m])
               PROVE  Accounted(g)'
    BY ForgottenNext
  <2>1. m # n
    BY <1>1, <1>4, EmbeddingConstants DEF Live
  <2>2. text'[m] = text[m] /\ Live(m) /\ m \notin overtaken \cup unseen
    BY <1>1, <1>4, <2>1 DEF Live
  <2>3. g \in Groups /\ g[1] = m
    BY <2>2, WantsGroups DEF Live
  <2>4. Accounted(g)
    BY <1>2, <2>2, Forgotten DEF ListInv
  <2> QED
    BY <1>2, <2>1, <2>2, <2>3, <2>4 DEF Accounted, AtWork, SourceIn
<1> QED
  BY <1>6, <1>7, <1>8 DEF ListInv

\* A restart forgets the lists; until the next startup nothing needs to be on them.
LEMMA RestartKeeps ==
  ASSUME ListInv, NEW n \in Nodes, NEW t \in Texts, Restart(n, t)
  PROVE  ListInv'
<1>1. /\ loop' = "off" /\ queue' = <<>> /\ job' = [w \in Callers |-> Idle] /\ child' = "none" /\ idle' = FALSE
      /\ text' = (IF text[n] = "deleted" THEN text ELSE [text EXCEPT ![n] = t])
      /\ UNCHANGED <<index, hist, edits>> /\ Fault
  BY DEF Restart
<1>2. Idle \in Job /\ faults' \in 0..MaxFaults
  BY <1>1, FaultCounted DEF Idle, Job
<1>3. Shapes'
  BY <1>1, <1>2 DEF ListInv, Shapes, index, hist
<1>4. Waiting'
  BY <1>1 DEF Waiting, JobOK
<1>5. NothingForgotten'
  BY <1>1 DEF NothingForgotten
<1> QED
  BY <1>3, <1>4, <1>5 DEF ListInv

\* The startup lists what every node wants.
LEMMA StartKeepsLists ==
  ASSUME ListInv, NEW clear \in BOOLEAN, Start(clear)
  PROVE  ListInv'
<1> DEFINE live == {n \in Nodes : Live(n)}
           s == SetToSeq(live)
<1>1. /\ loop = "off" /\ loop' = "running" /\ queue' = StartQueue(text, s)
      /\ overtaken' = {} /\ unseen' = {} /\ dropped' = {}
      /\ UNCHANGED <<text, job, child, idle, edits, faults>>
  BY DEF Start, StartQueue, host
<1>2. live \in SUBSET Nodes /\ \A n \in live : text[n] \in Texts
  BY DEF Live
<1>3. IsFiniteSet(live)
  BY EmbeddingConstants, FS_Subset
<1>4. /\ Cardinality(live) \in Nat /\ s \in [1 .. Cardinality(live) -> live]
      /\ \A n \in live : \E i \in 1 .. Cardinality(live) : s[i] = n
  BY <1>3, ListOfSet
<1> HIDE DEF live, s
<1>5. /\ queue' \in Seq(ItemsOf(live))
      /\ \A i \in 1 .. Cardinality(live) : Wants(s[i], text[s[i]]) \subseteq Keys(queue')
  BY <1>1, <1>2, <1>4, StartQueues
<1>6. /\ meta' \in [Groups -> Texts \cup Files \cup {None}]
      /\ vecs' \in [Groups -> SUBSET (Texts \cup Files)]
  <2>1. CASE clear
    BY <2>1 DEF Start
  <2>2. CASE ~clear
    <3>1. \E gs : DropRows(gs)
      BY <2>2 DEF Start
    <3> QED
      BY <3>1, DroppedRows DEF ListInv
  <2> QED
    BY <2>1, <2>2
<1>7. Shapes'
  BY <1>1, <1>6 DEF ListInv, Shapes
<1>8. Waiting'
  <2>1. live \subseteq Known(text)
    BY <1>2, EmbeddingConstants DEF Known
  <2>2. queue' \in Seq(ItemsOf(Known(text)))
    BY <1>5, <2>1, MoreItems
  <2>3. \A v \in Callers : job[v] = Idle
    BY <1>1 DEF ListInv, Waiting
  <2> QED
    BY <1>1, <2>2, <2>3 DEF Waiting, JobOK
<1>9. NothingForgotten'
  <2> SUFFICES ASSUME NEW m \in Nodes, Live(m)', NEW g \in Wants(m, text'[m])
               PROVE  Accounted(g)'
    BY ForgottenNext
  <2>1. m \in live /\ text' = text
    BY <1>1 DEF Live, live
  <2>2. g \in Keys(queue')
    BY <1>4, <1>5, <2>1
  <2> QED
    BY <2>2 DEF Accounted
<1> QED
  BY <1>7, <1>8, <1>9 DEF ListInv

\* No step forgets a text.
LEMMA NextKeepsLists == ListInv /\ [Next]_vars => ListInv'
<1> SUFFICES ASSUME ListInv, [Next]_vars
             PROVE  ListInv'
  OBVIOUS
<1>1. CASE \E clear \in BOOLEAN : Start(clear)
  BY <1>1, StartKeepsLists
<1>2. CASE LoopNext
  BY <1>2, LoopKeeps
<1>3. CASE ChildReady \/ ChildExits \/ ForkFails \/ IdleKill
  BY <1>3, ChildKeeps
<1>4. CASE \E n \in Nodes : Delete(n) \/ \E t \in Texts : Tool(n, t)
  BY <1>4, ToolAndDeleteKeep
<1>5. CASE \E n \in Nodes, t \in Texts : Restart(n, t)
  BY <1>5, RestartKeeps
<1>6. CASE \E n \in Nodes, t \in Texts, w \in Watchers : Watch(n, t, w)
  BY <1>6, WatchKeepsLists
<1>7. CASE \E w \in Callers : Extracted(w)
  BY <1>7, ExtractedKeeps
<1>8. CASE \E w \in Callers : ExtractFails(w) \/ AnswerError(w)
  BY <1>8, ErrorsKeep
<1>9. CASE \E w \in Callers : Answer(w)
  BY <1>9, AnswerKeepsLists
<1>10. CASE \E w \in Callers : Failed(w)
  BY <1>10, FailedKeeps
<1>11. CASE UNCHANGED vars
  <2>1. Shapes' /\ Waiting'
    BY <1>11 DEF vars, ListInv, Shapes, Waiting
  <2>2. NothingForgotten'
    BY <1>11 DEF vars, ListInv, NothingForgotten, Live, Wanted, Source, Queued, AtWork
  <2> QED
    BY <2>1, <2>2 DEF ListInv
<1> QED
  BY <1>1, <1>2, <1>3, <1>4, <1>5, <1>6, <1>7, <1>8, <1>9, <1>10, <1>11 DEF Next

\* The lists invariant holds in every reachable state: what is queued is of nodes that
\* are or were there, and a call that waits for the child has the text of its node or
\* is known to be overtaken.
THEOREM ListInvInductive == Spec => []ListInv
BY InitLists, NextKeepsLists, PTL DEF Spec

\* The variables keep their types; no item of processOne is tried a fourth time.
THEOREM IndexTyped == Spec => []EmbedTypeOK
BY ListInvInductive, ListsAreTyped, PTL

\* Whatever overlaps, fails, dies and restarts, a node whose vectors are not those of
\* its text is queued, at work or given up after three attempts, unless it changed
\* while processOne was at work on it or a tool changed it.
THEOREM NoNodeForgotten == Spec => []NothingForgotten
<1>1. ListInv => NothingForgotten
  BY DEF ListInv
<1> QED
  BY <1>1, ListInvInductive, PTL
=============================================================================
