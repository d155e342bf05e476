-------------------------- MODULE Resolver_proofs --------------------------
(***************************************************************************)
(* What the stored nodes of the links are, after any operations.           *)
(*                                                                         *)
(* The properties of Resolver speak of the one node that a target resolves *)
(* to now.  The invariant speaks of every node that matches the target:    *)
(* when the best match goes, the next one must be accounted for as well.   *)
(***************************************************************************)
EXTENDS Resolver, SequenceFacts

-----------------------------------------------------------------------------
(* Resolution *)

\* A node comes before another in the order of the tiers and of the paths.
Better(r, t, m, n) ==
  \/ Tier(t, r[m]) < Tier(t, r[n])
  \/ Tier(t, r[m]) = Tier(t, r[n]) /\ Length[PathOf(r[m])] < Length[PathOf(r[n])]

\* Tiers are numbers, and paths have lengths.
LEMMA TiersAndLengths ==
  ASSUME NEW t \in Targets, NEW row \in Rows
  PROVE  Tier(t, row) \in Nat /\ PathOf(row) \in Paths /\ Length[PathOf(row)] \in Nat
<1>1. PathOf(row) \in Paths
  BY DEF PathOf, Rows, Paths
<1>2. Length[PathOf(row)] \in Nat
  BY <1>1, ResolverConstants
<1>3. Tier(t, row) \in Nat
  BY DEF Tier, NoTier
<1> QED
  BY <1>1, <1>2, <1>3

\* A key of a node is a target that matches it.
LEMMA KeysMatch ==
  ASSUME NEW t \in Targets, NEW row \in Rows, IsKey(t, row)
  PROVE  Matches(t, row)
<1>1. CASE t = [dir |-> row.dir, name |-> row.name, md |-> TRUE]
  <2>1. t.dir = row.dir /\ t.name = row.name /\ t.md
    BY <1>1
  <2> QED
    BY <2>1 DEF Matches, Tier, NoTier
<1>2. CASE t = Bare(t.name) /\ \/ t.name \in {row.title, row.name}
                               \/ Lower[t.name] = Lower[row.name]
                               \/ Nfc[t.name] = Nfc[row.name]
  <2>1. t.dir = Root /\ ~t.md
    BY <1>2 DEF Bare
  <2> QED
    BY <1>2, <2>1 DEF Matches, Tier, NoTier
<1> QED
  BY <1>1, <1>2 DEF IsKey

\* Among nodes that match there is one with no better one.
LEMMA BestExists ==
  ASSUME NEW r \in [Nodes -> Rows \cup {Nothing}], NEW t \in Targets,
         NEW hits \in SUBSET Present(r), hits # {}
  PROVE  \E n \in hits : \A m \in hits : ~Better(r, t, m, n)
<1> DEFINE tiers == {Tier(t, r[n]) : n \in hits}
<1>1. \A n \in hits : r[n] \in Rows
  BY DEF Present
<1>2. \A n \in hits : Tier(t, r[n]) \in Nat /\ Length[PathOf(r[n])] \in Nat
  BY <1>1, TiersAndLengths
<1>3. tiers \in SUBSET Nat /\ tiers # {}
  BY <1>2
<1>4. PICK k \in tiers : \A j \in tiers : k <= j
  BY <1>3, Least
<1> DEFINE first   == {n \in hits : Tier(t, r[n]) = k}
           lengths == {Length[PathOf(r[n])] : n \in first}
<1>5. lengths \in SUBSET Nat /\ lengths # {}
  BY <1>2, <1>4
<1>6. PICK j \in lengths : \A i \in lengths : j <= i
  BY <1>5, Least
<1>7. PICK n \in first : Length[PathOf(r[n])] = j
  BY <1>6
<1>8. ASSUME NEW m \in hits PROVE ~Better(r, t, m, n)
  <2>1. Tier(t, r[n]) = k /\ k <= Tier(t, r[m]) /\ k \in Nat /\ Tier(t, r[m]) \in Nat
    BY <1>2, <1>3, <1>4, <1>7
  <2>2. Tier(t, r[m]) = k => j <= Length[PathOf(r[m])]
    BY <1>6
  <2>3. j \in Nat /\ Length[PathOf(r[m])] \in Nat
    BY <1>2, <1>5
  <2> QED
    BY <1>7, <2>1, <2>2, <2>3 DEF Better
<1> QED
  BY <1>7, <1>8

\* Resolve finds the best match, or nothing when nothing matches.
LEMMA ResolveBest ==
  ASSUME NEW r \in [Nodes -> Rows \cup {Nothing}], NEW t \in Targets, NEW best, best = Resolve(r, t)
  PROVE  /\ best \in Present(r) \cup {Nothing}
         /\ best = Nothing => \A m \in Present(r) : ~Matches(t, r[m])
         /\ best # Nothing => /\ Matches(t, r[best])
                              /\ \A m \in Present(r) : Matches(t, r[m]) => ~Better(r, t, m, best)
<1> DEFINE tier == [n \in Present(r) |-> Tier(t, r[n])]
           hits == {n \in Present(r) : Matches(t, r[n])}
<1>0. Nothing \notin Present(r)
  BY ResolverConstants DEF Present
<1>1. {n \in DOMAIN tier : tier[n] # NoTier} = hits
  BY DEF Matches
<1>2. \A m, n \in hits : Before(r, tier, m, n) <=> Better(r, t, m, n)
  BY DEF Before, Better
<1>3. best = IF {n \in DOMAIN tier : tier[n] # NoTier} = {} THEN Nothing
             ELSE CHOOSE n \in {k \in DOMAIN tier : tier[k] # NoTier} :
                    \A m \in {k \in DOMAIN tier : tier[k] # NoTier} : ~Before(r, tier, m, n)
  BY Zenon DEF Resolve
<1>6. best = IF hits = {} THEN Nothing ELSE CHOOSE n \in hits : \A m \in hits : ~Before(r, tier, m, n)
  <2> HIDE DEF tier, hits
  <2> QED
    BY <1>1, <1>3
<1>4. CASE hits = {}
  BY <1>4, <1>6
<1>5. CASE hits # {}
  <2>1. \E n \in hits : \A m \in hits : ~Better(r, t, m, n)
    BY <1>5, BestExists
  <2>2. \E n \in hits : \A m \in hits : ~Before(r, tier, m, n)
    BY <1>2, <2>1
  <2> HIDE DEF tier, hits
  <2>3. best \in hits /\ \A m \in hits : ~Before(r, tier, m, best)
    BY <1>5, <1>6, <2>2
  <2>4. best \in hits /\ \A m \in hits : ~Better(r, t, m, best)
    BY <1>2, <2>3
  <2> QED
    BY <1>0, <2>4 DEF hits
<1> QED
  BY <1>4, <1>5

-----------------------------------------------------------------------------
(* Worlds.  Good says of a world what the properties say of the state: q are *)
(* the nodes that may be silent, b the links that may be bereft, L the pairs *)
(* that may be late.                                                         *)

Fits(w) ==
  /\ w = [rows |-> w.rows, edge |-> w.edge]
  /\ w.rows \in [Nodes -> Rows \cup {Nothing}]
  /\ DOMAIN w.edge \subseteq Links /\ w.edge = [l \in DOMAIN w.edge |-> w.edge[l]]
  /\ \A l \in DOMAIN w.edge : w.rows[l.from] # Nothing /\ w.edge[l] \in Present(w.rows) \cup {Nothing}

\* A stored node answers to the target, and a better one got its name later.
Answers(w, q, b, L) ==
  \A l \in DOMAIN w.edge : w.edge[l] # Nothing =>
    \/ w.edge[l] \in q /\ <<l.from, w.edge[l]>> \in L
    \/ /\ Matches(l.to, w.rows[w.edge[l]])
       /\ l \notin b => \A m \in Present(w.rows) :
            Matches(l.to, w.rows[m]) /\ Better(w.rows, l.to, m, w.edge[l]) => <<l.from, m>> \in L

\* Where nothing is stored, every match got its name later, and not by a key that a
\* refresh has seen.
Nulls(w, q, b, L) ==
  \A l \in DOMAIN w.edge : w.edge[l] = Nothing /\ l \notin b => \A m \in Present(w.rows) :
    Matches(l.to, w.rows[m]) => <<l.from, m>> \in L /\ (m \in q \/ ~IsKey(l.to, w.rows[m]))

\* What there is after a node got another row, and after links were resolved anew or left
\* without a node.
WithRow(w, n, row) == [w EXCEPT !.rows[n] = row]
RowsWith(r, n, row) == [r EXCEPT ![n] = row]
NotFrom(b, S) == {l \in b : l.from \notin S}
NotLate(L, S) == {p \in L : p[1] \notin S}
Heard(w, q, n, row) == IF w.rows[n] = row THEN q ELSE q \ {n}
Cleared(w, b, n) == b \cup {l \in DOMAIN w.edge : w.edge[l] = n}

Good(w, v, q, b, L) == Fits(w) /\ Answers(w, q, b, L) /\ (v = 1 => Nulls(w, q, b, L))

\* What may be silent, bereft or late may be more.
LEMMA Wider ==
  ASSUME NEW w, NEW v, NEW q, NEW b, NEW L, Good(w, v, q, b, L), NEW q2, NEW b2, NEW L2,
         \A n \in Present(w.rows) : n \in q => n \in q2,
         \A l \in DOMAIN w.edge : l \in b => l \in b2,
         \A s \in Present(w.rows), m \in Present(w.rows) : <<s, m>> \in L => <<s, m>> \in L2
  PROVE  Good(w, v, q2, b2, L2)
<1>1. \A l \in DOMAIN w.edge : l.from \in Present(w.rows) /\ w.edge[l] \in Present(w.rows) \cup {Nothing}
  BY DEF Good, Fits, Present, Links
<1>2. Answers(w, q2, b2, L2)
  BY <1>1 DEF Good, Answers
<1>3. v = 1 => Nulls(w, q2, b2, L2)
  BY <1>1 DEF Good, Nulls
<1> QED
  BY <1>2, <1>3 DEF Good

\* A node gets another row.
LEMMA RowSet ==
  ASSUME NEW w, NEW v, NEW q, NEW b, NEW L, Good(w, v, q, b, L), NEW n \in Nodes, NEW row \in Rows,
         w.rows[n] = row \/ (n \in q /\ \A s \in Nodes : <<s, n>> \in L), NEW x, x = WithRow(w, n, row)
  PROVE  Good(x, v, q, b, L) /\ x.rows = RowsWith(w.rows, n, row) /\ x.edge = w.edge
<1>1. x.rows = [w.rows EXCEPT ![n] = row] /\ x.edge = w.edge /\ x = [rows |-> x.rows, edge |-> x.edge]
  BY DEF Good, Fits, WithRow
<1>8. x.rows = RowsWith(w.rows, n, row)
  BY <1>1 DEF RowsWith
<1>2. /\ \A m \in Nodes : x.rows[m] = IF m = n THEN row ELSE w.rows[m]
      /\ x.rows \in [Nodes -> Rows \cup {Nothing}] /\ row # Nothing
  BY <1>1, ResolverConstants DEF Good, Fits
<1>3. /\ Present(w.rows) \subseteq Present(x.rows) /\ Present(x.rows) \subseteq Present(w.rows) \cup {n}
      /\ Present(w.rows) \subseteq Nodes
  BY <1>2 DEF Present, Good, Fits
<1>4. \A l \in DOMAIN w.edge : l.from \in Nodes /\ l \in Links
  BY DEF Good, Fits, Links
<1>5. Fits(x)
  BY <1>1, <1>2, <1>3, <1>4 DEF Good, Fits
<1>6. CASE w.rows[n] = row
  <2>1. x.rows = w.rows
    BY <1>1, <1>6 DEF Good, Fits
  <2> QED
    BY <1>1, <1>5, <1>8, <2>1 DEF Good, Answers, Nulls
<1>7. CASE n \in q /\ \A s \in Nodes : <<s, n>> \in L
  <2>1. Answers(x, q, b, L)
    BY <1>1, <1>2, <1>3, <1>4, <1>7 DEF Good, Answers, Better, Fits
  <2>2. v = 1 => Nulls(x, q, b, L)
    BY <1>1, <1>2, <1>3, <1>4, <1>7 DEF Good, Nulls
  <2> QED
    BY <1>1, <1>5, <1>8, <2>1, <2>2 DEF Good
<1> QED
  BY <1>6, <1>7

\* The links of some sources are resolved anew: nothing excuses them any more.
LEMMA RelinkKeeps ==
  ASSUME NEW w, NEW v, NEW q, NEW b, NEW L, Good(w, v, q, b, L),
         NEW S, NEW links \in SUBSET Links, \A l \in links : l.from \in S /\ w.rows[l.from] # Nothing,
         NEW x, x = Relinked(w, S, links)
  PROVE  /\ Good(x, v, q, NotFrom(b, S), NotLate(L, S))
         /\ x.rows = w.rows
         /\ \A l \in DOMAIN x.edge : l.from \notin S => l \in DOMAIN w.edge /\ x.edge[l] = w.edge[l]
<1> DEFINE E == links \cup {l \in DOMAIN w.edge : l.from \notin S}
           C == NotFrom(b, S)
           M == NotLate(L, S)
<1>1. /\ x.rows = w.rows /\ x = [rows |-> x.rows, edge |-> x.edge]
      /\ x.edge = [l \in E |-> IF l.from \in S THEN Resolve(w.rows, l.to) ELSE w.edge[l]]
  BY DEF Relinked, Good, Fits
<1>2. w.rows \in [Nodes -> Rows \cup {Nothing}] /\ E \subseteq Links
  BY DEF Good, Fits
<1> HIDE DEF E
<1>3. DOMAIN x.edge = E /\ x.edge = [l \in E |-> x.edge[l]]
  BY <1>1
<1>4. ASSUME NEW l \in E, l.from \notin S
      PROVE  l \in DOMAIN w.edge /\ x.edge[l] = w.edge[l]
  BY <1>1, <1>4 DEF E
<1>5. ASSUME NEW l \in E, l.from \in S
      PROVE  /\ l \in links /\ x.edge[l] = Resolve(w.rows, l.to) /\ l.to \in Targets
  BY <1>1, <1>2, <1>5 DEF E, Links
<1>6. ASSUME NEW l \in E, l.from \in S
      PROVE  /\ x.edge[l] \in Present(w.rows) \cup {Nothing}
             /\ x.edge[l] = Nothing => \A m \in Present(w.rows) : ~Matches(l.to, w.rows[m])
             /\ x.edge[l] # Nothing =>
                  /\ Matches(l.to, w.rows[x.edge[l]])
                  /\ \A m \in Present(w.rows) :
                       Matches(l.to, w.rows[m]) => ~Better(w.rows, l.to, m, x.edge[l])
  BY <1>2, <1>5, <1>6, ResolveBest
<1>7. Fits(x)
  <2>1. \A l \in E : w.rows[l.from] # Nothing /\ x.edge[l] \in Present(w.rows) \cup {Nothing}
    BY <1>4, <1>5, <1>6 DEF Good, Fits
  <2> QED
    BY <1>1, <1>2, <1>3, <2>1 DEF Fits
<1>8. \A l \in E : l.from \notin S => (l \in b => l \in C) /\ \A m : <<l.from, m>> \in L => <<l.from, m>> \in M
  BY DEF NotFrom, NotLate
<1> HIDE DEF C, M
<1>9. Answers(x, q, C, M)
  <2> SUFFICES ASSUME NEW l \in E, x.edge[l] # Nothing
               PROVE  \/ x.edge[l] \in q /\ <<l.from, x.edge[l]>> \in M
                      \/ /\ Matches(l.to, x.rows[x.edge[l]])
                         /\ l \notin C => \A m \in Present(x.rows) :
                              Matches(l.to, x.rows[m]) /\ Better(x.rows, l.to, m, x.edge[l])
                                => <<l.from, m>> \in M
    BY <1>3 DEF Answers
  <2>1. CASE l.from \in S
    BY <1>1, <1>6, <2>1
  <2>2. CASE l.from \notin S
    BY <1>1, <1>4, <1>8, <2>2 DEF Good, Answers
  <2> QED
    BY <2>1, <2>2
<1>10. v = 1 => Nulls(x, q, C, M)
  <2> SUFFICES ASSUME v = 1, NEW l \in E, x.edge[l] = Nothing, l \notin C, NEW m \in Present(x.rows),
                      Matches(l.to, x.rows[m])
               PROVE  <<l.from, m>> \in M /\ (m \in q \/ ~IsKey(l.to, x.rows[m]))
    BY <1>3 DEF Nulls
  <2>1. CASE l.from \in S
    BY <1>1, <1>6, <2>1
  <2>2. CASE l.from \notin S
    BY <1>1, <1>4, <1>8, <2>2 DEF Good, Nulls
  <2> QED
    BY <2>1, <2>2
<1> QED
  BY <1>1, <1>3, <1>4, <1>7, <1>9, <1>10 DEF Good, C, M

\* A node's keys are looked for among the links without a node: it is silent no longer,
\* when the links that point to it need no excuse for it.
LEMMA RefreshKeeps ==
  ASSUME NEW w, NEW q, NEW b, NEW L, NEW n \in Nodes, w.rows[n] # Nothing,
         Fits(w), Answers(w, q \ {n}, b, L), Nulls(w, q, b, L),
         NEW x, x = RefreshOnCreate(w, n)
  PROVE  Good(x, 1, q \ {n}, b, L) /\ x.rows = w.rows
<1> DEFINE E == DOMAIN w.edge
<1>1. /\ x.rows = w.rows /\ x = [rows |-> x.rows, edge |-> x.edge]
      /\ x.edge = [l \in E |-> IF w.edge[l] = Nothing /\ IsKey(l.to, w.rows[n]) THEN n ELSE w.edge[l]]
  BY DEF RefreshOnCreate, Fits
<1>2. /\ E \subseteq Links /\ n \in Present(w.rows) /\ w.rows[n] \in Rows
      /\ \A l \in E : l.to \in Targets
  BY DEF Fits, Present, Links
<1>3. DOMAIN x.edge = E /\ x.edge = [l \in E |-> x.edge[l]] /\ n # Nothing
  BY <1>1, ResolverConstants
<1>4. \A l \in E : \/ x.edge[l] = n /\ w.edge[l] = Nothing /\ IsKey(l.to, w.rows[n])
                   \/ x.edge[l] = w.edge[l] /\ ~(w.edge[l] = Nothing /\ IsKey(l.to, w.rows[n]))
  BY <1>1
<1> HIDE DEF E
<1>5. Fits(x)
  BY <1>1, <1>2, <1>3, <1>4 DEF Fits, E
<1>6. Answers(x, q \ {n}, b, L)
  <2> SUFFICES ASSUME NEW l \in E, x.edge[l] # Nothing
               PROVE  \/ x.edge[l] \in q \ {n} /\ <<l.from, x.edge[l]>> \in L
                      \/ /\ Matches(l.to, x.rows[x.edge[l]])
                         /\ l \notin b => \A m \in Present(x.rows) :
                              Matches(l.to, x.rows[m]) /\ Better(x.rows, l.to, m, x.edge[l])
                                => <<l.from, m>> \in L
    BY <1>3 DEF Answers
  <2>1. CASE x.edge[l] = n /\ w.edge[l] = Nothing /\ IsKey(l.to, w.rows[n])
    <3>1. Matches(l.to, w.rows[n])
      BY <1>2, <2>1, KeysMatch
    <3> QED
      BY <1>1, <2>1, <3>1 DEF Nulls, E
  <2>2. CASE x.edge[l] = w.edge[l]
    BY <1>1, <2>2 DEF Answers, E
  <2> QED
    BY <1>4, <2>1, <2>2
<1>7. Nulls(x, q \ {n}, b, L)
  <2> SUFFICES ASSUME NEW l \in E, x.edge[l] = Nothing, l \notin b, NEW m \in Present(x.rows),
                      Matches(l.to, x.rows[m])
               PROVE  <<l.from, m>> \in L /\ (m \in q \ {n} \/ ~IsKey(l.to, x.rows[m]))
    BY <1>3 DEF Nulls
  <2>1. w.edge[l] = Nothing /\ ~IsKey(l.to, w.rows[n])
    BY <1>3, <1>4
  <2> QED
    BY <1>1, <2>1 DEF Nulls, E
<1> QED
  BY <1>1, <1>5, <1>6, <1>7 DEF Good

\* After a rename the links that pointed to the node are resolved anew first.
LEMMA RenameRefreshKeeps ==
  ASSUME NEW w, NEW q, NEW b, NEW L, Good(w, 1, q, b, L), NEW n \in Nodes, w.rows[n] # Nothing,
         NEW x, x = RefreshOnRename(w, n)
  PROVE  Good(x, 1, q \ {n}, b, L) /\ x.rows = w.rows
<1> DEFINE E        == DOMAIN w.edge
           affected == {l.to : l \in {y \in E : w.edge[y] = n}}
           renewed  == [l \in E |-> IF w.edge[l] \in {n, Nothing} /\ l.to \in affected
                                    THEN Resolve(w.rows, l.to) ELSE w.edge[l]]
           y        == [w EXCEPT !.edge = renewed]
<1>1. y.rows = w.rows /\ y.edge = renewed /\ y = [rows |-> y.rows, edge |-> y.edge]
  BY DEF Good, Fits
<1>2. x = RefreshOnCreate(y, n)
  BY DEF RefreshOnRename
<1>3. w.rows \in [Nodes -> Rows \cup {Nothing}] /\ \A l \in E : l.to \in Targets /\ l \in Links
  BY DEF Good, Fits, Links
<1>4. DOMAIN y.edge = E /\ y.edge = [l \in E |-> y.edge[l]]
  BY <1>1
<1>5. ASSUME NEW l \in E
      PROVE  \/ /\ y.edge[l] = Resolve(w.rows, l.to)
                /\ w.edge[l] \in {n, Nothing}
             \/ y.edge[l] = w.edge[l] /\ w.edge[l] # n
  BY <1>1
<1>6. ASSUME NEW l \in E, y.edge[l] = Resolve(w.rows, l.to)
      PROVE  /\ y.edge[l] \in Present(w.rows) \cup {Nothing}
             /\ y.edge[l] = Nothing => \A m \in Present(w.rows) : ~Matches(l.to, w.rows[m])
             /\ y.edge[l] # Nothing =>
                  /\ Matches(l.to, w.rows[y.edge[l]])
                  /\ \A m \in Present(w.rows) :
                       Matches(l.to, w.rows[m]) => ~Better(w.rows, l.to, m, y.edge[l])
  BY <1>3, <1>6, ResolveBest
<1> HIDE DEF y, renewed
<1>7. Fits(y)
  <2>1. \A l \in E : w.rows[l.from] # Nothing /\ y.edge[l] \in Present(w.rows) \cup {Nothing}
    BY <1>5, <1>6 DEF Good, Fits
  <2> QED
    BY <1>1, <1>3, <1>4, <2>1 DEF Fits
<1>8. Answers(y, q \ {n}, b, L)
  <2> SUFFICES ASSUME NEW l \in E, y.edge[l] # Nothing
               PROVE  \/ y.edge[l] \in q \ {n} /\ <<l.from, y.edge[l]>> \in L
                      \/ /\ Matches(l.to, y.rows[y.edge[l]])
                         /\ l \notin b => \A m \in Present(y.rows) :
                              Matches(l.to, y.rows[m]) /\ Better(y.rows, l.to, m, y.edge[l])
                                => <<l.from, m>> \in L
    BY <1>4 DEF Answers
  <2>1. CASE y.edge[l] = Resolve(w.rows, l.to)
    BY <1>1, <1>6, <2>1
  <2>2. CASE y.edge[l] = w.edge[l] /\ w.edge[l] # n
    BY <1>1, <2>2 DEF Good, Answers
  <2> QED
    BY <1>5, <2>1, <2>2
<1>9. Nulls(y, q, b, L)
  <2> SUFFICES ASSUME NEW l \in E, y.edge[l] = Nothing, l \notin b, NEW m \in Present(y.rows),
                      Matches(l.to, y.rows[m])
               PROVE  <<l.from, m>> \in L /\ (m \in q \/ ~IsKey(l.to, y.rows[m]))
    BY <1>4 DEF Nulls
  <2>1. CASE y.edge[l] = Resolve(w.rows, l.to)
    BY <1>1, <1>6, <2>1
  <2>2. CASE y.edge[l] = w.edge[l]
    BY <1>1, <2>2 DEF Good, Nulls
  <2> QED
    BY <1>5, <2>1, <2>2
<1> QED
  BY <1>1, <1>2, <1>7, <1>8, <1>9, RefreshKeeps

\* A deletion takes the node's links along, and leaves those to it without a node.
LEMMA DeletionKeeps ==
  ASSUME NEW w, NEW v, NEW q, NEW b, NEW L, Good(w, v, q, b, L), NEW n \in Nodes,
         NEW x, x = ExecuteDeletion(w, n)
  PROVE  Good(x, v, q, Cleared(w, b, n), L) /\ x.rows = RowsWith(w.rows, n, Nothing)
<1> DEFINE E == DOMAIN w.edge \ Own(w.edge, n)
           c == Cleared(w, b, n)
<1>1. /\ x.rows = [w.rows EXCEPT ![n] = Nothing] /\ x = [rows |-> x.rows, edge |-> x.edge]
      /\ x.edge = [l \in E |-> IF w.edge[l] = n THEN Nothing ELSE w.edge[l]]
  BY DEF ExecuteDeletion
<1>12. x.rows = RowsWith(w.rows, n, Nothing)
  BY <1>1 DEF RowsWith
<1>2. w.rows \in [Nodes -> Rows \cup {Nothing}] /\ DOMAIN w.edge \subseteq Links
  BY DEF Good, Fits
<1>3. /\ \A l \in E : l \in DOMAIN w.edge /\ l.from # n /\ l.from \in Nodes
      /\ E \subseteq Links
  BY <1>2 DEF Own, Links
<1>4. \A l \in DOMAIN w.edge : l \in b \/ w.edge[l] = n => l \in c
  BY DEF Cleared
<1> HIDE DEF E, c
<1>5. DOMAIN x.edge = E /\ x.edge = [l \in E |-> x.edge[l]]
  BY <1>1
<1>6. \A l \in E : \/ w.edge[l] = n /\ x.edge[l] = Nothing
                   \/ w.edge[l] # n /\ x.edge[l] = w.edge[l]
  BY <1>1
<1>7. /\ \A m \in Nodes : x.rows[m] = IF m = n THEN Nothing ELSE w.rows[m]
      /\ x.rows \in [Nodes -> Rows \cup {Nothing}]
      /\ \A m \in Present(x.rows) : m \in Present(w.rows) /\ m # n /\ m \in Nodes /\ x.rows[m] = w.rows[m]
      /\ \A m \in Present(w.rows) : m # n => m \in Present(x.rows)
  BY <1>1, <1>2 DEF Present
<1>8. Nothing \notin Nodes
  BY ResolverConstants
<1>9. Fits(x)
  <2>1. \A l \in E : x.rows[l.from] # Nothing /\ x.edge[l] \in Present(x.rows) \cup {Nothing}
    BY <1>3, <1>6, <1>7 DEF Good, Fits
  <2> QED
    BY <1>1, <1>3, <1>5, <1>7, <2>1 DEF Fits
<1>10. Answers(x, q, c, L)
  <2> SUFFICES ASSUME NEW l \in E, x.edge[l] # Nothing
               PROVE  \/ x.edge[l] \in q /\ <<l.from, x.edge[l]>> \in L
                      \/ /\ Matches(l.to, x.rows[x.edge[l]])
                         /\ l \notin c => \A m \in Present(x.rows) :
                              Matches(l.to, x.rows[m]) /\ Better(x.rows, l.to, m, x.edge[l])
                                => <<l.from, m>> \in L
    BY <1>5 DEF Answers
  <2>1. x.edge[l] = w.edge[l] /\ w.edge[l] # n /\ l \in DOMAIN w.edge /\ (l \notin c => l \notin b)
    BY <1>3, <1>4, <1>6
  <2>2. x.edge[l] \in Present(x.rows) /\ x.rows[x.edge[l]] = w.rows[w.edge[l]]
    BY <1>5, <1>7, <1>9, <2>1 DEF Fits
  <2>3. \A m \in Present(x.rows) : Better(x.rows, l.to, m, x.edge[l]) => Better(w.rows, l.to, m, w.edge[l])
    BY <1>7, <2>1, <2>2 DEF Better
  <2> QED
    BY <1>7, <2>1, <2>2, <2>3 DEF Good, Answers
<1>11. v = 1 => Nulls(x, q, c, L)
  <2> SUFFICES ASSUME v = 1, NEW l \in E, x.edge[l] = Nothing, l \notin c, NEW m \in Present(x.rows),
                      Matches(l.to, x.rows[m])
               PROVE  <<l.from, m>> \in L /\ (m \in q \/ ~IsKey(l.to, x.rows[m]))
    BY <1>5 DEF Nulls
  <2> QED
    BY <1>3, <1>4, <1>6, <1>7 DEF Good, Nulls
<1> QED
  BY <1>9, <1>10, <1>11, <1>12 DEF Good, c

\* executeMutation: the links of the node are resolved anew, and a name that it brings
\* along is refreshed.
LEMMA MutationKeeps ==
  ASSUME NEW w, NEW q, NEW b, NEW L, Good(w, 1, q, b, L), NEW n \in Nodes, NEW row \in Rows,
         NEW links \in SUBSET Links, \A l \in links : l.from = n,
         w.rows[n] = row \/ (n \in q /\ \A s \in Nodes : <<s, n>> \in L),
         NEW x, x = ExecuteMutation(w, n, row, links)
  PROVE  /\ Good(x, 1, Heard(w, q, n, row), NotFrom(b, {n}), NotLate(L, {n}))
         /\ x.rows = RowsWith(w.rows, n, row)
<1> DEFINE y == WithRow(w, n, row)
           z == Relinked(y, {n}, links)
           C == NotFrom(b, {n})
           M == NotLate(L, {n})
<1>1. Good(y, 1, q, b, L) /\ y.rows = RowsWith(w.rows, n, row) /\ y.edge = w.edge
  <2>1. y = WithRow(w, n, row)
    OBVIOUS
  <2> HIDE DEF y
  <2> QED
    BY <2>1, RowSet
<1>2. w.rows \in [Nodes -> Rows \cup {Nothing}] /\ row # Nothing
  BY ResolverConstants DEF Good, Fits
<1>3. y.rows[n] = row
  BY <1>1, <1>2 DEF RowsWith
<1> HIDE DEF y
<1>4. \A l \in links : l.from \in {n} /\ y.rows[l.from] # Nothing
  BY <1>2, <1>3
<1>5. /\ Good(z, 1, q, C, M) /\ z.rows = y.rows
      /\ \A l \in DOMAIN z.edge : l.from \notin {n} => l \in DOMAIN y.edge /\ z.edge[l] = y.edge[l]
  <2>1. z = Relinked(y, {n}, links)
    OBVIOUS
  <2> HIDE DEF z
  <2> QED
    BY <1>1, <1>4, <2>1, RelinkKeeps
<1>6. x = IF w.rows[n] = Nothing THEN RefreshOnCreate(z, n)
          ELSE IF w.rows[n] # row THEN RefreshOnRename(z, n) ELSE z
  BY DEF ExecuteMutation, WithRow, y
<1>7. \A m : <<n, m>> \notin M
  BY DEF NotLate
<1> HIDE DEF z, C, M
<1>8. z.rows[n] # Nothing
  BY <1>2, <1>3, <1>5
<1>9. CASE w.rows[n] = Nothing
  <2>1. \A l \in DOMAIN z.edge : l.from # n => z.edge[l] # n
    <3>1. \A l \in DOMAIN w.edge : w.edge[l] # n
      BY <1>9, ResolverConstants DEF Good, Fits, Present
    <3> QED
      BY <1>1, <1>5, <3>1
  <2>2. Answers(z, q \ {n}, C, M)
    BY <1>5, <1>7, <2>1 DEF Good, Answers
  <2>3. Fits(z) /\ Nulls(z, q, C, M) /\ w.rows[n] # row /\ x = RefreshOnCreate(z, n)
    BY <1>2, <1>5, <1>6, <1>9 DEF Good
  <2>4. Good(x, 1, q \ {n}, C, M) /\ x.rows = z.rows
    BY <1>8, <2>2, <2>3, RefreshKeeps
  <2> QED
    BY <1>1, <1>5, <2>3, <2>4 DEF C, M, Heard
<1>10. CASE w.rows[n] # Nothing /\ w.rows[n] # row
  <2>1. x = RefreshOnRename(z, n)
    BY <1>6, <1>10
  <2>2. Good(x, 1, q \ {n}, C, M) /\ x.rows = z.rows
    BY <1>5, <1>8, <2>1, RenameRefreshKeeps
  <2> QED
    BY <1>1, <1>5, <1>10, <2>2 DEF C, M, Heard
<1>11. CASE w.rows[n] = row
  <2>1. x = z
    BY <1>2, <1>6, <1>11
  <2> QED
    BY <1>1, <1>5, <1>11, <2>1 DEF C, M, Heard
<1> QED
  BY <1>9, <1>10, <1>11

-----------------------------------------------------------------------------
(* The invariant.  Undo puts the rows of the latest operation back, in an     *)
(* order that matters only for a node that comes or goes: no other node is     *)
(* part of such an operation.                                                  *)

DistinctPaths(r) == \A m, n \in Present(r) : m # n => PathOf(r[m]) # PathOf(r[n])

\* The rows with those of the snapshots put back.
PutBack(r, snaps) == [n \in Nodes |-> IF n \in DOMAIN snaps THEN snaps[n].row ELSE r[n]]

LastOK(r, snaps) ==
  /\ DOMAIN snaps \subseteq Nodes
  /\ \A n \in DOMAIN snaps : /\ snaps[n].row \in Rows \cup {Nothing}
                             /\ snaps[n].links \subseteq Links
                             /\ \A l \in snaps[n].links : l.from = n
  /\ \A n \in DOMAIN snaps : r[n] = Nothing \/ snaps[n].row = Nothing => DOMAIN snaps = {n}
  /\ DistinctPaths(PutBack(r, snaps))

ResolverInv ==
  /\ Good(Here, version, silent, bereft, late)
  /\ DistinctPaths(rows) /\ LastOK(rows, last)
  /\ version \in 0 .. 1 /\ changes \in 0 .. MaxChanges
  /\ silent \subseteq Present(rows) /\ bereft \subseteq DOMAIN edge /\ late \subseteq Nodes \X Nodes

\* What an operation has to show to commit a world.
LEMMA CommitKeeps ==
  ASSUME ResolverInv, changes < MaxChanges,
         NEW w, NEW wrote, NEW after, NEW told, NEW snaps, Commit(w, wrote, after, told, snaps),
         NEW q, NEW b, NEW L, Good(w, version, q, b, L),
         \A m \in Present(w.rows) : m \in q => m \notin told /\ (m \in silent \/ w.rows[m] # rows[m]),
         \A l \in DOMAIN w.edge : l \in b => /\ l.from \notin wrote
                                             /\ l \in bereft \/ (edge[l] # Nothing /\ w.rows[edge[l]] = Nothing),
         \A s, m \in Present(w.rows) : <<s, m>> \in L =>
            (<<s, m>> \in late /\ s \notin wrote) \/ (s \notin after /\ w.rows[m] # rows[m]),
         DistinctPaths(w.rows), LastOK(w.rows, snaps)
  PROVE  ResolverInv'
<1>1. /\ rows' = w.rows /\ edge' = w.edge /\ last' = snaps /\ version' = version
      /\ changes' = changes + 1
  BY DEF Commit
<1>2. /\ silent' = ((silent \cup {n \in Nodes : w.rows[n] # rows[n]}) \ told) \cap Present(w.rows)
      /\ late' = {p \in late : p[1] \in Present(w.rows) \ wrote}
                   \cup ((Present(w.rows) \ after) \X {n \in Nodes : w.rows[n] # rows[n]})
      /\ bereft' = {l \in DOMAIN w.edge :
                      /\ l.from \notin wrote
                      /\ l \in bereft \/ (edge[l] # Nothing /\ w.rows[edge[l]] = Nothing)}
  BY DEF Commit
<1>3. Present(w.rows) \subseteq Nodes
  BY DEF Present
<1>4. /\ silent' \subseteq Present(w.rows) /\ bereft' \subseteq DOMAIN w.edge
      /\ late' \subseteq Nodes \X Nodes
  BY <1>2, <1>3 DEF ResolverInv
<1>5. \A m \in Present(w.rows) : m \in q => m \in silent'
  BY <1>2, <1>3
<1>6. \A l \in DOMAIN w.edge : l \in b => l \in bereft'
  BY <1>2
<1>7. ASSUME NEW s \in Present(w.rows), NEW m \in Present(w.rows), <<s, m>> \in L
      PROVE  <<s, m>> \in late'
  <2>1. CASE <<s, m>> \in late /\ s \notin wrote
    BY <1>2, <2>1
  <2>2. CASE s \notin after /\ w.rows[m] # rows[m]
    BY <1>2, <1>3, <2>2
  <2> QED
    BY <1>7, <2>1, <2>2
<1>8. Good(w, version, silent', bereft', late')
  BY <1>5, <1>6, <1>7, Wider
<1>9. w = [rows |-> w.rows, edge |-> w.edge]
  BY DEF Good, Fits
<1>10. Good([rows |-> rows', edge |-> edge'], version', silent', bereft', late')
  BY <1>1, <1>8, <1>9
<1>11. changes' \in 0 .. MaxChanges /\ version' \in 0 .. 1
  BY <1>1, ResolverConstants DEF ResolverInv
<1>12. Good(Here, version, silent, bereft, late)'
  BY <1>10 DEF Here
<1>13. DistinctPaths(rows)' /\ LastOK(rows, last)'
  BY <1>1
<1> QED
  BY <1>1, <1>4, <1>11, <1>12, <1>13 DEF ResolverInv

-----------------------------------------------------------------------------
(* Operations on one node. *)

\* Who has another name when a node gets a row, and which links that is too late for.
Named(n, row) == IF rows[n] = row THEN {} ELSE {n}
LateFor(n, row) == late \cup (Nodes \X Named(n, row))

\* The world as it is, when a node is about to get a row.
LEMMA StartGood ==
  ASSUME ResolverInv, NEW n \in Nodes, NEW row
  PROVE  /\ Good(Here, version, silent \cup Named(n, row), bereft, LateFor(n, row))
         /\ \/ Here.rows[n] = row
            \/ n \in silent \cup Named(n, row) /\ \A s \in Nodes : <<s, n>> \in LateFor(n, row)
         /\ Here.rows = rows /\ Here.edge = edge /\ rows \in [Nodes -> Rows \cup {Nothing}]
         /\ DOMAIN edge \subseteq Links /\ \A l \in DOMAIN edge : rows[l.from] # Nothing
<1>1. Here.rows = rows /\ Here.edge = edge
  BY DEF Here
<1>2. Good(Here, version, silent \cup Named(n, row), bereft, LateFor(n, row))
  <2>1. \A m : m \in silent => m \in silent \cup Named(n, row)
    OBVIOUS
  <2>2. \A s, m : <<s, m>> \in late => <<s, m>> \in LateFor(n, row)
    BY DEF LateFor
  <2>3. Good(Here, version, silent, bereft, late)
    BY DEF ResolverInv
  <2> QED
    BY <2>1, <2>2, <2>3, Wider
<1>3. \/ Here.rows[n] = row
      \/ n \in silent \cup Named(n, row) /\ \A s \in Nodes : <<s, n>> \in LateFor(n, row)
  BY <1>1 DEF Named, LateFor
<1> QED
  BY <1>1, <1>2, <1>3 DEF Good, Fits

\* What a set of snapshots taken now has to show for the operation that follows.
LEMMA SnapsOK ==
  ASSUME ResolverInv, NEW set \in SUBSET Nodes, NEW r,
         \A m \in Nodes \ set : r[m] = rows[m],
         (\E n : set = {n}) \/ \A m \in set : r[m] # Nothing /\ rows[m] # Nothing
  PROVE  LastOK(r, Snaps(Here, set))
<1> DEFINE snaps == Snaps(Here, set)
<1>1. /\ DOMAIN snaps = set
      /\ \A n \in set : snaps[n].row = rows[n] /\ snaps[n].links = Own(edge, n)
  BY DEF Snaps, Here
<1>2. rows \in [Nodes -> Rows \cup {Nothing}] /\ DOMAIN edge \subseteq Links /\ DistinctPaths(rows)
  BY DEF ResolverInv, Good, Fits, Here
<1> HIDE DEF snaps
<1>3. \A n \in set : /\ snaps[n].row \in Rows \cup {Nothing}
                     /\ snaps[n].links \subseteq Links
                     /\ \A l \in snaps[n].links : l.from = n
  BY <1>1, <1>2 DEF Own
<1>4. PutBack(r, snaps) = rows
  BY <1>1, <1>2 DEF PutBack
<1>5. \A n \in set : r[n] = Nothing \/ snaps[n].row = Nothing => set = {n}
  BY <1>1
<1> QED
  BY <1>1, <1>2, <1>3, <1>4, <1>5 DEF LastOK, snaps

\* Nothing can be undone when there are no snapshots.
LEMMA NoSnapsOK ==
  ASSUME NEW r \in [Nodes -> Rows \cup {Nothing}], DistinctPaths(r)
  PROVE  LastOK(r, NoSnaps)
<1>1. DOMAIN NoSnaps = {}
  BY DEF NoSnaps, Snaps
<1>2. PutBack(r, NoSnaps) = r
  BY <1>1 DEF PutBack
<1> QED
  BY <1>1, <1>2 DEF LastOK

\* A row at a free path, or where the node is, leaves the paths apart.
LEMMA PathsApart ==
  ASSUME ResolverInv, NEW n \in Nodes, NEW row \in Rows \cup {Nothing},
         \/ row = Nothing
         \/ Free(PathOf(row))
         \/ rows[n] # Nothing /\ PathOf(row) = PathOf(rows[n])
  PROVE  DistinctPaths(RowsWith(rows, n, row))
<1>1. rows \in [Nodes -> Rows \cup {Nothing}] /\ DistinctPaths(rows)
  BY DEF ResolverInv, Good, Fits, Here
<1>2. \A m \in Nodes : RowsWith(rows, n, row)[m] = IF m = n THEN row ELSE rows[m]
  BY <1>1 DEF RowsWith
<1> QED
  BY <1>1, <1>2 DEF DistinctPaths, Present, Free

\* What an operation has to show when one node got a row.
LEMMA RowCommitKeeps ==
  ASSUME ResolverInv, changes < MaxChanges, NEW n \in Nodes, NEW row \in Rows,
         NEW w, w.rows = RowsWith(rows, n, row),
         NEW wrote, NEW after, after \subseteq wrote, NEW told, NEW snaps,
         Commit(w, wrote, after, told, snaps),
         NEW q, \A m \in q : m \notin told /\ m \in silent \cup Named(n, row),
         Good(w, version, q, NotFrom(bereft, wrote), NotLate(LateFor(n, row), wrote)),
         DistinctPaths(w.rows), LastOK(w.rows, snaps)
  PROVE  ResolverInv'
<1>1. rows \in [Nodes -> Rows \cup {Nothing}]
  BY DEF ResolverInv, Good, Fits, Here
<1>2. \A m \in Named(n, row) : w.rows[m] # rows[m]
  BY <1>1 DEF Named, RowsWith
<1>3. \A m \in Present(w.rows) : m \in q => m \notin told /\ (m \in silent \/ w.rows[m] # rows[m])
  BY <1>2
<1>4. \A l \in DOMAIN w.edge : l \in NotFrom(bereft, wrote) =>
        /\ l.from \notin wrote
        /\ l \in bereft \/ (edge[l] # Nothing /\ w.rows[edge[l]] = Nothing)
  BY DEF NotFrom
<1>5. \A s, m \in Present(w.rows) : <<s, m>> \in NotLate(LateFor(n, row), wrote) =>
        (<<s, m>> \in late /\ s \notin wrote) \/ (s \notin after /\ w.rows[m] # rows[m])
  BY <1>2 DEF NotLate, LateFor
<1> QED
  BY <1>3, <1>4, <1>5, CommitKeeps

\* A mutation of one node, as the tools and the watcher commit it.
LEMMA MutationCommits ==
  ASSUME ResolverInv, version = 1, changes < MaxChanges, NEW n \in Nodes, NEW row \in Rows,
         NEW links \in SUBSET Links, \A l \in links : l.from = n,
         NEW told, told = {} \/ (told = {n} /\ rows[n] # row),
         NEW snaps, snaps = NoSnaps \/ snaps = Snaps(Here, {n}),
         Commit(ExecuteMutation(Here, n, row, links), {n}, {n}, told, snaps),
         DistinctPaths(RowsWith(rows, n, row))
  PROVE  ResolverInv'
<1> DEFINE w == ExecuteMutation(Here, n, row, links)
           q == IF rows[n] = row THEN silent \cup Named(n, row) ELSE (silent \cup Named(n, row)) \ {n}
<1>0. w = ExecuteMutation(Here, n, row, links)
  OBVIOUS
<1> HIDE DEF w
<1>1. /\ Good(w, 1, q, NotFrom(bereft, {n}), NotLate(LateFor(n, row), {n}))
      /\ w.rows = RowsWith(rows, n, row) /\ rows \in [Nodes -> Rows \cup {Nothing}]
  <2>1. /\ Good(Here, 1, silent \cup Named(n, row), bereft, LateFor(n, row))
        /\ \/ Here.rows[n] = row
           \/ n \in silent \cup Named(n, row) /\ \A s \in Nodes : <<s, n>> \in LateFor(n, row)
        /\ Here.rows = rows /\ rows \in [Nodes -> Rows \cup {Nothing}]
    BY StartGood
  <2>2. /\ Good(w, 1, Heard(Here, silent \cup Named(n, row), n, row),
                NotFrom(bereft, {n}), NotLate(LateFor(n, row), {n}))
        /\ w.rows = RowsWith(Here.rows, n, row)
    BY <1>0, <2>1, MutationKeeps
  <2> QED
    BY <2>1, <2>2 DEF Heard
<1>2. \A m \in q : m \notin told /\ m \in silent \cup Named(n, row)
  BY DEF Named
<1>3. LastOK(w.rows, snaps)
  <2>1. \A m \in Nodes \ {n} : w.rows[m] = rows[m]
    BY <1>1 DEF RowsWith
  <2>2. w.rows \in [Nodes -> Rows \cup {Nothing}]
    BY <1>1 DEF RowsWith
  <2> QED
    BY <1>1, <2>1, <2>2, SnapsOK, NoSnapsOK
<1> HIDE DEF q
<1> QED
  BY <1>0, <1>1, <1>2, <1>3, RowCommitKeeps

\* The texts of a node are sets of its links.
LEMMA ContentIsLinks ==
  ASSUME NEW n \in Nodes, NEW links \in Content(n)
  PROVE  links \in SUBSET Links /\ \A l \in links : l.from = n
BY ResolverConstants DEF Content, Links

\* A row made of a title is a row.
LEMMA RowAtIsRow ==
  ASSUME NEW d \in Dirs, NEW x \in Names
  PROVE  RowAt(d, x) \in Rows /\ FileName[x] \in Names
BY ResolverConstants DEF RowAt, Rows

\* A creation: the new name is looked for.
LEMMA CreateKeeps ==
  ASSUME ResolverInv, NEW n \in Nodes, NEW d \in Dirs, NEW x \in Names, Create(n, d, x)
  PROVE  ResolverInv'
<1>1. PICK links \in Content(n) :
        Commit(ExecuteMutation(Here, n, RowAt(d, x), links), {n}, {n}, {n}, Snaps(Here, {n}))
  BY DEF Create
<1>2. /\ version = 1 /\ changes < MaxChanges /\ rows[n] = Nothing /\ RowAt(d, x) \in Rows
      /\ rows[n] # RowAt(d, x) /\ Free(PathOf(RowAt(d, x)))
  BY RowAtIsRow, ResolverConstants DEF Create, Allowed
<1>3. DistinctPaths(RowsWith(rows, n, RowAt(d, x)))
  BY <1>2, PathsApart
<1> QED
  BY <1>1, <1>2, <1>3, ContentIsLinks, MutationCommits

\* An update: the name stays.
LEMMA UpdateKeeps ==
  ASSUME ResolverInv, NEW n \in Nodes, Update(n)
  PROVE  ResolverInv'
<1>1. PICK links \in Content(n) :
        Commit(ExecuteMutation(Here, n, rows[n], links), {n}, {n}, {}, Snaps(Here, {n}))
  BY DEF Update
<1>2. version = 1 /\ changes < MaxChanges /\ rows[n] \in Rows /\ rows[n] # Nothing
  BY StartGood DEF Update, Allowed
<1>3. DistinctPaths(RowsWith(rows, n, rows[n]))
  BY <1>2, PathsApart
<1> QED
  BY <1>1, <1>2, <1>3, ContentIsLinks, MutationCommits

\* A save may bring a new title along.
LEMMA SaveKeeps ==
  ASSUME ResolverInv, NEW n \in Nodes, Save(n)
  PROVE  ResolverInv'
<1> DEFINE row  == [rows[n] EXCEPT !.title = rows[n].name]
           told == IF row = rows[n] THEN {} ELSE {n}
<1>1. PICK links \in Content(n) : Commit(ExecuteMutation(Here, n, row, links), {n}, {n}, told, NoSnaps)
  BY DEF Save
<1>2. version = 1 /\ changes < MaxChanges /\ rows[n] \in Rows /\ rows[n] # Nothing
  BY StartGood DEF Save, Allowed
<1>3. row \in Rows /\ PathOf(row) = PathOf(rows[n])
  BY <1>2 DEF Rows, PathOf
<1>4. told = {} \/ (told = {n} /\ rows[n] # row)
  OBVIOUS
<1> HIDE DEF row, told
<1>5. DistinctPaths(RowsWith(rows, n, row))
  BY <1>2, <1>3, PathsApart
<1> QED
  BY <1>1, <1>2, <1>3, <1>4, <1>5, ContentIsLinks, MutationCommits

\* A deletion: what pointed to the node is bereft.
LEMMA DeleteKeeps ==
  ASSUME ResolverInv, NEW n \in Nodes, Delete(n)
  PROVE  ResolverInv'
<1> DEFINE w == ExecuteDeletion(Here, n)
<1>0. w = ExecuteDeletion(Here, n) /\ Commit(w, {}, {}, {}, Snaps(Here, {n}))
  BY DEF Delete
<1>1. changes < MaxChanges /\ rows \in [Nodes -> Rows \cup {Nothing}] /\ Here.rows = rows /\ Here.edge = edge
  BY StartGood DEF Delete, Allowed
<1> HIDE DEF w
<1>2. Good(Here, version, silent, bereft, late)
  BY DEF ResolverInv
<1>3. Good(w, version, silent, Cleared(Here, bereft, n), late) /\ w.rows = RowsWith(rows, n, Nothing)
  BY <1>0, <1>1, <1>2, DeletionKeeps
<1>4. \A m \in Nodes : w.rows[m] = IF m = n THEN Nothing ELSE rows[m]
  BY <1>1, <1>3 DEF RowsWith
<1>5. DistinctPaths(w.rows)
  BY <1>3, PathsApart
<1>6. LastOK(w.rows, Snaps(Here, {n}))
  <2>1. \A m \in Nodes \ {n} : w.rows[m] = rows[m]
    BY <1>4
  <2> QED
    BY <2>1, SnapsOK
<1>7. \A l \in DOMAIN w.edge : l \in Cleared(Here, bereft, n) =>
        /\ l.from \notin {}
        /\ l \in bereft \/ (edge[l] # Nothing /\ w.rows[edge[l]] = Nothing)
  BY <1>1, <1>4, ResolverConstants DEF Cleared
<1>8. \A s, m \in Present(w.rows) : <<s, m>> \in late =>
        (<<s, m>> \in late /\ s \notin {}) \/ (s \notin {} /\ w.rows[m] # rows[m])
  OBVIOUS
<1>9. \A m \in Present(w.rows) : m \in silent => m \notin {} /\ (m \in silent \/ w.rows[m] # rows[m])
  OBVIOUS
<1> QED
  BY <1>0, <1>1, <1>3, <1>5, <1>6, <1>7, <1>8, <1>9, CommitKeeps

\* Nobody is excluded: nothing changes.
LEMMA NobodyExcluded == \A b, L : NotFrom(b, {}) = b /\ NotLate(L, {}) = L
BY DEF NotFrom, NotLate

\* A row over a row of the same node.
LEMMA RowOverRow ==
  ASSUME NEW r \in [Nodes -> Rows \cup {Nothing}], NEW n \in Nodes, NEW row \in Rows
  PROVE  /\ RowsWith(RowsWith(r, n, row), n, row) = RowsWith(r, n, row)
         /\ RowsWith(r, n, row) \in [Nodes -> Rows \cup {Nothing}]
         /\ RowsWith(r, n, row)[n] = row
         /\ \A m \in Nodes \ {n} : RowsWith(r, n, row)[m] = r[m]
BY DEF RowsWith

\* The world with the new row of a node, before anything else is done.
LEMMA RenamedRow ==
  ASSUME ResolverInv, NEW n \in Nodes, NEW row \in Rows, NEW w, w = WithRow(Here, n, row)
  PROVE  /\ Good(w, version, silent \cup Named(n, row), bereft, LateFor(n, row))
         /\ w.rows = RowsWith(rows, n, row) /\ w.edge = edge /\ w.rows[n] = row
         /\ w.rows \in [Nodes -> Rows \cup {Nothing}]
         /\ \A m \in Nodes \ {n} : w.rows[m] = rows[m]
<1>1. /\ Good(Here, version, silent \cup Named(n, row), bereft, LateFor(n, row))
      /\ \/ Here.rows[n] = row
         \/ n \in silent \cup Named(n, row) /\ \A s \in Nodes : <<s, n>> \in LateFor(n, row)
      /\ Here.rows = rows /\ Here.edge = edge /\ rows \in [Nodes -> Rows \cup {Nothing}]
  BY StartGood
<1>2. /\ Good(w, version, silent \cup Named(n, row), bereft, LateFor(n, row))
      /\ w.rows = RowsWith(Here.rows, n, row) /\ w.edge = Here.edge
  BY <1>1, RowSet
<1> QED
  BY <1>1, <1>2, RowOverRow

\* The links of a node as they are.
LEMMA OwnLinks ==
  ASSUME ResolverInv, NEW n \in Nodes
  PROVE  Own(edge, n) \in SUBSET Links /\ \A l \in Own(edge, n) : l.from = n /\ rows[n] # Nothing
BY DEF ResolverInv, Good, Fits, Here, Own

\* A mutation of a node that has its row already.
LEMMA RewriteKeeps ==
  ASSUME NEW w, NEW q, NEW b, NEW L, Good(w, 1, q, b, L), NEW n \in Nodes, NEW row \in Rows,
         w.rows[n] = row, NEW links \in SUBSET Links, \A l \in links : l.from = n,
         NEW x, x = ExecuteMutation(w, n, row, links)
  PROVE  Good(x, 1, q, NotFrom(b, {n}), NotLate(L, {n})) /\ x.rows = RowsWith(w.rows, n, row)
<1>1. w.rows[n] = row \/ (n \in q /\ \A s \in Nodes : <<s, n>> \in L)
  OBVIOUS
<1>2. Good(x, 1, Heard(w, q, n, row), NotFrom(b, {n}), NotLate(L, {n})) /\ x.rows = RowsWith(w.rows, n, row)
  BY <1>1, MutationKeeps
<1> QED
  BY <1>2 DEF Heard

\* A move changes the row first: whether the mutation follows or fails, no refresh sees the
\* new name.
LEMMA MoveKeeps ==
  ASSUME ResolverInv, NEW n \in Nodes, NEW d \in Dirs, Move(n, d)
  PROVE  ResolverInv'
<1> DEFINE row   == [rows[n] EXCEPT !.dir = d, !.name = rows[n].title]
           moved == WithRow(Here, n, row)
           w     == ExecuteMutation(moved, n, row, Own(edge, n))
<1>1. /\ version = 1 /\ changes < MaxChanges /\ rows[n] \in Rows /\ rows[n] # Nothing
      /\ rows \in [Nodes -> Rows \cup {Nothing}]
  BY StartGood DEF Move, Allowed
<1>2. row \in Rows
  BY <1>1 DEF Rows
<1>3. /\ Free(PathOf(row))
      /\ \/ Commit(moved, {}, {}, {}, Snaps(Here, {n}))
         \/ Commit(w, {n}, {n}, {}, Snaps(Here, {n}))
  BY DEF Move, WithRow
<1>4. moved = WithRow(Here, n, row) /\ w = ExecuteMutation(moved, n, row, Own(edge, n))
  OBVIOUS
<1> HIDE DEF row, moved, w
<1>5. /\ Good(moved, version, silent \cup Named(n, row), bereft, LateFor(n, row))
      /\ moved.rows = RowsWith(rows, n, row) /\ moved.rows[n] = row
      /\ \A m \in Nodes \ {n} : moved.rows[m] = rows[m]
  BY <1>2, <1>4, RenamedRow
<1>6. DistinctPaths(RowsWith(rows, n, row)) /\ LastOK(moved.rows, Snaps(Here, {n}))
  BY <1>2, <1>3, <1>5, PathsApart, SnapsOK
<1>7. \A m \in silent \cup Named(n, row) : m \notin {} /\ m \in silent \cup Named(n, row)
  OBVIOUS
<1>8. CASE Commit(moved, {}, {}, {}, Snaps(Here, {n}))
  <2>1. Good(moved, version, silent \cup Named(n, row), NotFrom(bereft, {}), NotLate(LateFor(n, row), {}))
    BY <1>5, NobodyExcluded
  <2> QED
    BY <1>1, <1>2, <1>5, <1>6, <1>7, <1>8, <2>1, RowCommitKeeps
<1>9. CASE Commit(w, {n}, {n}, {}, Snaps(Here, {n}))
  <2>1. /\ Good(w, 1, silent \cup Named(n, row), NotFrom(bereft, {n}), NotLate(LateFor(n, row), {n}))
        /\ w.rows = RowsWith(moved.rows, n, row)
    <3>1. Good(moved, 1, silent \cup Named(n, row), bereft, LateFor(n, row))
      BY <1>1, <1>5
    <3>2. Own(edge, n) \in SUBSET Links /\ \A l \in Own(edge, n) : l.from = n
      BY OwnLinks
    <3> QED
      BY <1>2, <1>4, <1>5, <3>1, <3>2, RewriteKeeps
  <2>2. /\ Good(w, version, silent \cup Named(n, row), NotFrom(bereft, {n}), NotLate(LateFor(n, row), {n}))
        /\ w.rows = RowsWith(rows, n, row)
    BY <1>1, <1>2, <1>5, <2>1, RowOverRow
  <2>3. DistinctPaths(w.rows) /\ LastOK(w.rows, Snaps(Here, {n}))
    BY <1>5, <1>6, <2>2
  <2> QED
    BY <1>1, <1>2, <1>7, <1>9, <2>2, <2>3, RowCommitKeeps
<1> QED
  BY <1>3, <1>8, <1>9

\* The startup index looks for no names.
LEMMA IndexKeeps ==
  ASSUME ResolverInv, NEW n \in Nodes, NEW row \in Rows, Index(n, row),
         DistinctPaths(RowsWith(rows, n, row))
  PROVE  ResolverInv'
<1> DEFINE y == WithRow(Here, n, row)
<1>1. PICK links \in Content(n) : Commit(Relinked(y, {n}, links), {n}, {n}, {}, NoSnaps)
  BY DEF Index, WithRow
<1> DEFINE w == Relinked(y, {n}, links)
<1>2. y = WithRow(Here, n, row) /\ w = Relinked(y, {n}, links)
  OBVIOUS
<1> HIDE DEF y, w
<1>3. /\ Good(y, version, silent \cup Named(n, row), bereft, LateFor(n, row))
      /\ y.rows = RowsWith(rows, n, row) /\ y.rows[n] = row
      /\ y.rows \in [Nodes -> Rows \cup {Nothing}]
  BY <1>2, RenamedRow
<1>4. links \in SUBSET Links /\ \A l \in links : l.from \in {n} /\ y.rows[l.from] # Nothing
  BY <1>3, ContentIsLinks, ResolverConstants
<1>5. /\ Good(w, version, silent \cup Named(n, row), NotFrom(bereft, {n}), NotLate(LateFor(n, row), {n}))
      /\ w.rows = y.rows
  BY <1>2, <1>3, <1>4, RelinkKeeps
<1>6. DistinctPaths(w.rows) /\ LastOK(w.rows, NoSnaps)
  BY <1>3, <1>5, NoSnapsOK
<1>7. \A m \in silent \cup Named(n, row) : m \notin {} /\ m \in silent \cup Named(n, row)
  OBVIOUS
<1>8. changes < MaxChanges /\ Commit(w, {n}, {n}, {}, NoSnaps)
  BY <1>1, <1>2 DEF Index
<1> QED
  BY <1>3, <1>5, <1>6, <1>7, <1>8, RowCommitKeeps

\* A file it does not know.
LEMMA IndexNewKeeps ==
  ASSUME ResolverInv, NEW n \in Nodes, NEW d \in Dirs, NEW x \in Names, IndexNew(n, d, x)
  PROVE  ResolverInv'
<1>1. FileName[x] \in Names /\ RowAt(d, FileName[x]) \in Rows
  BY RowAtIsRow
<1>2. PathOf(RowAt(d, FileName[x])) = [dir |-> d, name |-> FileName[x]]
  BY ResolverConstants DEF RowAt, PathOf
<1>3. DistinctPaths(RowsWith(rows, n, RowAt(d, FileName[x])))
  BY <1>1, <1>2, PathsApart DEF IndexNew
<1> QED
  BY <1>1, <1>3, IndexKeeps DEF IndexNew

\* A file it knows.
LEMMA IndexAgainKeeps ==
  ASSUME ResolverInv, NEW n \in Nodes, IndexAgain(n)
  PROVE  ResolverInv'
<1> DEFINE row == [rows[n] EXCEPT !.title = rows[n].name]
<1>1. rows[n] \in Rows /\ rows[n] # Nothing
  BY StartGood DEF IndexAgain
<1>2. row \in Rows /\ PathOf(row) = PathOf(rows[n])
  BY <1>1 DEF Rows, PathOf
<1>3. Index(n, row)
  BY DEF IndexAgain
<1> HIDE DEF row
<1>4. DistinctPaths(RowsWith(rows, n, row))
  BY <1>1, <1>2, PathsApart
<1> QED
  BY <1>2, <1>3, <1>4, IndexKeeps

-----------------------------------------------------------------------------
(* Renames.  Before the links of the referring nodes are resolved anew the    *)
(* renamed node is as it is after a move, with its file rewritten or not.      *)

\* Sources one after the other are the sources together.
LEMMA ExcludedTogether ==
  \A b, L, S, T : /\ NotFrom(NotFrom(b, S), T) = NotFrom(b, T \cup S)
                  /\ NotLate(NotLate(L, S), T) = NotLate(L, T \cup S)
BY DEF NotFrom, NotLate

\* A rename resolves the links of the nodes it wrote, all with the new name in place.
LEMMA RenameKeeps ==
  ASSUME ResolverInv, NEW n \in Nodes, NEW d \in Dirs, NEW x \in Names, Rename(n, d, x)
  PROVE  ResolverInv'
<1> DEFINE row == RowAt(d, x)
<1>1. /\ version = 1 /\ changes < MaxChanges /\ rows[n] \in Rows /\ rows[n] # Nothing
      /\ row \in Rows /\ Free(PathOf(row)) /\ rows \in [Nodes -> Rows \cup {Nothing}]
      /\ row.title = x
  BY StartGood, RowAtIsRow DEF Rename, Allowed, RowAt
<1>2. PICK canonical \in BOOLEAN :
        LET done == ExecuteRename(Here, n, row, canonical)
        IN Commit(done.to, done.wrote, done.wrote, {}, Snaps(Here, {n} \cup done.wrote))
  BY DEF Rename
<1> DEFINE pointing  == {t \in {l.to : l \in DOMAIN Here.edge} : Resolve(Here.rows, t) = n}
           new(s)    == {Rewritten(l, pointing, Here.rows[n].title, row.title) : l \in Own(Here.edge, s)}
           referring == {s \in Nodes \ {n} : /\ \E l \in Own(Here.edge, s) : l.to \in pointing
                                             /\ new(s) # Own(Here.edge, s)}
           updated   == WithRow(Here, n, row)
           rendered  == IF canonical THEN updated
                        ELSE ExecuteMutation(updated, n, row, Own(Here.edge, n))
           links     == UNION {new(s) : s \in referring}
           w         == Relinked(rendered, referring, links)
           self      == IF canonical THEN {} ELSE {n}
           wrote     == referring \cup self
<1>3. Commit(w, wrote, wrote, {}, Snaps(Here, {n} \cup wrote))
  BY <1>2 DEF ExecuteRename, WithRow
<1>4. Here.rows = rows /\ Here.edge = edge
  BY DEF Here
<1>5. \A s \in referring : s \in Nodes /\ s # n /\ \E l \in DOMAIN edge : l.from = s
  BY <1>4 DEF Own
<1>6. links \in SUBSET Links /\ \A l \in links : l.from \in referring
  <2>1. Bare(row.title) \in Targets
    BY <1>1, ResolverConstants DEF Bare, Targets
  <2>2. ASSUME NEW s \in referring, NEW k \in new(s)
        PROVE  k \in Links /\ k.from = s
    <3>1. PICK l \in Own(Here.edge, s) : k = Rewritten(l, pointing, Here.rows[n].title, row.title)
      OBVIOUS
    <3>2. l \in Links /\ l.from = s
      BY <1>4, <1>5, OwnLinks DEF Own
    <3> HIDE DEF pointing, referring, new, row
    <3> QED
      BY <2>1, <3>1, <3>2 DEF Rewritten, Links
  <2> HIDE DEF new, referring
  <2> QED
    BY <2>2
<1>7. /\ updated = WithRow(Here, n, row) /\ w = Relinked(rendered, referring, links)
      /\ rendered = IF canonical THEN updated ELSE ExecuteMutation(updated, n, row, Own(edge, n))
      /\ self = (IF canonical THEN {} ELSE {n}) /\ wrote = referring \cup self
  BY <1>4
<1> HIDE DEF row, pointing, new, referring, updated, rendered, links, w, self, wrote
<1>8. /\ Good(updated, version, silent \cup Named(n, row), bereft, LateFor(n, row))
      /\ updated.rows = RowsWith(rows, n, row) /\ updated.rows[n] = row
      /\ \A m \in Nodes \ {n} : updated.rows[m] = rows[m]
  BY <1>1, <1>7, RenamedRow
<1>9. /\ Good(rendered, 1, silent \cup Named(n, row), NotFrom(bereft, self), NotLate(LateFor(n, row), self))
      /\ rendered.rows = RowsWith(rows, n, row)
  <2>1. CASE canonical
    BY <1>1, <1>7, <1>8, <2>1, NobodyExcluded
  <2>2. CASE ~canonical
    <3>1. rendered = ExecuteMutation(updated, n, row, Own(edge, n)) /\ self = {n}
      BY <1>7, <2>2
    <3>2. /\ Good(rendered, 1, silent \cup Named(n, row), NotFrom(bereft, {n}),
                  NotLate(LateFor(n, row), {n}))
          /\ rendered.rows = RowsWith(updated.rows, n, row)
      <4>1. Good(updated, 1, silent \cup Named(n, row), bereft, LateFor(n, row))
        BY <1>1, <1>8
      <4>2. Own(edge, n) \in SUBSET Links /\ \A l \in Own(edge, n) : l.from = n
        BY OwnLinks
      <4> QED
        BY <1>1, <1>8, <3>1, <4>1, <4>2, RewriteKeeps
    <3> QED
      BY <1>1, <1>8, <3>1, <3>2, RowOverRow
  <2> QED
    BY <2>1, <2>2
<1>10. \A m \in Nodes \ {n} : rendered.rows[m] = rows[m]
  BY <1>8, <1>9
<1>11. \A s \in referring : rows[s] # Nothing /\ rendered.rows[s] # Nothing
  BY <1>5, <1>10, StartGood
<1>12. \A l \in links : l.from \in referring /\ rendered.rows[l.from] # Nothing
  BY <1>6, <1>11
<1>13. /\ Good(w, 1, silent \cup Named(n, row), NotFrom(NotFrom(bereft, self), referring),
               NotLate(NotLate(LateFor(n, row), self), referring))
       /\ w.rows = rendered.rows
  BY <1>6, <1>7, <1>9, <1>12, RelinkKeeps
<1>14. Good(w, version, silent \cup Named(n, row), NotFrom(bereft, wrote), NotLate(LateFor(n, row), wrote))
  BY <1>1, <1>7, <1>13, ExcludedTogether
<1>15. DistinctPaths(w.rows)
  BY <1>1, <1>9, <1>13, PathsApart
<1>16. LastOK(w.rows, Snaps(Here, {n} \cup wrote))
  <2>1. {n} \cup wrote \in SUBSET Nodes
    BY <1>5, <1>7
  <2>2. \A m \in Nodes \ ({n} \cup wrote) : w.rows[m] = rows[m]
    BY <1>10, <1>13
  <2>3. \A m \in {n} \cup wrote : w.rows[m] # Nothing /\ rows[m] # Nothing
    <3>1. w.rows[n] = row /\ row # Nothing
      BY <1>1, <1>8, <1>9, <1>13, ResolverConstants
    <3> QED
      BY <1>1, <1>7, <1>11, <1>13, <3>1
  <2> QED
    BY <2>1, <2>2, <2>3, SnapsOK
<1>17. \A m \in silent \cup Named(n, row) : m \notin {} /\ m \in silent \cup Named(n, row)
  OBVIOUS
<1> QED
  BY <1>1, <1>3, <1>9, <1>13, <1>14, <1>15, <1>16, <1>17, RowCommitKeeps

-----------------------------------------------------------------------------
(* Undo.  After the nodes in D there are the rows of the snapshots for them    *)
(* and the present ones for the others; of the nodes whose rows differ, those   *)
(* in D have been refreshed.                                                    *)

Differing == {n \in DOMAIN last : rows[n] # last[n].row}
PutBackOn(D) == [n \in Nodes |-> IF n \in D THEN last[n].row ELSE rows[n]]
UndoneSilent(D) == (silent \cup Differing) \ (Differing \cap D)
UndoneBereft(D) == NotFrom(bereft, D) \cup {l \in DOMAIN edge : edge[l] \in D /\ last[edge[l]].row = Nothing}
UndoneLate(D) == NotLate(late, D) \cup (Nodes \X Differing)

Partly(D, w) ==
  /\ Good(w, 1, UndoneSilent(D), UndoneBereft(D), UndoneLate(D))
  /\ w.rows = PutBackOn(D)
  /\ D = {} => w = Here

Restored(w, n) ==
  IF last[n].row = Nothing THEN ExecuteDeletion(w, n)
  ELSE ExecuteMutation(w, n, last[n].row, last[n].links)

\* Before the first node nothing is undone.
LEMMA UndoStarts ==
  ASSUME ResolverInv, version = 1
  PROVE  Partly({}, Here)
<1>1. Good(Here, 1, silent, bereft, late) /\ rows \in [Nodes -> Rows \cup {Nothing}] /\ Here.rows = rows
  BY DEF ResolverInv, Good, Fits, Here
<1>2. /\ \A m : m \in silent => m \in UndoneSilent({})
      /\ \A l : l \in bereft => l \in UndoneBereft({})
      /\ \A s, m : <<s, m>> \in late => <<s, m>> \in UndoneLate({})
  BY DEF UndoneSilent, UndoneBereft, UndoneLate, NotFrom, NotLate
<1>3. Good(Here, 1, UndoneSilent({}), UndoneBereft({}), UndoneLate({}))
  BY <1>1, <1>2, Wider
<1>4. Here.rows = PutBackOn({})
  BY <1>1 DEF PutBackOn
<1> QED
  BY <1>3, <1>4 DEF Partly

\* A node that came is deleted: no other is part of the operation.
LEMMA UndoDeletes ==
  ASSUME ResolverInv, version = 1, NEW D \in SUBSET DOMAIN last, NEW n \in DOMAIN last,
         last[n].row = Nothing, NEW w, Partly(D, w), NEW x, x = Restored(w, n)
  PROVE  Partly(D \cup {n}, x)
<1>1. /\ DOMAIN last = {n} /\ n \in Nodes /\ (D = {} \/ D = {n}) /\ D \cup {n} = {n}
      /\ rows \in [Nodes -> Rows \cup {Nothing}]
  BY DEF ResolverInv, LastOK, Good, Fits, Here
<1>2. Good(w, 1, UndoneSilent(D), UndoneBereft(D), UndoneLate(D)) /\ w.rows = PutBackOn(D)
  BY DEF Partly
<1>3. x = ExecuteDeletion(w, n)
  BY DEF Restored
<1>4. /\ Good(x, 1, UndoneSilent(D), Cleared(w, UndoneBereft(D), n), UndoneLate(D))
      /\ x.rows = RowsWith(w.rows, n, Nothing)
  BY <1>1, <1>2, <1>3, DeletionKeeps
<1>5. x.rows = PutBackOn(D \cup {n})
  BY <1>1, <1>2, <1>4 DEF PutBackOn, RowsWith
<1>6. x.rows[n] = Nothing /\ Nothing \notin Nodes
  BY <1>1, <1>5, ResolverConstants DEF PutBackOn
<1>7. \A l \in DOMAIN x.edge : l.from \in Present(x.rows) /\ l.from # n
  BY <1>4, <1>6 DEF Good, Fits, Links, Present
<1>8. \A m \in Present(x.rows) : m # n /\ (m \in UndoneSilent(D) => m \in UndoneSilent(D \cup {n}))
  BY <1>1, <1>6 DEF Present, UndoneSilent
<1>9. ASSUME NEW l \in DOMAIN x.edge, l \in Cleared(w, UndoneBereft(D), n)
      PROVE  l \in UndoneBereft(D \cup {n})
  <2>1. CASE l \in UndoneBereft(D)
    BY <1>1, <1>7, <2>1 DEF UndoneBereft, NotFrom
  <2>2. CASE l \in DOMAIN w.edge /\ w.edge[l] = n
    <3>1. w.rows[n] # Nothing
      BY <1>2, <1>6, <2>2, <1>1 DEF Good, Fits, Present
    <3>2. D = {}
      BY <1>1, <1>2, <3>1 DEF PutBackOn
    <3>3. l \in DOMAIN edge /\ edge[l] = n
      BY <2>2, <3>2 DEF Partly, Here
    <3> QED
      BY <3>3 DEF UndoneBereft
  <2> QED
    BY <1>9, <2>1, <2>2 DEF Cleared
<1>10. \A s, m \in Present(x.rows) : <<s, m>> \in UndoneLate(D) => <<s, m>> \in UndoneLate(D \cup {n})
  BY <1>1, <1>8 DEF UndoneLate, NotLate
<1>11. Good(x, 1, UndoneSilent(D \cup {n}), UndoneBereft(D \cup {n}), UndoneLate(D \cup {n}))
  BY <1>4, <1>8, <1>9, <1>10, Wider
<1> QED
  BY <1>5, <1>11 DEF Partly

\* A node that was there gets its row and its links back.
LEMMA UndoRestores ==
  ASSUME ResolverInv, version = 1, NEW D \in SUBSET DOMAIN last, NEW n \in DOMAIN last,
         last[n].row # Nothing, NEW w, Partly(D, w), NEW x, x = Restored(w, n)
  PROVE  Partly(D \cup {n}, x)
<1> DEFINE row == last[n].row
<1>1. /\ DOMAIN last \subseteq Nodes /\ n \in Nodes /\ row \in Rows
      /\ last[n].links \in SUBSET Links /\ \A l \in last[n].links : l.from = n
      /\ rows \in [Nodes -> Rows \cup {Nothing}]
  BY DEF ResolverInv, LastOK, Good, Fits, Here
<1>2. Good(w, 1, UndoneSilent(D), UndoneBereft(D), UndoneLate(D)) /\ w.rows = PutBackOn(D)
  BY DEF Partly
<1>3. x = ExecuteMutation(w, n, row, last[n].links)
  BY DEF Restored
<1>4. w.rows[n] = IF n \in D THEN row ELSE rows[n]
  BY <1>1, <1>2 DEF PutBackOn
<1>5. n \in Differing <=> rows[n] # row
  BY DEF Differing
<1> HIDE DEF row
<1>6. w.rows[n] = row \/ (n \in UndoneSilent(D) /\ \A s \in Nodes : <<s, n>> \in UndoneLate(D))
  BY <1>4, <1>5 DEF UndoneSilent, UndoneLate
<1>7. /\ Good(x, 1, Heard(w, UndoneSilent(D), n, row), NotFrom(UndoneBereft(D), {n}),
              NotLate(UndoneLate(D), {n}))
      /\ x.rows = RowsWith(w.rows, n, row)
  BY <1>1, <1>2, <1>3, <1>6, MutationKeeps
<1>8. x.rows = PutBackOn(D \cup {n})
  BY <1>1, <1>2, <1>7 DEF PutBackOn, RowsWith, row
<1>9. \A m : m \in Heard(w, UndoneSilent(D), n, row) => m \in UndoneSilent(D \cup {n})
  BY <1>4, <1>5 DEF Heard, UndoneSilent
<1>10. \A l : l \in NotFrom(UndoneBereft(D), {n}) => l \in UndoneBereft(D \cup {n})
  BY DEF NotFrom, UndoneBereft
<1>11. \A s, m : <<s, m>> \in NotLate(UndoneLate(D), {n}) => <<s, m>> \in UndoneLate(D \cup {n})
  BY DEF NotLate, UndoneLate
<1>12. Good(x, 1, UndoneSilent(D \cup {n}), UndoneBereft(D \cup {n}), UndoneLate(D \cup {n}))
  BY <1>7, <1>9, <1>10, <1>11, Wider
<1> QED
  BY <1>8, <1>12 DEF Partly

\* After the last node the operation can be committed.
LEMMA UndoCommits ==
  ASSUME ResolverInv, version = 1, changes < MaxChanges, NEW w, Partly(DOMAIN last, w),
         Commit(w, DOMAIN last, {}, Differing, NoSnaps)
  PROVE  ResolverInv'
<1> DEFINE T == DOMAIN last
<1>1. /\ T \subseteq Nodes /\ rows \in [Nodes -> Rows \cup {Nothing}] /\ DistinctPaths(PutBack(rows, last))
      /\ \A n \in T : last[n].row = Nothing => T = {n}
  BY DEF ResolverInv, LastOK, Good, Fits, Here
<1>2. Good(w, version, UndoneSilent(T), UndoneBereft(T), UndoneLate(T)) /\ w.rows = PutBackOn(T)
  BY DEF Partly
<1>3. w.rows = PutBack(rows, last) /\ \A n \in T : w.rows[n] = last[n].row
  BY <1>1, <1>2 DEF PutBackOn, PutBack
<1>4. DistinctPaths(w.rows) /\ LastOK(w.rows, NoSnaps)
  BY <1>1, <1>2, <1>3, NoSnapsOK DEF Good, Fits
<1> HIDE DEF T
<1>5. \A m \in Present(w.rows) : m \in UndoneSilent(T) =>
        m \notin Differing /\ (m \in silent \/ w.rows[m] # rows[m])
  BY DEF UndoneSilent, Differing, T
<1>6. ASSUME NEW l \in DOMAIN w.edge, l \in UndoneBereft(T)
      PROVE  /\ l.from \notin T
             /\ l \in bereft \/ (edge[l] # Nothing /\ w.rows[edge[l]] = Nothing)
  <2>1. CASE l \in NotFrom(bereft, T)
    BY <2>1 DEF NotFrom
  <2>2. CASE edge[l] \in T /\ last[edge[l]].row = Nothing
    <3>1. T = {edge[l]} /\ w.rows[edge[l]] = Nothing /\ edge[l] # Nothing
      BY <1>1, <1>3, <2>2, ResolverConstants
    <3>2. w.rows[l.from] # Nothing
      BY <1>2 DEF Good, Fits
    <3> QED
      BY <3>1, <3>2
  <2> QED
    BY <1>6, <2>1, <2>2 DEF UndoneBereft
<1>7. ASSUME NEW s \in Present(w.rows), NEW m \in Present(w.rows), <<s, m>> \in UndoneLate(T)
      PROVE  (<<s, m>> \in late /\ s \notin T) \/ (s \notin {} /\ w.rows[m] # rows[m])
  <2>1. CASE <<s, m>> \in NotLate(late, T)
    BY <2>1 DEF NotLate
  <2>2. CASE m \in Differing
    BY <1>3, <2>2 DEF Differing, T
  <2> QED
    BY <1>7, <2>1, <2>2 DEF UndoneLate
<1> QED
  BY <1>2, <1>4, <1>5, <1>6, <1>7, CommitKeeps DEF T

\* The worlds there are, as a set.
Worlds == [rows : [Nodes -> Rows \cup {Nothing}],
           edge : UNION {[E -> Nodes \cup {Nothing}] : E \in SUBSET Links}]

\* A world that fits is one of them.
LEMMA FitsIsWorld ==
  ASSUME NEW w, Fits(w)
  PROVE  w \in Worlds
<1>1. w.edge \in [DOMAIN w.edge -> Nodes \cup {Nothing}] /\ DOMAIN w.edge \in SUBSET Links
  BY DEF Fits, Present
<1>2. w.edge \in UNION {[E -> Nodes \cup {Nothing}] : E \in SUBSET Links}
  BY <1>1
<1>3. w = [rows |-> w.rows, edge |-> w.edge] /\ w.rows \in [Nodes -> Rows \cup {Nothing}]
  BY DEF Fits
<1> QED
  BY <1>2, <1>3 DEF Worlds

UndoFold(s) ==
  CHOOSE it : it = [t \in SUBSET DOMAIN s |->
    IF t = {} THEN Here ELSE Restored(it[t \ {Max(t)}], s[Max(t)])]

\* The nodes of the operation in any order: each puts back its own.
LEMMA UndoAll ==
  ASSUME ResolverInv, version = 1, NEW N \in Nat, NEW s \in [1 .. N -> DOMAIN last],
         \A n \in DOMAIN last : \E i \in 1 .. N : s[i] = n
  PROVE  Partly(DOMAIN last, FoldLeft(Restored, Here, s))
<1> DEFINE T    == DOMAIN last
           I    == {w \in Worlds : \E D \in SUBSET T : Partly(D, w)}
           Is(it) == it = [t \in SUBSET DOMAIN s |->
                             IF t = {} THEN Here ELSE Restored(it[t \ {Max(t)}], s[Max(t)])]
           g    == [p \in I \X T |-> Restored(p[1], p[2])]
           fold == UndoFold(s)
<1>1. DOMAIN s = 1 .. N
  OBVIOUS
<1>2. ASSUME NEW D \in SUBSET T, NEW n \in T, NEW w, Partly(D, w)
      PROVE  Partly(D \cup {n}, Restored(w, n))
  BY <1>2, UndoDeletes, UndoRestores
<1>3. \A w, D : D \in SUBSET T /\ Partly(D, w) => w \in I
  BY FitsIsWorld DEF Partly, Good
<1>4. \A w \in I, n \in T : Restored(w, n) \in I
  <2> SUFFICES ASSUME NEW w \in I, NEW n \in T PROVE Restored(w, n) \in I
    OBVIOUS
  <2>1. PICK D \in SUBSET T : Partly(D, w)
    OBVIOUS
  <2>2. D \cup {n} \in SUBSET T /\ Partly(D \cup {n}, Restored(w, n))
    BY <1>2, <2>1
  <2> HIDE DEF I, T
  <2> QED
    BY <1>3, <2>2
<1>5. g \in [I \X T -> I] /\ \A w \in I, n \in T : g[<<w, n>>] = Restored(w, n)
  <2> HIDE DEF I, T
  <2> QED
    BY <1>4
<1>6. Here \in I /\ Partly({}, Here)
  BY <1>3, UndoStarts
<1>7. s \in [1 .. N -> T]
  OBVIOUS
<1> HIDE DEF g, I, T
<1>8. \E it : Is(it)
  <2>1. PICK it \in [SUBSET (1 .. N) -> I] : IsFold(it, g, Here, N, s)
    BY <1>5, <1>6, <1>7, FoldExists
  <2>2. ASSUME NEW t \in SUBSET (1 .. N)
        PROVE  it[t] = IF t = {} THEN Here ELSE Restored(it[t \ {Max(t)}], s[Max(t)])
    <3>1. CASE t # {}
      <4>1. Max(t) \in t
        BY <3>1, MaxIsMember
      <4>2. it[t \ {Max(t)}] \in I /\ s[Max(t)] \in T
        BY <1>7, <2>1, <4>1
      <4> QED
        BY <1>5, <2>1, <3>1, <4>2 DEF IsFold
    <3> QED
      BY <2>1, <3>1 DEF IsFold
  <2> QED
    BY <1>1, <2>1, <2>2
<1>9. Is(fold)
  BY <1>8 DEF UndoFold
<1>10. FoldLeft(Restored, Here, s) = fold[1 .. N]
  BY <1>1 DEF FoldLeft, MapThenFoldSet, UndoFold
<1> HIDE DEF fold
<1> DEFINE done(k) == {s[i] : i \in 1 .. k}
           P       == {k \in 0 .. N : Partly(done(k), fold[1 .. k])}
<1>11. 0 \in P
  <2>1. 1 .. 0 = {} /\ done(0) = {}
    OBVIOUS
  <2>2. fold[{}] = Here
    BY <1>9
  <2> HIDE DEF done
  <2>3. Partly(done(0), fold[1 .. 0])
    BY <1>6, <2>1, <2>2
  <2>4. 0 \in 0 .. N
    OBVIOUS
  <2> QED
    BY <2>3, <2>4
<1>12. ASSUME NEW k \in 0 .. N, k # 0, k - 1 \in P PROVE k \in P
  <2>1. /\ 1 .. k \in SUBSET (1 .. N) /\ 1 .. k # {} /\ Max(1 .. k) = k
        /\ (1 .. k) \ {k} = 1 .. k - 1 /\ s[k] \in T
    BY <1>7, <1>12, UpTo
  <2>2. fold[1 .. k] = Restored(fold[1 .. k - 1], s[k])
    BY <1>1, <1>9, <2>1
  <2>3. done(k) = done(k - 1) \cup {s[k]} /\ done(k - 1) \in SUBSET T
    <3>1. \A i : i \in 1 .. k <=> i \in 1 .. k - 1 \/ i = k
      BY <1>12
    <3>2. \A i \in 1 .. k - 1 : i \in 1 .. N
      BY <1>12
    <3> QED
      BY <1>7, <3>1, <3>2
  <2>4. Partly(done(k - 1), fold[1 .. k - 1])
    BY <1>12
  <2> HIDE DEF done
  <2>5. Partly(done(k), fold[1 .. k])
    BY <1>2, <2>1, <2>2, <2>3, <2>4
  <2> QED
    BY <1>12, <2>5
<1>13. done(N) = T
  BY <1>7 DEF T
<1> HIDE DEF P
<1>14. N \in P
  BY <1>11, <1>12, Climb
<1> HIDE DEF done
<1> QED
  BY <1>10, <1>13, <1>14 DEF P, T

\* Every node of the operation is in the order, so that undo leaves none out.
LEMMA UndoKeeps ==
  ASSUME ResolverInv, Undo
  PROVE  ResolverInv'
<1> DEFINE T       == DOMAIN last
           gone    == {n \in T : rows[n] = Nothing}
           created == {n \in T : last[n].row = Nothing}
           rest    == T \ (gone \cup created)
<1>1. PICK updated \in SetToSeqs(rest) :
        Commit(FoldLeft(Restored, Here, SetToSeq(gone) \o updated \o SetToSeq(created)), T, {},
               Differing, NoSnaps)
  BY DEF Undo, Restored, Differing, FoldLeft, MapThenFoldSet
<1> DEFINE order == SetToSeq(gone) \o updated \o SetToSeq(created)
<1>2. version = 1 /\ changes < MaxChanges
  BY DEF Undo, Allowed
<1>3. IsFiniteSet(gone) /\ IsFiniteSet(rest) /\ IsFiniteSet(created)
  <2>1. IsFiniteSet(T)
    BY ResolverConstants, FS_Subset DEF ResolverInv, LastOK
  <2>2. gone \in SUBSET T /\ rest \in SUBSET T /\ created \in SUBSET T
    OBVIOUS
  <2> HIDE DEF T, gone, rest, created
  <2> QED
    BY <2>1, <2>2, FS_Subset
<1>4. T = gone \cup rest \cup created
  OBVIOUS
<1>5. ASSUME NEW S, IsFiniteSet(S), S \subseteq T
      PROVE  /\ Lists(SetToSeq(S), Cardinality(S), S, T)
             /\ \A s \in SetToSeqs(S) : Lists(s, Cardinality(S), S, T)
  <2> HIDE DEF T
  <2> QED
    BY <1>5, ListOfSet, ListsOfSet DEF Lists
<1> HIDE DEF T, gone, rest, created
<1>6. gone \subseteq T /\ rest \subseteq T /\ created \subseteq T
  BY <1>4
<1> DEFINE a == Cardinality(gone)
           b == Cardinality(rest)
           c == Cardinality(created)
<1>7. /\ Lists(SetToSeq(gone), a, gone, T) /\ Lists(updated, b, rest, T)
      /\ Lists(SetToSeq(created), c, created, T)
  BY <1>3, <1>5, <1>6
<1> HIDE DEF a, b, c
<1>8. Lists(SetToSeq(gone) \o updated, a + b, gone \cup rest, T)
  BY <1>7, ListAfterList
<1>9. Lists(order, (a + b) + c, (gone \cup rest) \cup created, T)
  BY <1>7, <1>8, ListAfterList
<1> DEFINE N == (a + b) + c
<1>10. Lists(order, N, T, T)
  BY <1>4, <1>9
<1> HIDE DEF order, N
<1>11. N \in Nat /\ order \in [1 .. N -> T] /\ \A n \in T : \E i \in 1 .. N : order[i] = n
  BY <1>10 DEF Lists
<1>13. Partly(DOMAIN last, FoldLeft(Restored, Here, order))
  BY <1>2, <1>11, UndoAll DEF T
<1>14. Commit(FoldLeft(Restored, Here, order), DOMAIN last, {}, Differing, NoSnaps)
  BY <1>1 DEF order, T
<1> DEFINE w == FoldLeft(Restored, Here, order)
<1>15. Partly(DOMAIN last, w) /\ Commit(w, DOMAIN last, {}, Differing, NoSnaps)
  BY <1>13, <1>14
<1> HIDE DEF w
<1> QED
  BY <1>2, <1>15, UndoCommits

-----------------------------------------------------------------------------
(* The backfill, the start, and every step. *)

\* The backfill resolves every link that has no node: from then on a link without a
\* node has to be accounted for.
LEMMA BackfillKeeps ==
  ASSUME ResolverInv, Backfill
  PROVE  ResolverInv'
<1> DEFINE x == Backfilled(Here)
<1>1. /\ version' = 1 /\ edge' = x.edge
      /\ UNCHANGED <<rows, last, silent, bereft, late, changes>>
  BY DEF Backfill
<1>2. /\ x.rows = rows /\ x = [rows |-> x.rows, edge |-> x.edge]
      /\ x.edge = [l \in DOMAIN edge |-> IF edge[l] = Nothing THEN Resolve(rows, l.to) ELSE edge[l]]
  BY DEF Backfilled, Here
<1>3. /\ rows \in [Nodes -> Rows \cup {Nothing}] /\ DOMAIN edge \subseteq Links
      /\ \A l \in DOMAIN edge : /\ l.to \in Targets /\ rows[l.from] # Nothing
                                /\ edge[l] \in Present(rows) \cup {Nothing}
      /\ Answers(Here, silent, bereft, late) /\ Here.rows = rows /\ Here.edge = edge
  BY DEF ResolverInv, Good, Fits, Here, Links
<1> HIDE DEF x
<1>4. DOMAIN x.edge = DOMAIN edge /\ x.edge = [l \in DOMAIN edge |-> x.edge[l]]
  BY <1>2
<1>5. \A l \in DOMAIN edge : \/ edge[l] = Nothing /\ x.edge[l] = Resolve(rows, l.to)
                             \/ edge[l] # Nothing /\ x.edge[l] = edge[l]
  BY <1>2
<1>6. ASSUME NEW l \in DOMAIN edge, x.edge[l] = Resolve(rows, l.to)
      PROVE  /\ x.edge[l] \in Present(rows) \cup {Nothing}
             /\ x.edge[l] = Nothing => \A m \in Present(rows) : ~Matches(l.to, rows[m])
             /\ x.edge[l] # Nothing =>
                  /\ Matches(l.to, rows[x.edge[l]])
                  /\ \A m \in Present(rows) : Matches(l.to, rows[m]) => ~Better(rows, l.to, m, x.edge[l])
  BY <1>3, <1>6, ResolveBest
<1>7. Fits(x)
  <2>1. \A l \in DOMAIN edge : x.edge[l] \in Present(rows) \cup {Nothing}
    BY <1>3, <1>5, <1>6
  <2> QED
    BY <1>2, <1>3, <1>4, <2>1 DEF Fits
<1>8. Answers(x, silent, bereft, late)
  <2> SUFFICES ASSUME NEW l \in DOMAIN edge, x.edge[l] # Nothing
               PROVE  \/ x.edge[l] \in silent /\ <<l.from, x.edge[l]>> \in late
                      \/ /\ Matches(l.to, x.rows[x.edge[l]])
                         /\ l \notin bereft => \A m \in Present(x.rows) :
                              Matches(l.to, x.rows[m]) /\ Better(x.rows, l.to, m, x.edge[l])
                                => <<l.from, m>> \in late
    BY <1>4 DEF Answers
  <2>1. CASE x.edge[l] = Resolve(rows, l.to)
    BY <1>2, <1>6, <2>1
  <2>2. CASE x.edge[l] = edge[l]
    BY <1>2, <1>3, <2>2 DEF Answers
  <2> QED
    BY <1>5, <2>1, <2>2
<1>9. Nulls(x, silent, bereft, late)
  BY <1>2, <1>4, <1>5, <1>6 DEF Nulls
<1>10. Good(x, 1, silent, bereft, late)
  BY <1>7, <1>8, <1>9 DEF Good
<1>11. x = [rows |-> rows, edge |-> x.edge]
  BY <1>2
<1>12. Good([rows |-> rows', edge |-> edge'], version', silent', bereft', late')
  BY <1>1, <1>10, <1>11
<1>13. Good(Here, version, silent, bereft, late)'
  BY <1>12 DEF Here
<1>14. DistinctPaths(rows)' /\ LastOK(rows, last)'
  BY <1>1 DEF ResolverInv
<1> QED
  BY <1>1, <1>4, <1>13, <1>14 DEF ResolverInv

\* Before the backfill nothing is stored.
LEMMA InitEstablishes == Init => ResolverInv
<1> SUFFICES ASSUME Init PROVE ResolverInv
  OBVIOUS
<1>1. /\ rows \in [Nodes -> Rows \cup {Nothing}] /\ DOMAIN edge \subseteq Links
      /\ edge = [l \in DOMAIN edge |-> edge[l]]
      /\ \A l \in DOMAIN edge : rows[l.from] # Nothing /\ edge[l] = Nothing
  BY ResolverConstants DEF Init
<1>2. DistinctPaths(rows)
  BY ResolverConstants DEF Init, DistinctPaths, Present, PathOf
<1>3. LastOK(rows, last)
  BY <1>1, <1>2, NoSnapsOK DEF Init
<1>4. Here.rows = rows /\ Here.edge = edge /\ Here = [rows |-> Here.rows, edge |-> Here.edge]
  BY DEF Here
<1>5. Fits(Here)
  BY <1>1, <1>4 DEF Fits
<1>6. Answers(Here, silent, bereft, late) /\ version = 0
  BY <1>1, <1>4 DEF Answers, Init
<1>7. Good(Here, version, silent, bereft, late)
  BY <1>5, <1>6 DEF Good
<1> QED
  BY <1>2, <1>3, <1>7, ResolverConstants DEF ResolverInv, Init

\* No step stores what cannot be accounted for.
LEMMA NextKeeps == ResolverInv /\ [Next]_vars => ResolverInv'
<1> SUFFICES ASSUME ResolverInv, [Next]_vars PROVE ResolverInv'
  OBVIOUS
<1>1. ASSUME NEW n \in Nodes, Update(n) PROVE ResolverInv'
  BY <1>1, UpdateKeeps
<1>2. ASSUME NEW n \in Nodes, Save(n) PROVE ResolverInv'
  BY <1>2, SaveKeeps
<1>3. ASSUME NEW n \in Nodes, Delete(n) PROVE ResolverInv'
  BY <1>3, DeleteKeeps
<1>4. ASSUME NEW n \in Nodes, IndexAgain(n) PROVE ResolverInv'
  BY <1>4, IndexAgainKeeps
<1>5. ASSUME NEW n \in Nodes, NEW d \in Dirs, Move(n, d) PROVE ResolverInv'
  BY <1>5, MoveKeeps
<1>6. ASSUME NEW n \in Nodes, NEW d \in Dirs, NEW x \in Names, Create(n, d, x) PROVE ResolverInv'
  BY <1>6, CreateKeeps
<1>7. ASSUME NEW n \in Nodes, NEW d \in Dirs, NEW x \in Names, Rename(n, d, x) PROVE ResolverInv'
  BY <1>7, RenameKeeps
<1>8. ASSUME NEW n \in Nodes, NEW d \in Dirs, NEW x \in Names, IndexNew(n, d, x) PROVE ResolverInv'
  BY <1>8, IndexNewKeeps
<1>9. CASE Undo
  BY <1>9, UndoKeeps
<1>10. CASE Backfill
  BY <1>10, BackfillKeeps
<1>11. CASE UNCHANGED vars
  <2>1. UNCHANGED <<rows, edge, version, last, silent, bereft, late, changes>>
    BY <1>11 DEF vars
  <2>2. Good([rows |-> rows', edge |-> edge'], version', silent', bereft', late')
    BY <2>1 DEF ResolverInv, Here
  <2>3. Good(Here, version, silent, bereft, late)'
    BY <2>2 DEF Here
  <2>4. DistinctPaths(rows)' /\ LastOK(rows, last)'
    BY <2>1 DEF ResolverInv
  <2> QED
    BY <2>1, <2>3, <2>4 DEF ResolverInv
<1> QED
  BY <1>1, <1>2, <1>3, <1>4, <1>5, <1>6, <1>7, <1>8, <1>9, <1>10, <1>11 DEF Next

-----------------------------------------------------------------------------
(* The theorems. *)

\* However nodes come, go and change their names, every match of a link's target is
\* accounted for: it is no better than the stored node, or got its name later.
THEOREM ResolverInvInductive == Spec => []ResolverInv
<1>1. Init => ResolverInv
  BY InitEstablishes
<1>2. ResolverInv /\ [Next]_vars => ResolverInv'
  BY NextKeeps
<1> QED
  BY <1>1, <1>2, PTL DEF Spec

\* A link belongs to a node that is there, and its stored node is there: deletions, renames
\* and undo leave no link to or from a node that is gone (the foreign keys, executeDeletion).
THEOREM LinksTyped == Spec => []ResolverTypeOK
<1>1. ResolverInv => ResolverTypeOK
  BY DEF ResolverInv, ResolverTypeOK, Good, Fits, Here, LastOK
<1> QED
  BY <1>1, ResolverInvInductive, PTL

\* A stored node answers to the target of its link, or lost the name without a refresh:
\* refreshOnRename resolves anew what pointed to a renamed node.
THEOREM StoredAnswers == Spec => []PointsAtMatch
<1>1. ResolverInv => PointsAtMatch
  BY DEF ResolverInv, PointsAtMatch, Good, Answers, Here
<1> QED
  BY <1>1, ResolverInvInductive, PTL

\* After the backfill a link has no node only when nothing matches, its node was deleted,
\* or the match came by a name that no refresh looked for.
THEOREM UnresolvedIsExplained == Spec => []NullIsUnresolved
<1>1. ResolverInv => NullIsUnresolved
  <2> SUFFICES ASSUME ResolverInv, version = 1, NEW l \in DOMAIN edge, edge[l] = Nothing, l \notin bereft,
                      NEW m, m = Resolve(rows, l.to), m # Nothing
               PROVE  <<l.from, m>> \in late /\ (m \in silent \/ ~IsKey(l.to, rows[m]))
    BY DEF NullIsUnresolved
  <2>1. /\ rows \in [Nodes -> Rows \cup {Nothing}] /\ l.to \in Targets
        /\ Nulls(Here, silent, bereft, late) /\ Here.rows = rows /\ Here.edge = edge
    BY DEF ResolverInv, Good, Fits, Here, Links
  <2>2. m \in Present(rows) /\ Matches(l.to, rows[m])
    BY <2>1, ResolveBest
  <2> QED
    BY <2>1, <2>2 DEF Nulls
<1> QED
  BY <1>1, ResolverInvInductive, PTL

\* A strictly better match than the stored node got its name after the link was resolved,
\* or the stored one lost its own without a refresh; ties of length included.
THEOREM BestWasStored == Spec => []StoredWasBest
<1>1. ResolverInv => StoredWasBest
  <2> SUFFICES ASSUME ResolverInv, NEW l \in DOMAIN edge, NEW n, n = edge[l], n # Nothing, l \notin bereft,
                      ~(n \in silent /\ <<l.from, n>> \in late),
                      NEW tier, tier = [k \in Present(rows) |-> Tier(l.to, rows[k])],
                      NEW m \in Present(rows), tier[m] # NoTier, Before(rows, tier, m, n)
               PROVE  <<l.from, m>> \in late
    BY DEF StoredWasBest
  <2>1. /\ n \in Present(rows)
        /\ Answers(Here, silent, bereft, late) /\ Here.rows = rows /\ Here.edge = edge
    BY DEF ResolverInv, Good, Fits, Here
  <2>2. \A k \in Present(rows) : Matches(l.to, rows[k]) /\ Better(rows, l.to, k, n) => <<l.from, k>> \in late
    BY <2>1 DEF Answers
  <2>3. Matches(l.to, rows[m]) /\ Better(rows, l.to, m, n)
    BY <2>1 DEF Before, Better, Matches
  <2> QED
    BY <2>2, <2>3
<1> QED
  BY <1>1, ResolverInvInductive, PTL
=============================================================================
