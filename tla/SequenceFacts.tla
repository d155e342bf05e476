--------------------------- MODULE SequenceFacts ---------------------------
(***************************************************************************)
(* Facts about sequences and their elements that the proofs of several     *)
(* components rest on.                                                     *)
(***************************************************************************)
EXTENDS Naturals, SequencesExt, SequenceTheorems, FiniteSetTheorems, TLAPS

\* A sequence that is not empty is its head and its tail.
LEMMA HeadTail ==
  ASSUME NEW S, NEW s \in Seq(S), s # <<>>
  PROVE  /\ Head(s) \in S /\ Tail(s) \in Seq(S)
         /\ Head(s) = s[1] /\ 1 \in DOMAIN s
         /\ \A i \in DOMAIN Tail(s) : i + 1 \in DOMAIN s /\ i + 1 # 1 /\ Tail(s)[i] = s[i + 1]
         /\ \A i \in DOMAIN s : i = 1 \/ (i - 1 \in DOMAIN Tail(s) /\ s[i] = Tail(s)[i - 1])
<1>1. /\ Head(s) \in S /\ Tail(s) \in Seq(S) /\ Len(Tail(s)) = Len(s) - 1
      /\ \A i \in 1 .. Len(Tail(s)) : Tail(s)[i] = s[i + 1]
  BY HeadTailProperties
<1>2. Len(s) \in Nat \ {0} /\ DOMAIN s = 1 .. Len(s) /\ Head(s) = s[1]
  BY EmptySeq, LenProperties
<1>3. DOMAIN Tail(s) = 1 .. Len(s) - 1
  BY <1>1, LenProperties
<1>4. 1 \in DOMAIN s
  BY <1>2
<1>5. \A i \in DOMAIN Tail(s) : i + 1 \in DOMAIN s /\ i + 1 # 1 /\ Tail(s)[i] = s[i + 1]
  BY <1>1, <1>2, <1>3
<1>6. ASSUME NEW i \in DOMAIN s, i # 1
      PROVE  i - 1 \in DOMAIN Tail(s) /\ s[i] = Tail(s)[i - 1]
  <2>1. i - 1 \in 1 .. Len(s) - 1 /\ (i - 1) + 1 = i
    BY <1>2, <1>6
  <2> QED
    BY <1>1, <1>3, <2>1
<1> QED
  BY <1>1, <1>2, <1>4, <1>5, <1>6

\* The elements of a sequence are its head and those of its tail.
LEMMA ElementsOfTail ==
  ASSUME NEW S, NEW s \in Seq(S), s # <<>>
  PROVE  /\ ToSet(s) = {Head(s)} \cup ToSet(Tail(s))
         /\ ToSet(s) \subseteq S /\ Head(s) \in S /\ Tail(s) \in Seq(S)
<1>1. /\ Head(s) \in S /\ Tail(s) \in Seq(S) /\ Head(s) = s[1] /\ 1 \in DOMAIN s
      /\ \A i \in DOMAIN Tail(s) : i + 1 \in DOMAIN s /\ Tail(s)[i] = s[i + 1]
      /\ \A i \in DOMAIN s : i = 1 \/ (i - 1 \in DOMAIN Tail(s) /\ s[i] = Tail(s)[i - 1])
  BY HeadTail
<1>2. ASSUME NEW i \in DOMAIN s
      PROVE  s[i] = Head(s) \/ \E j \in DOMAIN Tail(s) : s[i] = Tail(s)[j]
  BY <1>1
<1>3. \A j \in DOMAIN Tail(s) : \E i \in DOMAIN s : Tail(s)[j] = s[i]
  BY <1>1
<1>4. ToSet(s) = {Head(s)} \cup ToSet(Tail(s))
  BY <1>1, <1>2, <1>3 DEF ToSet
<1>5. DOMAIN s = 1 .. Len(s)
  BY LenProperties
<1>6. ToSet(s) \subseteq S
  BY <1>5, ElementOfSeq DEF ToSet
<1> QED
  BY <1>1, <1>4, <1>6

\* Appending adds an element.
LEMMA ElementsOfAppend ==
  ASSUME NEW S, NEW s \in Seq(S), NEW x \in S
  PROVE  ToSet(Append(s, x)) = ToSet(s) \cup {x} /\ Append(s, x) \in Seq(S)
<1>1. /\ Append(s, x) \in Seq(S) /\ Len(Append(s, x)) = Len(s) + 1
      /\ \A i \in 1 .. Len(s) : Append(s, x)[i] = s[i]
      /\ Append(s, x)[Len(s) + 1] = x
  BY AppendProperties
<1>2. DOMAIN s = 1 .. Len(s) /\ Len(s) \in Nat /\ DOMAIN Append(s, x) = 1 .. Len(s) + 1
  BY <1>1, LenProperties
<1>3. 1 .. Len(s) + 1 = (1 .. Len(s)) \cup {Len(s) + 1}
  BY <1>2
<1> QED
  BY <1>1, <1>2, <1>3 DEF ToSet

\* The empty sequence has none.
LEMMA NoElements == ToSet(<<>>) = {}
BY DEF ToSet
-----------------------------------------------------------------------------
(* Induction, for sets of numbers: the library's theorems about predicates    *)
(* take an operator as a parameter, these take a set.                          *)

\* Every set of numbers that is not empty has a least element.
LEMMA Least ==
  ASSUME NEW T \in SUBSET Nat, T # {}
  PROVE  \E x \in T : \A y \in T : x <= y
<1> DEFINE R == OpToRel(<, Nat)
<1>1. IsWellFoundedOn(R, Nat)
  BY NatLessThanWellFounded
<1>2. \A x, y \in Nat : <<y, x>> \in R <=> y < x
  BY DEF OpToRel
<1> HIDE DEF R
<1>3. PICK x \in T : \A y \in T : ~ (<<y, x>> \in R)
  BY <1>1, WFMin
<1>4. ASSUME NEW y \in T PROVE x <= y
  <2>1. x \in Nat /\ y \in Nat /\ ~(y < x)
    BY <1>2, <1>3
  <2> QED
    BY <2>1
<1> QED
  BY <1>4

\* A set with 0 that is closed under successors has all numbers.
LEMMA SetInduction ==
  ASSUME NEW T, 0 \in T, \A n \in Nat : n \in T => n + 1 \in T
  PROVE  Nat \subseteq T
<1> SUFFICES ASSUME Nat \ T # {} PROVE FALSE
  OBVIOUS
<1>1. PICK x \in Nat \ T : \A y \in Nat \ T : x <= y
  BY Least
<1>2. x # 0 /\ x - 1 \in Nat /\ ~(x <= x - 1) /\ (x - 1) + 1 = x
  BY <1>1
<1> QED
  BY <1>1, <1>2

\* A property of 0 that climbs from each number below n to the next holds of n.
LEMMA Climb ==
  ASSUME NEW n \in Nat, NEW T, 0 \in T, \A k \in 0 .. n : k # 0 /\ k - 1 \in T => k \in T
  PROVE  n \in T
<1> DEFINE U == {k \in Nat : k <= n => k \in T}
<1>1. 0 \in U
  OBVIOUS
<1>2. ASSUME NEW k \in Nat, k \in U PROVE k + 1 \in U
  <2> SUFFICES ASSUME k + 1 <= n PROVE k + 1 \in T
    OBVIOUS
  <2>1. k \in T /\ k + 1 \in 0 .. n /\ k + 1 # 0 /\ (k + 1) - 1 = k
    BY <1>2
  <2> QED
    BY <2>1
<1> HIDE DEF U
<1>3. n \in U
  BY <1>1, <1>2, SetInduction
<1> QED
  BY <1>3 DEF U

\* The greatest of some numbers from 1 to n is one of them.
LEMMA MaxIsMember ==
  ASSUME NEW n \in Nat
  PROVE  /\ \A t \in SUBSET (1 .. n) : t # {} => Max(t) \in t
         /\ n # 0 => \A t \in SUBSET (1 .. n) : n \in t => Max(t) = n
<1>1. ASSUME NEW k \in Nat, NEW t \in SUBSET (1 .. k), k \in t
      PROVE  Max(t) = k
  <2>1. \A y \in t : k >= y
    BY <1>1
  <2>2. \A x \in t : (\A y \in t : x >= y) => x = k
    BY <1>1
  <2> QED
    BY <1>1, <2>1, <2>2 DEF Max
<1> DEFINE T == {k \in Nat : \A t \in SUBSET (1 .. k) : t # {} => Max(t) \in t}
<1>2. 0 \in T
  <2>1. \A t \in SUBSET (1 .. 0) : t = {}
    OBVIOUS
  <2> QED
    BY <2>1
<1>3. ASSUME NEW k \in 0 .. n, k # 0, k - 1 \in T PROVE k \in T
  <2> SUFFICES ASSUME NEW t \in SUBSET (1 .. k), t # {} PROVE Max(t) \in t
    OBVIOUS
  <2>1. CASE k \in t
    BY <1>1, <2>1
  <2>2. CASE k \notin t
    <3>1. t \in SUBSET (1 .. k - 1)
      BY <2>2
    <3> QED
      BY <1>3, <3>1
  <2> QED
    BY <2>1, <2>2
<1> HIDE DEF T
<1>4. n \in T
  BY <1>2, <1>3, Climb
<1> QED
  BY <1>1, <1>4 DEF T

\* Up to k, the greatest number is k, and without it one gets up to k - 1.
LEMMA UpTo ==
  ASSUME NEW n \in Nat, NEW k \in 1 .. n
  PROVE  /\ 1 .. k \in SUBSET (1 .. n) /\ 1 .. k # {} /\ Max(1 .. k) = k
         /\ (1 .. k) \ {k} = 1 .. k - 1
<1>1. 1 .. k \in SUBSET (1 .. n) /\ k \in 1 .. k /\ k \in Nat /\ k # 0 /\ (1 .. k) \ {k} = 1 .. k - 1
  OBVIOUS
<1> QED
  BY <1>1, MaxIsMember

-----------------------------------------------------------------------------
(* Folds. *)

\* FoldLeft chooses a function it on the sets of positions of the sequence, with
\* it[t] = the step from it[t \ {Max(t)}] by the element at Max(t).  When the steps,
\* given as a function g, stay in I, there is such a function ...
IsFold(it, g, b, n, s) ==
  \A t \in SUBSET (1 .. n) : it[t] = IF t = {} THEN b ELSE g[<<it[t \ {Max(t)}], s[Max(t)]>>]

LEMMA FoldExists ==
  ASSUME NEW I, NEW T, NEW g \in [I \X T -> I], NEW b \in I,
         NEW n \in Nat, NEW s \in [1 .. n -> T]
  PROVE  \E it \in [SUBSET (1 .. n) -> I] : IsFold(it, g, b, n, s)
<1> DEFINE Def(it, k) == \A t \in SUBSET (1 .. k) :
                           it[t] = IF t = {} THEN b ELSE g[<<it[t \ {Max(t)}], s[Max(t)]>>]
<1> DEFINE E == {k \in 0 .. n : \E it \in [SUBSET (1 .. k) -> I] : Def(it, k)}
<1>1. 0 \in E
  <2> DEFINE it == [t \in SUBSET (1 .. 0) |-> b]
  <2>1. \A t \in SUBSET (1 .. 0) : t = {}
    OBVIOUS
  <2>2. it \in [SUBSET (1 .. 0) -> I] /\ Def(it, 0)
    BY <2>1
  <2> HIDE DEF it
  <2>3. \E f \in [SUBSET (1 .. 0) -> I] : Def(f, 0)
    BY <2>2
  <2> HIDE DEF Def
  <2>4. 0 \in 0 .. n
    OBVIOUS
  <2> QED
    BY <2>3, <2>4
<1>2. ASSUME NEW k \in 0 .. n, k # 0, k - 1 \in E PROVE k \in E
  <2>1. PICK it \in [SUBSET (1 .. k - 1) -> I] : Def(it, k - 1)
    BY <1>2
  <2> DEFINE new == [t \in SUBSET (1 .. k) |->
                       IF k \in t THEN g[<<it[t \ {k}], s[k]>>] ELSE it[t]]
  <2>2. k \in Nat /\ k - 1 \in Nat /\ s[k] \in T
    BY <1>2
  <2>3. ASSUME NEW t \in SUBSET (1 .. k), k \in t
        PROVE  t \ {k} \in SUBSET (1 .. k - 1) /\ k \notin t \ {k} /\ Max(t) = k
    BY <1>2, <2>2, <2>3, MaxIsMember
  <2>4. ASSUME NEW t \in SUBSET (1 .. k), k \notin t
        PROVE  t \in SUBSET (1 .. k - 1) /\ k \notin t \ {Max(t)} /\ t \ {Max(t)} \in SUBSET (1 .. k - 1)
    <3>1. \A x \in t : x \in 1 .. k - 1
      BY <2>2, <2>4
    <3> QED
      BY <2>4, <3>1
  <2>5. new \in [SUBSET (1 .. k) -> I]
    BY <2>1, <2>2, <2>3, <2>4
  <2>6. ASSUME NEW t \in SUBSET (1 .. k)
        PROVE  new[t] = IF t = {} THEN b ELSE g[<<new[t \ {Max(t)}], s[Max(t)]>>]
    <3>1. CASE k \in t
      <4>1. new[t] = g[<<it[t \ {k}], s[k]>>] /\ Max(t) = k /\ t # {}
        BY <2>3, <3>1
      <4>2. new[t \ {k}] = it[t \ {k}]
        BY <2>3, <3>1
      <4> QED
        BY <4>1, <4>2
    <3>2. CASE k \notin t
      <4>1. new[t] = it[t] /\ new[t \ {Max(t)}] = it[t \ {Max(t)}]
        BY <2>4, <3>2
      <4>2. it[t] = IF t = {} THEN b ELSE g[<<it[t \ {Max(t)}], s[Max(t)]>>]
        BY <2>1, <2>4, <3>2
      <4> QED
        BY <4>1, <4>2
    <3> QED
      BY <3>1, <3>2
  <2> HIDE DEF new
  <2> QED
    BY <2>5, <2>6
<1> HIDE DEF E
<1>3. n \in E
  BY <1>1, <1>2, Climb
<1> QED
  BY <1>3 DEF E, IsFold

\* ... and the fold is in I, whatever the steps are outside I.
IsFoldWithin(it, g, b, n, s, I) ==
  /\ it[{}] = b
  /\ \A t \in SUBSET (1 .. n) : t # {} /\ it[t \ {Max(t)}] \in I
       => it[t] = g[<<it[t \ {Max(t)}], s[Max(t)]>>]

LEMMA FoldStays ==
  ASSUME NEW I, NEW T, NEW g \in [I \X T -> I], NEW b \in I,
         NEW n \in Nat, NEW s \in [1 .. n -> T], NEW it, IsFoldWithin(it, g, b, n, s, I)
  PROVE  it[1 .. n] \in I
<1> DEFINE E == {k \in 0 .. n : it[1 .. k] \in I}
<1>1. 0 \in E
  <2>1. 1 .. 0 = {}
    OBVIOUS
  <2> QED
    BY <2>1 DEF IsFoldWithin
<1>2. ASSUME NEW k \in 0 .. n, k # 0, k - 1 \in E PROVE k \in E
  <2>1. /\ 1 .. k \in SUBSET (1 .. n) /\ 1 .. k # {} /\ Max(1 .. k) = k
        /\ (1 .. k) \ {k} = 1 .. k - 1 /\ s[k] \in T
    BY <1>2, UpTo
  <2>2. it[1 .. k] = g[<<it[1 .. k - 1], s[k]>>]
    BY <1>2, <2>1 DEF IsFoldWithin
  <2> QED
    BY <1>2, <2>1, <2>2
<1> HIDE DEF E
<1>3. n \in E
  BY <1>1, <1>2, Climb
<1> QED
  BY <1>3 DEF E

\* Induction along a fold: what holds of the start and is passed on by each step holds
\* of the fold.  P has the pairs of a number of steps and what they make.
Climbing(g, I, n, s, P) ==
  \A k \in 1 .. n, x \in I : <<k - 1, x>> \in P => <<k, g[<<x, s[k]>>]>> \in P

LEMMA FoldClimbs ==
  ASSUME NEW I, NEW T, NEW g \in [I \X T -> I], NEW b \in I,
         NEW n \in Nat, NEW s \in [1 .. n -> T], NEW it, IsFoldWithin(it, g, b, n, s, I),
         NEW P, <<0, b>> \in P, Climbing(g, I, n, s, P)
  PROVE  it[1 .. n] \in I /\ <<n, it[1 .. n]>> \in P
<1> DEFINE E == {k \in 0 .. n : it[1 .. k] \in I /\ <<k, it[1 .. k]>> \in P}
<1>1. 0 \in E
  <2>1. 1 .. 0 = {}
    OBVIOUS
  <2> QED
    BY <2>1 DEF IsFoldWithin
<1>2. ASSUME NEW k \in 0 .. n, k # 0, k - 1 \in E PROVE k \in E
  <2>1. /\ 1 .. k \in SUBSET (1 .. n) /\ 1 .. k # {} /\ Max(1 .. k) = k
        /\ (1 .. k) \ {k} = 1 .. k - 1 /\ s[k] \in T /\ k \in 1 .. n
    BY <1>2, UpTo
  <2>2. it[1 .. k] = g[<<it[1 .. k - 1], s[k]>>] /\ it[1 .. k - 1] \in I
    BY <1>2, <2>1 DEF IsFoldWithin
  <2>3. <<k - 1, it[1 .. k - 1]>> \in P
    BY <1>2
  <2>4. it[1 .. k] \in I /\ <<k, it[1 .. k]>> \in P
    BY <2>1, <2>2, <2>3 DEF Climbing
  <2> QED
    BY <2>4
<1> HIDE DEF E
<1>3. n \in E
  BY <1>1, <1>2, Climb
<1> QED
  BY <1>3 DEF E

\* What the steps of a fold add, the fold has in the end, and it loses nothing:
\* has[x] is what x has, and adds[y] what the step by y adds.
Adding(g, I, T, has, adds) ==
  \A x \in I, y \in T : has[x] \cup adds[y] \subseteq has[g[<<x, y>>]]

LEMMA FoldGathers ==
  ASSUME NEW I, NEW T, NEW g \in [I \X T -> I], NEW b \in I,
         NEW n \in Nat, NEW s \in [1 .. n -> T], NEW it, IsFoldWithin(it, g, b, n, s, I),
         NEW has, NEW adds, Adding(g, I, T, has, adds)
  PROVE  /\ it[1 .. n] \in I
         /\ has[b] \subseteq has[it[1 .. n]]
         /\ \A i \in 1 .. n : adds[s[i]] \subseteq has[it[1 .. n]]
<1> DEFINE E == {k \in 0 .. n : /\ it[1 .. k] \in I
                               /\ has[b] \subseteq has[it[1 .. k]]
                               /\ \A i \in 1 .. k : adds[s[i]] \subseteq has[it[1 .. k]]}
<1>1. 0 \in E
  <2>1. 1 .. 0 = {}
    OBVIOUS
  <2> QED
    BY <2>1 DEF IsFoldWithin
<1>2. ASSUME NEW k \in 0 .. n, k # 0, k - 1 \in E PROVE k \in E
  <2>1. /\ 1 .. k \in SUBSET (1 .. n) /\ 1 .. k # {} /\ Max(1 .. k) = k
        /\ (1 .. k) \ {k} = 1 .. k - 1 /\ s[k] \in T
    BY <1>2, UpTo
  <2>2. it[1 .. k] = g[<<it[1 .. k - 1], s[k]>>] /\ it[1 .. k - 1] \in I
    BY <1>2, <2>1 DEF IsFoldWithin
  <2>3. it[1 .. k] \in I /\ has[it[1 .. k - 1]] \cup adds[s[k]] \subseteq has[it[1 .. k]]
    BY <2>1, <2>2 DEF Adding
  <2>4. \A i \in 1 .. k : i = k \/ i \in 1 .. k - 1
    OBVIOUS
  <2> QED
    BY <1>2, <2>3, <2>4
<1> HIDE DEF E
<1>3. n \in E
  BY <1>1, <1>2, Climb
<1> QED
  BY <1>3 DEF E

-----------------------------------------------------------------------------
(* Sets as sequences. *)

\* SetToSeq lists the elements of a finite set.
LEMMA ListOfSet ==
  ASSUME NEW S, IsFiniteSet(S)
  PROVE  /\ Cardinality(S) \in Nat /\ SetToSeq(S) \in [1 .. Cardinality(S) -> S]
         /\ \A x \in S : \E i \in 1 .. Cardinality(S) : SetToSeq(S)[i] = x
<1> DEFINE N == 1 .. Cardinality(S)
<1>1. Cardinality(S) \in Nat /\ ExistsBijection(N, S)
  BY FS_CardinalityType
<1>2. \E f \in [N -> S] : IsInjective(f)
  BY <1>1 DEF ExistsBijection, Bijection, Injection
<1>3. SetToSeq(S) \in [N -> S] /\ IsInjective(SetToSeq(S))
  BY <1>2 DEF SetToSeq
<1>4. IsFiniteSet(N) /\ Cardinality(N) = Cardinality(S)
  BY <1>1, FS_Interval
<1>5. SetToSeq(S) \in Surjection(N, S)
  <2> HIDE DEF N
  <2>1. SetToSeq(S) \in Injection(N, S)
    BY <1>3 DEF Injection
  <2> QED
    BY <1>4, <2>1, FS_Injection
<1> QED
  BY <1>1, <1>3, <1>5 DEF Surjection

\* Each of SetToSeqs lists the elements of a finite set.
LEMMA ListsOfSet ==
  ASSUME NEW S, IsFiniteSet(S), NEW s \in SetToSeqs(S)
  PROVE  /\ Cardinality(S) \in Nat /\ s \in [1 .. Cardinality(S) -> S]
         /\ \A x \in S : \E i \in 1 .. Cardinality(S) : s[i] = x
<1> DEFINE N == 1 .. Cardinality(S)
<1>1. Cardinality(S) \in Nat
  BY FS_CardinalityType
<1>2. s \in [N -> S] /\ \A i, j \in N : i # j => s[i] # s[j]
  BY DEF SetToSeqs
<1>3. IsFiniteSet(N) /\ Cardinality(N) = Cardinality(S)
  BY <1>1, FS_Interval
<1>4. s \in Surjection(N, S)
  <2> HIDE DEF N
  <2>1. s \in Injection(N, S)
    BY <1>2 DEF Injection, IsInjective
  <2> QED
    BY <1>3, <2>1, FS_Injection
<1> QED
  BY <1>1, <1>2, <1>4 DEF Surjection

\* A list, of elements of T, that every element of S is on.
Lists(s, n, S, T) ==
  n \in Nat /\ s \in [1 .. n -> T] /\ \A x \in S : \E i \in 1 .. n : s[i] = x

\* One list after the other has the elements of both.
LEMMA ListAfterList ==
  ASSUME NEW T, NEW S, NEW U, NEW m, NEW n, NEW s, NEW t, Lists(s, m, S, T), Lists(t, n, U, T)
  PROVE  Lists(s \o t, m + n, S \cup U, T)
<1>0. /\ m \in Nat /\ s \in [1 .. m -> T] /\ \A x \in S : \E i \in 1 .. m : s[i] = x
      /\ n \in Nat /\ t \in [1 .. n -> T] /\ \A x \in U : \E i \in 1 .. n : t[i] = x
  BY DEF Lists
<1>1. s \in Seq(T) /\ t \in Seq(T) /\ Len(s) = m /\ Len(t) = n
  BY <1>0
<1>2. /\ s \o t \in Seq(T) /\ Len(s \o t) = m + n
      /\ \A i \in 1 .. m + n : (s \o t)[i] = IF i <= m THEN s[i] ELSE t[i - m]
  BY <1>1, ConcatProperties
<1>3. s \o t \in [1 .. m + n -> T] /\ m + n \in Nat
  BY <1>0, <1>2, LenProperties
<1>4. ASSUME NEW i \in 1 .. m PROVE i \in 1 .. m + n /\ (s \o t)[i] = s[i]
  BY <1>0, <1>2
<1>5. ASSUME NEW i \in 1 .. n PROVE i + m \in 1 .. m + n /\ (s \o t)[i + m] = t[i]
  <2>1. i + m \in 1 .. m + n /\ ~(i + m <= m) /\ (i + m) - m = i
    BY <1>0
  <2> QED
    BY <1>2, <2>1
<1>6. ASSUME NEW x \in S PROVE \E k \in 1 .. m + n : (s \o t)[k] = x
  <2>1. PICK i \in 1 .. m : s[i] = x
    BY <1>0
  <2> QED
    BY <1>4, <2>1
<1>7. ASSUME NEW x \in U PROVE \E k \in 1 .. m + n : (s \o t)[k] = x
  <2>1. PICK i \in 1 .. n : t[i] = x
    BY <1>0
  <2> QED
    BY <1>5, <2>1
<1> QED
  BY <1>3, <1>6, <1>7 DEF Lists
=============================================================================
